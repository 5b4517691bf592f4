---------------------------- MODULE PanelsProofs ----------------------------
(***************************************************************************)
(* Theorems about the pages of the browser, for every value of the         *)
(* constants, first part: the run summary subscription, the mail's table   *)
(* and thread, a session's tail, the hooks that read details, the page of  *)
(* one run, the forms that sling, whose eyes the tab reads with, and the   *)
(* aquarium.                                                               *)
(***************************************************************************)
EXTENDS Pages, FiniteSetTheorems, WellFoundedInduction, TLAPS

\* "none" is the status of Nothing alone, and what was never set is nothing.
NothingIsNone ==
    /\ data.status = "none" => data = Nothing
    /\ shown.status = "none" => shown = Nothing
    /\ lastGood = Nothing \/ HasLanes(lastGood)
    /\ dirty => data # Nothing

\* Before the first answer the first load, or one that superseded it, is out.
FirstLoad ==
    /\ data = Nothing => shown = Nothing /\ latest # None /\ showsLoading
    /\ shown = Nothing => (data = Nothing \/ dirty) /\ showsLoading /\ trailing = "none"
    /\ shown # Nothing /\ ~dirty => shown = data

\* The preview is the first load: while it is the latest it is the only one.
PreviewIsFirst ==
    latest # None /\ load[latest].kind = "preview" =>
        data = Nothing /\ \A m \in Loads \ {latest} : ~InFlight(m)

\* Lanes that are shown are remembered, still there, and were upgraded.
LanesAreKept ==
    /\ HasLanes(shown) => HasLanes(lastGood) /\ HasLanes(data) /\ upgraded
    /\ shown = Nothing => ~upgraded

\* A stale snapshot is one behind which a failure stands, or was masked.
StaleHasReason == data.status = "stale" => failed \/ masked

\* A rendered result that is no recovery has a retry, while any is left.
RetryIsArmed ==
    latest = None /\ ~dirty /\ ~retry /\ attempt < MaxAttempts /\ ~masked =>
        data.status = "fresh" /\ ~data.empty

\* The queued match waits for the end of a load, the trailing timer for none,
\* and a timer that is due has the floor behind it.
QueueFits ==
    /\ pending => showsLoading
    /\ trailing # "none" => ~showsLoading
    /\ recent => trailing # "due"

\* What the latest load has read, or will read, is all that was announced.
Covers == latest # None /\ (load[latest].seen = 0 \/ load[latest].seen >= kept)
TrailingCovers == trailing # "none" /\ latest # None => Covers

\* What was announced is under way: the latest load brings it, a queued match
\* or the trailing timer will ask for it, the one upgrade is still to come, or
\* the last answer has it or was a failure.
Announced ==
    \/ Covers
    \/ pending
    \/ trailing # "none"
    \/ ~upgraded
    \/ latest = None /\ (data.status = "fresh" => data.seen >= kept)

\* The inductive invariant.  That a rest is on good data needs to know, of
\* every moment before it, what will still bring what was announced.
IInv ==
    /\ TypeOK /\ NothingIsNone /\ FirstLoad /\ PreviewIsFirst /\ LanesAreKept
    /\ StaleHasReason /\ RetryIsArmed /\ QueueFits /\ TrailingCovers /\ Announced
-----------------------------------------------------------------------------
\* The mount.
LEMMA InitIInv == ASSUME Assumptions, Init PROVE IInv
  <1>1. PICK l \in Loads : load = [x \in Loads |-> IF x = l THEN Begun("preview") ELSE Idle] /\ latest = l
    BY DEF Init
  <1>2. TypeOK
    <2>1. load \in [Loads -> [kind : {"idle", "preview", "wide", "cheap"}, seen : 0 .. MaxWorld]]
      BY <1>1 DEF Begun, Idle, Assumptions
    <2>2. data \in Snapshots /\ shown \in Snapshots /\ lastGood \in Snapshots
      BY DEF Init, Nothing, Snapshot, Snapshots, Assumptions
    <2>3. {told, dirty, showsLoading, failed, upgraded, retry, pending, recent, masked} \subseteq BOOLEAN
      BY DEF Init
    <2>4. world \in Versions /\ kept \in 0 .. world /\ attempt \in 0 .. MaxAttempts
      BY DEF Init, Versions, MaxAttempts, Assumptions
    <2> QED
      BY <1>1, <2>1, <2>2, <2>3, <2>4 DEF TypeOK, Init, InFlight, Begun
  <1>3. PreviewIsFirst
    BY <1>1 DEF Init, PreviewIsFirst, InFlight, Idle
  <1>4. latest # None
    BY <1>1 DEF Assumptions
  <1> QED
    BY <1>1, <1>2, <1>3, <1>4 DEF Init, IInv, NothingIsNone, FirstLoad, LanesAreKept, StaleHasReason,
      RetryIsArmed, QueueFits, TrailingCovers, Announced, Nothing, Snapshot, HasLanes

\* What a new load is: the latest one, and one that has read nothing.
LEMMA Started ==
    ASSUME Assumptions, IInv, NEW kind \in {"wide", "cheap"}, Start(kind)
    PROVE  /\ load' \in [Loads -> [kind : {"idle", "preview", "wide", "cheap"}, seen : 0 .. MaxWorld]]
           /\ latest' \in Loads /\ latest' # None
           /\ load'[latest'] = Begun(kind) /\ InFlight(latest)'
           /\ load'[latest'].seen = 0 /\ load'[latest'].kind # "preview"
  <1>1. PICK l \in Loads : load' = [load EXCEPT ![l] = Begun(kind)] /\ latest' = l
    BY DEF Start
  <1>2. Begun(kind) \in [kind : {"idle", "preview", "wide", "cheap"}, seen : 0 .. MaxWorld]
    BY DEF Begun, Assumptions
  <1>3. load'[l] = Begun(kind)
    BY <1>1 DEF IInv, TypeOK
  <1> QED
    BY <1>1, <1>2, <1>3 DEF IInv, TypeOK, Begun, InFlight, Assumptions

\* A load that starts brings all that was announced, and disturbs nothing else.
LEMMA StartIInv ==
    ASSUME Assumptions, IInv, NEW kind \in {"wide", "cheap"}, Start(kind),
           UNCHANGED <<world, state, rendered, failed, upgraded, attempt, masked>>,
           told' \in BOOLEAN, retry' \in BOOLEAN, recent' \in BOOLEAN,
           kept' \in 0 .. world, pending' = pending,
           trailing' \in {trailing, "none"}, recent' => trailing' # "due"
    PROVE  IInv'
  <1> USE Started DEF state, rendered
  <1>1. TypeOK'
    <2>1. {told', dirty', showsLoading', failed', upgraded', retry', pending', recent', masked'}
            \subseteq BOOLEAN
      BY DEF IInv, TypeOK
    <2> QED
      BY <2>1 DEF IInv, TypeOK, InFlight
  <1>2. NothingIsNone' /\ LanesAreKept' /\ StaleHasReason' /\ QueueFits'
    BY DEF IInv, NothingIsNone, LanesAreKept, StaleHasReason, QueueFits
  <1>3. FirstLoad'
    BY DEF IInv, FirstLoad
  <1>4. PreviewIsFirst' /\ RetryIsArmed' /\ TrailingCovers' /\ Announced'
    BY DEF PreviewIsFirst, RetryIsArmed, TrailingCovers, Announced, Covers
  <1> QED
    BY <1>1, <1>2, <1>3, <1>4 DEF IInv

\* The upstream read of a load sees every change that was announced.
LEMMA ReadIInv == ASSUME Assumptions, IInv, NEW l \in Loads, Read(l) PROVE IInv'
  <1> USE DEF Read, state, rendered, recovery, events, history
  <1>1. load' = [load EXCEPT ![l] = [kind |-> load[l].kind, seen |-> world]] /\ latest' = latest
    <2>1. [load[l] EXCEPT !.seen = world] = [kind |-> load[l].kind, seen |-> world]
      BY DEF IInv, TypeOK
    <2>2. load' = [load EXCEPT ![l] = [load[l] EXCEPT !.seen = world]] /\ latest' = latest
      OBVIOUS
    <2> QED
      BY <2>1, <2>2
  <1>2. \A m \in Loads : load'[m].kind = load[m].kind
    BY <1>1 DEF IInv, TypeOK
  <1>3. world \in 0 .. MaxWorld /\ world # 0 /\ world >= kept
    BY DEF IInv, TypeOK, Versions, Assumptions
  <1>4. TypeOK'
    BY <1>1, <1>2, <1>3 DEF IInv, TypeOK, InFlight
  <1>5. Covers => Covers'
    BY <1>1, <1>3 DEF IInv, TypeOK, Covers
  <1>6. PreviewIsFirst'
    BY <1>1, <1>2 DEF IInv, TypeOK, PreviewIsFirst, InFlight
  <1>7. NothingIsNone' /\ LanesAreKept' /\ StaleHasReason' /\ QueueFits' /\ FirstLoad' /\ RetryIsArmed'
    BY <1>1 DEF IInv, NothingIsNone, LanesAreKept, StaleHasReason, QueueFits, FirstLoad, RetryIsArmed
  <1>8. TrailingCovers' /\ Announced'
    BY <1>1, <1>5 DEF IInv, TrailingCovers, Announced
  <1> QED
    BY <1>4, <1>6, <1>7, <1>8 DEF IInv

\* A load settles, and its answer is adopted.
LEMMA AdoptedIInv ==
    ASSUME Assumptions, IInv, NEW l \in Loads, NEW how \in {"ok", "empty", "error"},
           Settle(l, how), Adopts(l)
    PROVE  IInv'
  <1> USE DEF Settle, rendered, recovery, events
  <1>1. /\ load' = [load EXCEPT ![l] = Idle] /\ dirty' = TRUE /\ masked' = FALSE
        /\ latest' = IF l = latest THEN None ELSE latest
        /\ failed' = FailedAfter(load[l].kind, how)
        /\ UNCHANGED <<world, told, shown, showsLoading, lastGood, upgraded, attempt, retry,
                       pending, trailing, recent, kept>>
    BY DEF LatestAfter
  <1> DEFINE fresh == Snapshot("fresh", load[l].seen, how = "empty")
  <1>2. data' = IF how = "error" THEN Retained(load[l].kind) ELSE fresh
    BY DEF Settle
  <1>3. fresh \in Snapshots /\ fresh.status = "fresh" /\ fresh.seen = load[l].seen
    BY DEF IInv, TypeOK, Snapshot, Snapshots
  <1>4. /\ data' \in Snapshots /\ data'.status \in {"error", "fresh", "stale"}
        /\ how # "error" => data'.status = "fresh" /\ data'.seen = load[l].seen
        /\ how = "error" => data'.status # "fresh"
        /\ data'.status = "stale" => failed'
        /\ load[l].kind # "preview" /\ HasLanes(lastGood) => HasLanes(data')
    <2>1. CASE how # "error"
      BY <1>2, <1>3, <2>1 DEF HasLanes
    <2>2. CASE how = "error" /\ (load[l].kind = "preview" \/ lastGood = Nothing)
      <3>1. data' = Failure
        BY <1>2, <2>2 DEF Retained
      <3> QED
        BY <2>2, <3>1 DEF Failure, Snapshot, Snapshots, HasLanes, Nothing, Assumptions
    <2>3. CASE how = "error" /\ load[l].kind # "preview" /\ lastGood # Nothing
      <3>1. data' = [lastGood EXCEPT !.status = "stale"]
        BY <1>2, <2>3 DEF Retained
      <3>2. failed'
        BY <1>1, <2>3 DEF FailedAfter
      <3> QED
        BY <2>3, <3>1, <3>2 DEF IInv, TypeOK, Snapshots, HasLanes
    <2> QED
      BY <2>1, <2>2, <2>3
  <1>5. data' # Nothing
    BY <1>4 DEF Nothing, Snapshot
  <1>6. InFlight(l) /\ (how # "error" => load[l].seen # 0)
    BY DEF Settle
  <1>7. l = latest \/ (data = Nothing /\ shown = Nothing /\ latest # None /\ trailing = "none")
    BY DEF Adopts, IInv, FirstLoad
  <1>8. latest' # None => latest' = latest /\ l # latest /\ load'[latest] = load[latest]
    BY <1>1 DEF IInv, TypeOK
  <1>9. TypeOK'
    <2>1. failed' \in BOOLEAN
      BY <1>1 DEF FailedAfter, IInv, TypeOK
    <2>2. load' \in [Loads -> [kind : {"idle", "preview", "wide", "cheap"}, seen : 0 .. MaxWorld]]
      BY <1>1 DEF IInv, TypeOK, Idle, Assumptions
    <2>3. {told', dirty', showsLoading', failed', upgraded', retry', pending', recent', masked'}
            \subseteq BOOLEAN
      BY <1>1, <2>1 DEF IInv, TypeOK
    <2> QED
      BY <1>1, <1>4, <1>8, <2>2, <2>3 DEF IInv, TypeOK, InFlight
  <1>10. NothingIsNone' /\ FirstLoad' /\ QueueFits' /\ RetryIsArmed' /\ StaleHasReason'
    BY <1>1, <1>4, <1>5, <1>7 DEF IInv, NothingIsNone, FirstLoad, QueueFits, RetryIsArmed, StaleHasReason
  <1>11. LanesAreKept'
    <2> SUFFICES ASSUME HasLanes(shown) PROVE HasLanes(data')
      BY <1>1 DEF IInv, LanesAreKept
    <2>1. l = latest /\ data # Nothing
      BY <1>7 DEF IInv, LanesAreKept, HasLanes, Nothing, Snapshot
    <2>2. latest # None
      BY <2>1 DEF Assumptions
    <2>3. load[l].kind # "preview"
      BY <2>1, <2>2 DEF IInv, PreviewIsFirst
    <2> QED
      BY <1>4, <2>3 DEF IInv, LanesAreKept
  <1>12. PreviewIsFirst'
    BY <1>1, <1>6, <1>7, <1>8 DEF IInv, TypeOK, PreviewIsFirst
  <1>13. TrailingCovers'
    BY <1>1, <1>7 DEF TrailingCovers
  <1>14. Announced'
    <2>1. CASE l # latest
      BY <1>1, <1>7, <1>8, <2>1 DEF IInv, Announced, Covers
    <2>2. CASE l = latest
      BY <1>1, <1>4, <1>6, <2>2 DEF IInv, Announced, Covers, Assumptions
    <2> QED
      BY <2>1, <2>2
  <1> QED
    BY <1>9, <1>10, <1>11, <1>12, <1>13, <1>14 DEF IInv

\* A load settles that was superseded, and is dropped.
LEMMA DroppedIInv ==
    ASSUME Assumptions, IInv, NEW l \in Loads, NEW how \in {"ok", "empty", "error"},
           Settle(l, how), ~Adopts(l)
    PROVE  IInv'
  <1>1. /\ load' = [load EXCEPT ![l] = Idle] /\ latest' = latest
        /\ failed' = FailedAfter(load[l].kind, how)
        /\ masked' = (masked \/ (failed /\ ~failed'))
        /\ UNCHANGED <<world, told, data, dirty, shown, showsLoading, lastGood, upgraded, attempt,
                       retry, pending, trailing, recent, kept>>
    BY DEF Settle, LatestAfter, Adopts, rendered, recovery, events, state
  <1>2. l # latest /\ data # Nothing
    BY DEF Adopts
  <1>3. \A m \in Loads : m # l => load'[m] = load[m]
    BY <1>1 DEF IInv, TypeOK
  <1>4. failed' \in BOOLEAN /\ masked' \in BOOLEAN
    BY <1>1 DEF FailedAfter, IInv, TypeOK
  <1>5. TypeOK'
    <2>1. load' \in [Loads -> [kind : {"idle", "preview", "wide", "cheap"}, seen : 0 .. MaxWorld]]
      BY <1>1 DEF IInv, TypeOK, Idle, Assumptions
    <2>2. {told', dirty', showsLoading', failed', upgraded', retry', pending', recent', masked'}
            \subseteq BOOLEAN
      BY <1>1, <1>4 DEF IInv, TypeOK
    <2> QED
      BY <1>1, <1>2, <1>3, <2>1, <2>2 DEF IInv, TypeOK, InFlight
  <1>6. NothingIsNone' /\ FirstLoad' /\ LanesAreKept' /\ QueueFits'
    BY <1>1 DEF IInv, NothingIsNone, FirstLoad, LanesAreKept, QueueFits
  <1>7. StaleHasReason' /\ RetryIsArmed'
    BY <1>1, <1>4 DEF IInv, TypeOK, StaleHasReason, RetryIsArmed
  <1>8. PreviewIsFirst' /\ TrailingCovers' /\ Announced'
    BY <1>1, <1>2, <1>3 DEF IInv, TypeOK, PreviewIsFirst, TrailingCovers, Announced, Covers
  <1> QED
    BY <1>5, <1>6, <1>7, <1>8 DEF IInv

\* React renders: retry, upgrade and trailing timer follow from what changed.
LEMMA RenderIInv == ASSUME Assumptions, IInv, Render PROVE IInv'
  <1>1. /\ dirty \/ showsLoading # Loading
        /\ dirty' = FALSE /\ shown' = data /\ showsLoading' = Loading
        /\ lastGood' = (IF HasLanes(data) THEN data ELSE lastGood)
        /\ upgraded' = (upgraded \/ Upgrades)
        /\ UNCHANGED <<world, told, data, failed, recent, kept, masked>>
    BY DEF Render, Upgrade, history
  <1>2. \/ /\ ~Upgrades /\ load' = load /\ latest' = latest
        \/ /\ load' \in [Loads -> [kind : {"idle", "preview", "wide", "cheap"}, seen : 0 .. MaxWorld]]
           /\ latest' \in Loads /\ latest' # None /\ InFlight(latest)'
           /\ load'[latest'].seen = 0 /\ load'[latest'].kind # "preview"
    BY Started DEF Render, Upgrade, reads
  <1>3. Loading \in BOOLEAN /\ (Loading <=> latest # None) /\ Upgrades \in BOOLEAN
    BY DEF Loading, Upgrades, IInv, TypeOK, HasLanes
  <1>4. data # Nothing
    BY <1>1, <1>3 DEF IInv, FirstLoad, NothingIsNone, TypeOK
  <1>5. retry' \in BOOLEAN /\ attempt' \in 0 .. MaxAttempts
    <2>1. CASE ~dirty
      BY <2>1 DEF Render, Retry, IInv, TypeOK
    <2>2. CASE dirty /\ ~Degraded(data)
      <3>1. retry' = FALSE /\ attempt' = 0
        BY <2>2 DEF Render, Retry
      <3>2. 0 \in 0 .. MaxAttempts
        BY DEF MaxAttempts
      <3> QED
        BY <3>1, <3>2
    <2>3. CASE dirty /\ Degraded(data)
      <3>1. retry' = (attempt < MaxAttempts) /\ attempt' = (IF attempt < MaxAttempts THEN attempt + 1 ELSE attempt)
        BY <2>3 DEF Render, Retry
      <3>2. attempt \in 0 .. MaxAttempts /\ MaxAttempts \in Nat
        BY DEF IInv, TypeOK, MaxAttempts
      <3>3. attempt' \in 0 .. MaxAttempts
        BY <3>1, <3>2
      <3> QED
        BY <3>1, <3>3
    <2> QED
      BY <2>1, <2>2, <2>3
  <1>6. /\ pending' \in BOOLEAN /\ trailing' \in {"none", "waiting", "due"}
        /\ recent => trailing' # "due"
    BY DEF Render, Trail, Scheduled, IInv, TypeOK, QueueFits
  <1>7. TypeOK'
    <2>1. {told', dirty', showsLoading', failed', upgraded', retry', pending', recent', masked'}
            \subseteq BOOLEAN
      BY <1>1, <1>3, <1>5, <1>6 DEF IInv, TypeOK
    <2>2. load' \in [Loads -> [kind : {"idle", "preview", "wide", "cheap"}, seen : 0 .. MaxWorld]]
          /\ latest' \in Loads \cup {None} /\ (latest' # None => InFlight(latest)')
      BY <1>2 DEF IInv, TypeOK, InFlight
    <2>3. data' \in Snapshots /\ shown' \in Snapshots /\ lastGood' \in Snapshots
      BY <1>1 DEF IInv, TypeOK
    <2> QED
      BY <1>1, <1>5, <1>6, <2>1, <2>2, <2>3 DEF IInv, TypeOK
  <1>8. NothingIsNone' /\ StaleHasReason'
    BY <1>1 DEF IInv, NothingIsNone, StaleHasReason
  <1>9. FirstLoad'
    BY <1>1, <1>4 DEF IInv, FirstLoad
  <1>10. PreviewIsFirst'
    BY <1>1, <1>2 DEF IInv, PreviewIsFirst, InFlight
  <1>11. LanesAreKept'
    <2> SUFFICES ASSUME HasLanes(data) PROVE upgraded'
      BY <1>1, <1>4 DEF LanesAreKept
    <2>1. CASE dirty
      BY <1>1, <2>1 DEF Upgrades
    <2>2. CASE ~dirty
      BY <1>1, <1>4, <2>2 DEF IInv, FirstLoad, LanesAreKept
    <2> QED
      BY <2>1, <2>2 DEF IInv, TypeOK
  <1>12. RetryIsArmed'
    <2> SUFFICES ASSUME latest' = None, ~retry', attempt' < MaxAttempts, ~masked
                 PROVE  data.status = "fresh" /\ ~data.empty
      BY <1>1 DEF RetryIsArmed
    <2>1. latest = None
      BY <1>2
    <2>2. CASE ~dirty
      BY <2>1, <2>2 DEF Render, Retry, IInv, RetryIsArmed
    <2>3. CASE dirty
      <3>1. ~Degraded(data)
        BY <2>3 DEF Render, Retry, IInv, TypeOK, MaxAttempts
      <3> QED
        BY <1>4, <3>1 DEF Degraded, IInv, StaleHasReason, NothingIsNone, TypeOK, Snapshots
    <2> QED
      BY <2>2, <2>3 DEF IInv, TypeOK
  <1>13. CASE showsLoading = Loading
    <2>1. pending' = pending /\ trailing' = trailing
      BY <1>13 DEF Render, Trail
    <2>2. QueueFits'
      BY <1>1, <1>13, <2>1 DEF IInv, QueueFits
    <2>3. TrailingCovers' /\ Announced'
      BY <1>1, <1>2, <2>1 DEF IInv, TrailingCovers, Announced, Covers
    <2> QED
      BY <1>7, <1>8, <1>9, <1>10, <1>11, <1>12, <2>2, <2>3 DEF IInv
  <1>14. CASE showsLoading # Loading /\ pending /\ ~Loading
    <2>1. pending' = FALSE /\ trailing' # "none"
      BY <1>14 DEF Render, Trail, Scheduled
    <2>2. QueueFits'
      BY <1>1, <1>6, <1>14, <2>1 DEF IInv, QueueFits
    <2>3. TrailingCovers' /\ Announced'
      BY <1>1, <1>2, <1>3, <1>14, <2>1 DEF IInv, TrailingCovers, Announced, Covers
    <2> QED
      BY <1>7, <1>8, <1>9, <1>10, <1>11, <1>12, <2>2, <2>3 DEF IInv
  <1>15. CASE showsLoading # Loading /\ ~(pending /\ ~Loading)
    <2>1. pending' = pending /\ trailing' = "none"
      BY <1>15 DEF Render, Trail
    <2>2. QueueFits'
      BY <1>1, <1>3, <1>15, <2>1 DEF IInv, TypeOK, QueueFits
    <2>3. TrailingCovers'
      BY <2>1 DEF TrailingCovers
    <2>4. Announced'
      BY <1>1, <1>2, <1>3, <1>15, <2>1 DEF IInv, TypeOK, Announced, QueueFits, TrailingCovers, Covers
    <2> QED
      BY <1>7, <1>8, <1>9, <1>10, <1>11, <1>12, <2>2, <2>3, <2>4 DEF IInv
  <1> QED
    BY <1>13, <1>14, <1>15

\* A refresh of the event path begins: what it reads is all there is.
LEMMA RefreshIInv ==
    ASSUME Assumptions, IInv, RunRefresh,
           UNCHANGED <<world, state, rendered, failed, recovery, pending, masked>>,
           told' \in BOOLEAN, kept' \in 0 .. world
    PROVE  IInv'
  <1>1. Start("cheap") /\ trailing' = "none" /\ recent' = TRUE
    BY DEF RunRefresh, AfterRefresh
  <1>2. retry' \in BOOLEAN
    BY DEF recovery, IInv, TypeOK
  <1> QED
    BY <1>1, <1>2, StartIInv DEF recovery

\* A match is heard.
LEMMA MatchIInv == ASSUME Assumptions, IInv, OnSseMatch PROVE IInv'
  <1>1. told' = FALSE /\ UNCHANGED <<world, state, rendered, failed, recovery, masked>>
    BY DEF OnSseMatch
  <1>2. world \in 0 .. world /\ kept \in 0 .. world
    BY DEF IInv, TypeOK, Versions
  <1> USE DEF state, rendered, recovery, events, reads
  <1>3. CASE shown # Nothing /\ ~Queues /\ ~recent
    BY <1>1, <1>2, <1>3, RefreshIInv DEF OnSseMatch
  <1>4. CASE ~(shown # Nothing /\ ~Queues /\ ~recent)
    <2>1. /\ UNCHANGED <<load, latest, trailing, recent>>
          /\ \/ shown = Nothing /\ kept' = world /\ pending' = pending
             \/ shown # Nothing /\ showsLoading /\ kept' = world /\ pending' = TRUE
             \/ kept' = kept /\ pending' = pending
      BY <1>4 DEF OnSseMatch, Queues
    <2>2. {told', dirty', showsLoading', failed', upgraded', retry', pending', recent', masked'}
            \subseteq BOOLEAN
      BY <1>1, <2>1 DEF IInv, TypeOK
    <2>3. TypeOK'
      BY <1>1, <1>2, <2>1, <2>2 DEF IInv, TypeOK, InFlight
    <2>4. NothingIsNone' /\ FirstLoad' /\ LanesAreKept' /\ StaleHasReason' /\ RetryIsArmed'
      BY <1>1, <2>1 DEF IInv, NothingIsNone, FirstLoad, LanesAreKept, StaleHasReason, RetryIsArmed
    <2>5. PreviewIsFirst' /\ QueueFits'
      BY <1>1, <2>1 DEF IInv, PreviewIsFirst, InFlight, QueueFits, FirstLoad
    <2>6. TrailingCovers'
      BY <1>1, <2>1 DEF IInv, TrailingCovers, Covers, QueueFits, FirstLoad
    <2>7. Announced'
      <3>1. CASE shown = Nothing
        BY <1>1, <2>1, <3>1 DEF IInv, Announced, LanesAreKept
      <3>2. CASE shown # Nothing
        BY <1>1, <2>1, <3>2 DEF IInv, Announced, Covers
      <3> QED
        BY <3>1, <3>2
    <2> QED
      BY <2>3, <2>4, <2>5, <2>6, <2>7 DEF IInv
  <1> QED
    BY <1>3, <1>4

\* What leaves the loads and the data alone.
LEMMA OtherIInv ==
    ASSUME Assumptions, IInv, FloorPasses \/ BeadsChange \/ UNCHANGED vars PROVE IInv'
  <1> USE DEF reads, state, rendered, recovery, events, history
  <1>1. UNCHANGED <<load, latest, data, dirty, shown, showsLoading, lastGood, failed, upgraded,
                    attempt, retry, pending, kept, masked>>
    BY DEF FloorPasses, BeadsChange, vars
  <1>2. /\ world' \in Versions /\ kept \in 0 .. world'
        /\ trailing' \in {"none", "waiting", "due"}
        /\ (trailing' = "none" <=> trailing = "none") /\ (recent' => trailing' # "due")
    <2>1. CASE FloorPasses
      BY <2>1 DEF FloorPasses, IInv, TypeOK
    <2>2. CASE BeadsChange
      BY <2>2 DEF BeadsChange, IInv, TypeOK, Versions, QueueFits, Assumptions
    <2>3. CASE UNCHANGED vars
      BY <2>3 DEF vars, IInv, TypeOK, QueueFits
    <2> QED
      BY <2>1, <2>2, <2>3
  <1>3. told' \in BOOLEAN /\ recent' \in BOOLEAN
    BY DEF FloorPasses, BeadsChange, vars, IInv, TypeOK
  <1>4. TypeOK'
    <2>1. {told', dirty', showsLoading', failed', upgraded', retry', pending', recent', masked'}
            \subseteq BOOLEAN
      BY <1>1, <1>3 DEF IInv, TypeOK
    <2> QED
      BY <1>1, <1>2, <2>1 DEF IInv, TypeOK, InFlight
  <1>5. NothingIsNone' /\ FirstLoad' /\ LanesAreKept' /\ StaleHasReason' /\ RetryIsArmed'
    BY <1>1, <1>2 DEF IInv, NothingIsNone, FirstLoad, LanesAreKept, StaleHasReason, RetryIsArmed
  <1>6. PreviewIsFirst' /\ QueueFits' /\ TrailingCovers' /\ Announced'
    BY <1>1, <1>2 DEF IInv, PreviewIsFirst, InFlight, QueueFits, TrailingCovers, Announced, Covers
  <1> QED
    BY <1>4, <1>5, <1>6 DEF IInv

\* No step breaks it.
LEMMA NextIInv == ASSUME Assumptions, IInv, [Next]_vars PROVE IInv'
  <1>1. ASSUME NEW l \in Loads, Read(l) PROVE IInv'
    BY <1>1, ReadIInv
  <1>2. ASSUME NEW l \in Loads, NEW how \in {"ok", "empty", "error"}, Settle(l, how) PROVE IInv'
    BY <1>2, AdoptedIInv, DroppedIInv
  <1>3. CASE Render
    BY <1>3, RenderIInv
  <1>4. kept \in 0 .. world /\ told \in BOOLEAN /\ recent \in BOOLEAN /\ retry \in BOOLEAN
        /\ (recent => trailing # "due")
    BY DEF IInv, TypeOK, QueueFits
  <1>5. CASE RetryFires \/ ManualRefresh
    <2>1. Start("wide")
      BY <1>5 DEF RetryFires, ManualRefresh
    <2>2. /\ UNCHANGED <<world, told, state, rendered, failed, upgraded, attempt, masked,
                         recent, kept, pending, trailing>>
          /\ retry' \in BOOLEAN
      BY <1>4, <1>5 DEF RetryFires, ManualRefresh, recovery, events, history
    <2> QED
      BY <1>4, <2>1, <2>2, StartIInv
  <1>6. CASE TrailingFires
    BY <1>4, <1>6, RefreshIInv DEF TrailingFires, history
  <1>7. CASE OnSseMatch
    BY <1>7, MatchIInv
  <1>8. CASE FloorPasses \/ BeadsChange \/ UNCHANGED vars
    BY <1>8, OtherIInv
  <1> QED
    BY <1>1, <1>2, <1>3, <1>5, <1>6, <1>7, <1>8 DEF Next

\* The invariant holds of every behaviour.
LEMMA Invariant == ASSUME Assumptions PROVE Spec => []IInv
  <1>1. Init => IInv
    BY InitIInv
  <1>2. IInv /\ [Next]_vars => IInv'
    BY NextIInv
  <1> QED
    BY <1>1, <1>2, PTL DEF Spec
-----------------------------------------------------------------------------
\* Every variable keeps its type (runSummarySubscription.tsx).
THEOREM TypeCorrect == ASSUME Assumptions PROVE Spec => []TypeOK
  <1>1. IInv => TypeOK
    BY DEF IInv
  <1> QED
    BY <1>1, Invariant, PTL

\* The subscription rests, with retries left, only on a snapshot that is good
\* and has all that was announced (runSummarySubscription.tsx, its effects).
THEOREM RestIsGood == ASSUME Assumptions PROVE Spec => []RestsOnGoodData
  <1>1. ASSUME Assumptions, IInv PROVE RestsOnGoodData
    <2> SUFFICES ASSUME AtRest, attempt < MaxAttempts, ~masked
                 PROVE  HasLanes(shown) /\ ~shown.empty /\ shown.seen >= kept
      BY DEF RestsOnGoodData
    <2> USE <1>1
    <2>1. latest = None /\ ~showsLoading /\ ~dirty /\ ~retry /\ trailing = "none" /\ ~pending
      BY DEF AtRest, Loading, IInv, QueueFits
    <2>2. data.status = "fresh" /\ ~data.empty
      BY <2>1 DEF IInv, RetryIsArmed
    <2>3. shown = data
      BY <2>1, <2>2 DEF IInv, FirstLoad
    <2>4. upgraded
      BY <2>2, <2>3 DEF IInv, LanesAreKept, HasLanes
    <2>5. data.seen >= kept
      BY <2>1, <2>2, <2>4 DEF IInv, Announced, Covers
    <2> QED
      BY <2>2, <2>3, <2>5 DEF HasLanes
  <1> QED
    BY <1>1, Invariant, PTL

\* No step blanks lanes that are shown.
LEMMA StepKeeps == ASSUME Assumptions, IInv, [Next]_vars PROVE Keeps
  <1>1. CASE UNCHANGED shown
    BY <1>1 DEF Keeps
  <1>2. CASE Render
    BY <1>2 DEF Render, Keeps, IInv, LanesAreKept
  <1> QED
    BY <1>1, <1>2 DEF Next, vars, Read, Settle, RetryFires, TrailingFires, FloorPasses,
      ManualRefresh, OnSseMatch, BeadsChange, rendered

\* No failure, whenever it lands, blanks lanes the operator already sees
\* (the last good snapshot of runSummarySubscription.tsx).
THEOREM LanesStay == ASSUME Assumptions PROVE Spec => [][Keeps]_vars
  <1>1. ASSUME Assumptions, IInv, [Next]_vars PROVE [Keeps]_vars
    BY <1>1, StepKeeps
  <1> QED
    BY <1>1, Invariant, PTL DEF Spec

\* No step starts a refresh within a floor.
LEMMA StepKeepsFloor == ASSUME Assumptions, IInv, [Next]_vars PROVE KeepsFloor
  <1> SUFFICES ASSUME NEW l \in Loads, ~InFlight(l), load'[l].kind = "cheap" PROVE ~recent
    BY DEF KeepsFloor
  <1>1. load[l].kind = "idle"
    BY DEF InFlight
  <1>2. CASE TrailingFires
    BY <1>2 DEF TrailingFires, IInv, QueueFits
  <1>3. CASE OnSseMatch
    BY <1>1, <1>3 DEF OnSseMatch, reads
  <1>4. ASSUME NEW m \in Loads, Read(m) PROVE FALSE
    BY <1>1, <1>4 DEF Read, IInv, TypeOK
  <1>5. ASSUME NEW m \in Loads, NEW how \in {"ok", "empty", "error"}, Settle(m, how) PROVE FALSE
    BY <1>1, <1>5 DEF Settle, IInv, TypeOK, Idle
  <1>6. ASSUME Start("wide") PROVE FALSE
    BY <1>1, <1>6 DEF Start, IInv, TypeOK, Begun
  <1>7. CASE RetryFires \/ ManualRefresh \/ Render
    BY <1>1, <1>6, <1>7 DEF RetryFires, ManualRefresh, Render, Upgrade, reads
  <1>8. CASE FloorPasses \/ BeadsChange \/ UNCHANGED vars
    BY <1>1, <1>8 DEF FloorPasses, BeadsChange, vars, reads
  <1> QED
    BY <1>2, <1>3, <1>4, <1>5, <1>7, <1>8 DEF Next

\* Two event refreshes never start within one floor (runRefresh, onSseMatch).
THEOREM FloorIsKept == ASSUME Assumptions PROVE Spec => [][KeepsFloor]_vars
  <1>1. ASSUME Assumptions, IInv, [Next]_vars PROVE [KeepsFloor]_vars
    BY <1>1, StepKeepsFloor
  <1> QED
    BY <1>1, Invariant, PTL DEF Spec

(***************************************************************************)
(* The thread of the mail (MailThread).                                    *)
(***************************************************************************)
LEMMA ThreadInitIInv == ASSUME Thread!Assumptions, Thread!Init PROVE Thread!IInv
  BY DEF Thread!Init, Thread!IInv, Thread!TypeOK, Thread!AboutOneMessage, Thread!Assumptions, Thread!Marks

LEMMA ThreadOpenedIs ==
  ASSUME Thread!Assumptions, Thread!IInv, NEW m \in Messages, Thread!Opened(m),
         {v2', v3'} \subseteq Messages \cup {None}
  PROVE  Thread!IInv'
  <1>1. Thread!TypeOK'
    <2>1. v1[m] \in Thread!Marks /\ v6' \subseteq Messages /\ v5' = None
      BY DEF Thread!IInv, Thread!TypeOK, Thread!Opened
    <2>2. v4' \in [msg : Messages, flag : Thread!Marks]
      BY <2>1 DEF Thread!Opened
    <2>3. v8' \in BOOLEAN
      BY DEF Thread!Opened, Thread!Due
    <2>4. {v2, v3, v5}' \subseteq Messages \cup {None}
      BY <2>1
    <2>5. v1' = v1 /\ v7' = v7
      BY DEF Thread!Opened
    <2> QED
      BY <2>1, <2>2, <2>3, <2>4, <2>5 DEF Thread!IInv, Thread!TypeOK
  <1>2. Thread!AboutOneMessage'
    <2>1. ~v8' => v6' = {m} /\ (v7 # None => v7.msg = m)
      BY DEF Thread!Opened, Thread!Due
    <2>2. v4'.msg = m /\ v5' = None /\ v7' = v7
      BY DEF Thread!Opened
    <2> QED
      BY <2>1, <2>2 DEF Thread!AboutOneMessage
  <1> QED
    BY <1>1, <1>2 DEF Thread!IInv

LEMMA ThreadNextIInv ==
  ASSUME Thread!Assumptions, Thread!IInv, [Thread!Next]_(Thread!vars) PROVE Thread!IInv'
  <1>1. ASSUME NEW m \in Messages, Thread!OpenRow(m) PROVE Thread!IInv'
    <2>1. {v2', v3'} \subseteq Messages \cup {None}
      BY <1>1 DEF Thread!OpenRow, Thread!Opened, Thread!IInv, Thread!TypeOK
    <2> QED
      BY <1>1, <2>1, ThreadOpenedIs DEF Thread!OpenRow
  <1>2. CASE Thread!OpenLink
    <2>1. v2 \in Messages /\ {v2', v3'} \subseteq Messages \cup {None}
      BY <1>2 DEF Thread!OpenLink, Thread!Opened, Thread!IInv, Thread!TypeOK
    <2> QED
      BY <1>2, <2>1, ThreadOpenedIs DEF Thread!OpenLink
  <1>3. ASSUME NEW m \in Messages, Thread!ThreadSettles(m) PROVE Thread!IInv'
    BY <1>3 DEF Thread!ThreadSettles, Thread!IInv, Thread!TypeOK, Thread!AboutOneMessage
  <1>4. ASSUME NEW m \in Messages \cup {None}, Thread!Navigate(m) PROVE Thread!IInv'
    BY <1>4 DEF Thread!Navigate, Thread!IInv, Thread!TypeOK, Thread!AboutOneMessage
  <1>5. ASSUME NEW kind \in Thread!Kinds, Thread!Act(kind) PROVE Thread!IInv'
    <2>1. v4 \in [msg : Messages, flag : Thread!Marks]
      BY <1>5 DEF Thread!Act, Thread!IInv, Thread!TypeOK
    <2>2. v7' \in [kind : Thread!Kinds, msg : Messages, at : {"write", "thread", "refresh"}]
          /\ v7'.msg = v4.msg
      BY <1>5, <2>1 DEF Thread!Act
    <2>3. Thread!TypeOK'
      BY <1>5, <2>2 DEF Thread!Act, Thread!IInv, Thread!TypeOK
    <2>4. Thread!AboutOneMessage'
      BY <1>5, <2>2 DEF Thread!Act, Thread!IInv, Thread!AboutOneMessage
    <2> QED
      BY <2>3, <2>4 DEF Thread!IInv
  <1>6. CASE Thread!WriteAnswers
    <2>1. v7 \in [kind : Thread!Kinds, msg : Messages, at : {"write", "thread", "refresh"}]
      BY <1>6 DEF Thread!WriteAnswers, Thread!Acting, Thread!IInv, Thread!TypeOK
    <2>2. v7' \in [kind : Thread!Kinds, msg : Messages, at : {"write", "thread", "refresh"}]
          /\ v7'.msg = v7.msg
      BY <1>6, <2>1 DEF Thread!WriteAnswers
    <2>3. /\ v4' = None \/ v4' \in [msg : Messages, flag : Thread!Marks]
          /\ v4' # None => v4' = v4 \/ v4'.msg = v7.msg
      BY <1>6, <2>1 DEF Thread!WriteAnswers, Thread!OpenAfter, Thread!IInv, Thread!TypeOK
    <2>4. v5' \in {None, v5}
      BY <1>6 DEF Thread!WriteAnswers
    <2>5. Thread!TypeOK'
      BY <1>6, <2>2, <2>3, <2>4 DEF Thread!WriteAnswers, Thread!IInv, Thread!TypeOK
    <2>6. Thread!AboutOneMessage'
      BY <1>6, <2>2, <2>3, <2>4 DEF Thread!WriteAnswers, Thread!Acting, Thread!IInv, Thread!AboutOneMessage
    <2> QED
      BY <2>5, <2>6 DEF Thread!IInv
  <1>7. CASE Thread!ReplyShows
    <2>1. v7 \in [kind : Thread!Kinds, msg : Messages, at : {"write", "thread", "refresh"}]
      BY <1>7 DEF Thread!ReplyShows, Thread!Acting, Thread!IInv, Thread!TypeOK
    <2>2. v7' \in [kind : Thread!Kinds, msg : Messages, at : {"write", "thread", "refresh"}]
          /\ v7'.msg = v7.msg /\ v5' = v7.msg
      BY <1>7, <2>1 DEF Thread!ReplyShows
    <2>3. Thread!TypeOK'
      BY <1>7, <2>1, <2>2 DEF Thread!ReplyShows, Thread!IInv, Thread!TypeOK
    <2>4. Thread!AboutOneMessage'
      BY <1>7, <2>2 DEF Thread!ReplyShows, Thread!Acting, Thread!IInv, Thread!AboutOneMessage
    <2> QED
      BY <2>3, <2>4 DEF Thread!IInv
  <1>8. CASE Thread!RefreshSettles
    <2>1. v7 \in [kind : Thread!Kinds, msg : Messages, at : {"write", "thread", "refresh"}]
      BY <1>8 DEF Thread!RefreshSettles, Thread!Acting, Thread!IInv, Thread!TypeOK
    <2>2. v1' \in [Messages -> Thread!Marks]
      BY <1>8, <2>1 DEF Thread!RefreshSettles, Thread!IInv, Thread!TypeOK
    <2> QED
      BY <1>8, <2>2 DEF Thread!RefreshSettles, Thread!IInv, Thread!TypeOK, Thread!AboutOneMessage
  <1>9. CASE Thread!Close \/ Thread!ActionFails \/ UNCHANGED Thread!vars
    BY <1>9 DEF Thread!Close, Thread!ActionFails, Thread!vars, Thread!IInv, Thread!TypeOK, Thread!AboutOneMessage
  <1> QED
    BY <1>1, <1>2, <1>3, <1>4, <1>5, <1>6, <1>7, <1>8, <1>9 DEF Thread!Next

LEMMA ThreadBelongs == Thread!IInv => Thread!ThreadBelongs
  BY DEF Thread!IInv, Thread!AboutOneMessage, Thread!ThreadBelongs

(***************************************************************************)
(* A session's tail (SessionTail).                                         *)
(***************************************************************************)
LEMMA TurnsInitIInv == ASSUME Turns!Assumptions, Turns!Init PROVE Turns!IInv
  <1>1. Turns!Live = {} /\ v5.status = "idle" /\ v5.stream = "idle"
    BY DEF Turns!Init, Turns!Live, Turns!Idle
  <1>2. Turns!TypeOK
    BY <1>1 DEF Turns!Init, Turns!TypeOK, Turns!Wanted, Turns!Idle, Turns!States, Turns!Badges, Turns!Assumptions
  <1> QED
    BY <1>1, <1>2 DEF Turns!Init, Turns!IInv, Turns!OneIsCurrent, Turns!StateFollows

\* What the phase of the current subscription tells of the state.
LEMMA TurnsStateIs ==
  ASSUME Turns!Assumptions, Turns!IInv
  PROVE  /\ v3 # None =>
              /\ v3 \in Subs /\ v4[v3] \in Turns!Subscriptions
              /\ v4[v3].phase = "reading" => v5.status = "loading"
              /\ v4[v3].phase = "connected" => v5.status = "ready"
              /\ v4[v3].phase = "done" => v5.status \in {"ready", "failed"}
         /\ v5.status = "ready" =>
              /\ v5 \in [status : {"ready"}, session : Sessions, turns : 0 .. MaxTurns, stream : Turns!Badges]
              /\ v3 # None /\ v5.session = v2.session /\ v5.turns = v4[v3].heard
         /\ v5.stream \in {"open", "degraded"} => v3 \in Turns!Connected
  <1>1. v3 # None => v3 \in Subs /\ v4[v3] \in Turns!Subscriptions
    BY DEF Turns!IInv, Turns!TypeOK, Turns!Live
  <1>2. v5.status = "ready" =>
          v5 \in [status : {"ready"}, session : Sessions, turns : 0 .. MaxTurns, stream : Turns!Badges]
    BY DEF Turns!IInv, Turns!TypeOK, Turns!States
  <1>3. v5.status = "ready" => v3 # None
    BY DEF Turns!IInv, Turns!StateFollows, Turns!Idle
  <1> QED
    BY <1>1, <1>2, <1>3 DEF Turns!IInv, Turns!StateFollows

LEMMA TurnsEffectIInv ==
  ASSUME Turns!Assumptions, Turns!IInv, NEW p \in Turns!Wanted, NEW u \in Subs, Turns!Effect(p, u)
  PROVE  Turns!IInv'
  <1>1. \A v \in Subs : Turns!Kept(v) \in Turns!Subscriptions \cup {None}
                        /\ (Turns!Kept(v) # None => Turns!Kept(v) = v4[v] /\ v4[v].phase = "reading")
    BY DEF Turns!Kept, Turns!IInv, Turns!TypeOK
  <1>2. v2' = p /\ v1' = v1
    BY DEF Turns!Effect
  <1>3. CASE p.session = None
    <2>1. v4' = [v \in Subs |-> Turns!Kept(v)] /\ v3' = None /\ v5' = Turns!Idle
      BY <1>2, <1>3 DEF Turns!Effect
    <2>2. Turns!TypeOK'
      BY <1>1, <1>2, <2>1 DEF Turns!IInv, Turns!TypeOK, Turns!States, Turns!Badges, Turns!Idle
    <2>3. Turns!OneIsCurrent'
      BY <1>1, <1>2, <1>3, <2>1 DEF Turns!OneIsCurrent, Turns!Live
    <2>4. Turns!StateFollows'
      BY <2>1 DEF Turns!StateFollows, Turns!Idle
    <2> QED
      BY <2>2, <2>3, <2>4 DEF Turns!IInv
  <1>4. CASE p.session # None
    <2>1. u \notin Turns!Live /\ v3' = u
          /\ v4' = [v \in Subs |-> IF v = u THEN [session |-> p.session, stream |-> p.stream,
                                                  phase |-> "reading", heard |-> 0]
                                    ELSE Turns!Kept(v)]
          /\ v5' = [status |-> "loading", stream |-> IF p.stream THEN "connecting" ELSE "idle"]
      BY <1>2, <1>4 DEF Turns!Effect, Turns!Subscribed
    <2>2. p.session \in Sessions /\ p.stream \in BOOLEAN
      BY <1>4 DEF Turns!Wanted
    <2>3. [session |-> p.session, stream |-> p.stream, phase |-> "reading", heard |-> 0] \in Turns!Subscriptions
      BY <2>2 DEF Turns!Subscriptions, Turns!Assumptions
    <2>4. v4'[u].phase = "reading" /\ v4'[u].session = p.session /\ v4'[u] # None /\ u # None
      BY <2>1, <2>3 DEF Turns!Assumptions
    <2>5. v4' \in [Subs -> Turns!Subscriptions \cup {None}]
      BY <1>1, <2>1, <2>3
    <2>6. v5' \in Turns!States
      BY <2>1 DEF Turns!States, Turns!Badges
    <2>7. v3' \in Turns!Live'
      BY <2>1, <2>4 DEF Turns!Live
    <2>8. Turns!TypeOK'
      BY <1>2, <2>5, <2>6, <2>7 DEF Turns!IInv, Turns!TypeOK
    <2>9. Turns!OneIsCurrent'
      BY <1>1, <1>2, <1>4, <2>1, <2>4 DEF Turns!OneIsCurrent, Turns!Live
    <2>10. Turns!StateFollows'
      BY <2>1, <2>4 DEF Turns!StateFollows
    <2> QED
      BY <2>8, <2>9, <2>10 DEF Turns!IInv
  <1> QED
    BY <1>3, <1>4

\* A cancelled read ends and changes nothing that is shown.
LEMMA TurnsCancelledEnds ==
  ASSUME Turns!Assumptions, Turns!IInv, NEW u \in Turns!Live, u # v3,
         v4' = Turns!Gone(u), UNCHANGED <<v1, v2, v3, v5>>
  PROVE  Turns!IInv'
  <1>1. u \in Subs /\ v4' = [v4 EXCEPT ![u] = None]
    BY DEF Turns!Live, Turns!Gone
  <1>2. v4' \in [Subs -> Turns!Subscriptions \cup {None}]
    BY <1>1 DEF Turns!IInv, Turns!TypeOK
  <1>3. Turns!Live' = Turns!Live \ {u} /\ \A v \in Subs \ {u} : v4'[v] = v4[v]
    BY <1>1 DEF Turns!Live, Turns!IInv, Turns!TypeOK
  <1>4. v3 # None => v4'[v3] = v4[v3] /\ v3 \in Turns!Live'
    BY <1>3 DEF Turns!Live, Turns!IInv, Turns!TypeOK
  <1>5. Turns!TypeOK'
    BY <1>2, <1>4 DEF Turns!IInv, Turns!TypeOK
  <1>6. Turns!OneIsCurrent'
    BY <1>3, <1>4 DEF Turns!IInv, Turns!OneIsCurrent, Turns!Live
  <1>7. Turns!StateFollows'
    <2>1. v5.status = "ready" => v3 # None
      BY TurnsStateIs
    <2> QED
      BY <1>3, <1>4, <2>1 DEF Turns!IInv, Turns!StateFollows, Turns!Connected, Turns!Live, Turns!Idle
  <1> QED
    BY <1>5, <1>6, <1>7 DEF Turns!IInv

\* The current subscription goes on to another phase, and the state with it.
LEMMA TurnsCurrentMoves ==
  ASSUME Turns!Assumptions, Turns!IInv, NEW r \in Turns!Subscriptions, v3 # None,
         v4' = [v4 EXCEPT ![v3] = r], r.session = v4[v3].session,
         v5' \in Turns!States, UNCHANGED <<v1, v2, v3>>,
         r.phase = "reading" => v5'.status = "loading",
         r.phase = "connected" => v5'.status = "ready",
         r.phase = "done" => v5'.status \in {"ready", "failed"},
         v5'.status = "ready" => v5'.session = v2.session /\ v5'.turns = r.heard,
         v5'.stream \in {"open", "degraded"} => r.phase = "connected"
  PROVE  Turns!IInv'
  <1>1. v3 \in Subs /\ v4'[v3] = r /\ r # None
        /\ \A v \in Subs \ {v3} : v4'[v] = v4[v]
    BY TurnsStateIs DEF Turns!IInv, Turns!TypeOK, Turns!Assumptions
  <1>2. v4' \in [Subs -> Turns!Subscriptions \cup {None}]
    BY <1>1 DEF Turns!IInv, Turns!TypeOK
  <1>3. v3 \in Turns!Live'
    BY <1>1 DEF Turns!Live
  <1>4. Turns!TypeOK'
    BY <1>2, <1>3 DEF Turns!IInv, Turns!TypeOK
  <1>5. Turns!OneIsCurrent'
    BY <1>1 DEF Turns!IInv, Turns!OneIsCurrent, Turns!Live
  <1>6. Turns!StateFollows'
    BY <1>1, <1>3 DEF Turns!StateFollows, Turns!Connected, Turns!Subscriptions
  <1> QED
    BY <1>4, <1>5, <1>6 DEF Turns!IInv

LEMMA TurnsNextIInv == ASSUME Turns!Assumptions, Turns!IInv, [Turns!Next]_(Turns!vars) PROVE Turns!IInv'
  <1>0. ASSUME NEW u \in Subs, Turns!Heard(u)
        PROVE  /\ u = v3 /\ v3 # None /\ u \in Subs /\ v4[u] \in Turns!Subscriptions
               /\ v4[u].phase = "connected" /\ v4[u].session \in Sessions
               /\ v4[u].heard \in 0 .. MaxTurns /\ v1[v4[u].session] \in 0 .. MaxTurns
               /\ v5 \in [status : {"ready"}, session : Sessions, turns : 0 .. MaxTurns, stream : Turns!Badges]
               /\ v5.session = v2.session /\ v5.turns = v4[u].heard
               /\ v4[u].session = v2.session
    <2>1. u = v3 /\ u \in Turns!Connected
      BY <1>0 DEF Turns!Heard
    <2>2. v3 # None /\ v4[u].phase = "connected"
      BY <2>1 DEF Turns!Connected, Turns!Live, Turns!Assumptions
    <2>3. v4[u] \in Turns!Subscriptions
      BY <2>1, <2>2, TurnsStateIs
    <2>4. v5.status = "ready"
      BY <2>1, <2>2, TurnsStateIs
    <2>5. v4[u].session \in Sessions /\ v4[u].heard \in 0 .. MaxTurns
      BY <2>3 DEF Turns!Subscriptions
    <2>6. v1[v4[u].session] \in 0 .. MaxTurns
      BY <2>5 DEF Turns!IInv, Turns!TypeOK
    <2>7. v4[u].session = v2.session
      BY <2>1, <2>2 DEF Turns!IInv, Turns!OneIsCurrent
    <2> QED
      BY <2>1, <2>2, <2>3, <2>4, <2>5, <2>6, <2>7, TurnsStateIs
  <1>1. ASSUME NEW s \in Sessions, Turns!Speaks(s) PROVE Turns!IInv'
    <2>1. v1' \in [Sessions -> 0 .. MaxTurns]
      BY <1>1 DEF Turns!Speaks, Turns!IInv, Turns!TypeOK, Turns!Assumptions
    <2> QED
      BY <1>1, <2>1 DEF Turns!Speaks, Turns!IInv, Turns!TypeOK, Turns!OneIsCurrent, Turns!StateFollows, Turns!Live, Turns!Connected
  <1>2. ASSUME NEW u \in Subs, NEW p \in Turns!Wanted, Turns!Effect(p, u) PROVE Turns!IInv'
    BY <1>2, TurnsEffectIInv
  <1>3. ASSUME NEW u \in Subs, Turns!Reading(u), u = v3
        PROVE  /\ v3 # None /\ v4[u] \in Turns!Subscriptions
               /\ v4[u].session = v2.session /\ v2.session \in Sessions
               /\ v1[v2.session] \in 0 .. MaxTurns
    <2>1. v3 # None /\ v4[u] \in Turns!Subscriptions
      BY <1>3, TurnsStateIs DEF Turns!Assumptions
    <2>2. v4[u].session = v2.session /\ v4[u].session \in Sessions
      BY <1>3, <2>1 DEF Turns!IInv, Turns!OneIsCurrent, Turns!Subscriptions
    <2> QED
      BY <2>1, <2>2 DEF Turns!IInv, Turns!TypeOK
  <1>4. ASSUME NEW u \in Subs, Turns!TranscriptLands(u) PROVE Turns!IInv'
    <2>1. CASE u # v3
      BY <1>4, <2>1, TurnsCancelledEnds DEF Turns!TranscriptLands, Turns!Reading
    <2>2. CASE u = v3
      <3> DEFINE r == [v4[u] EXCEPT !.phase = IF Turns!canStream(u) THEN "connected" ELSE "done",
                                     !.heard = v1[v4[u].session]]
      <3>1. /\ v3 # None /\ v4[u] \in Turns!Subscriptions
            /\ v4[u].session = v2.session /\ v2.session \in Sessions
            /\ v1[v2.session] \in 0 .. MaxTurns
        BY <1>3, <1>4, <2>2 DEF Turns!TranscriptLands
      <3>2. v4' = [v4 EXCEPT ![v3] = r]
        BY <1>4, <2>2 DEF Turns!TranscriptLands, Turns!IInv, Turns!TypeOK
      <3>3. r \in Turns!Subscriptions /\ r.session = v4[v3].session /\ r.heard = v1[v2.session]
            /\ r.phase = IF v4[u].stream THEN "connected" ELSE "done"
        BY <2>2, <3>1 DEF Turns!Subscriptions, Turns!canStream
      <3>4. v5' = [status |-> "ready", session |-> v2.session, turns |-> v1[v2.session],
                      stream |-> IF v4[u].stream THEN "connecting" ELSE "idle"]
        BY <1>4, <2>2, <3>1 DEF Turns!TranscriptLands, Turns!Ready, Turns!canStream
      <3>5. v5' \in Turns!States
        BY <3>1, <3>4 DEF Turns!States, Turns!Badges
      <3> HIDE DEF r
      <3> QED
        BY <1>4, <3>1, <3>2, <3>3, <3>4, <3>5, TurnsCurrentMoves DEF Turns!TranscriptLands
    <2> QED
      BY <2>1, <2>2
  <1>5. ASSUME NEW u \in Subs, Turns!TranscriptFails(u) PROVE Turns!IInv'
    <2>1. CASE u # v3
      BY <1>5, <2>1, TurnsCancelledEnds DEF Turns!TranscriptFails, Turns!Reading
    <2>2. CASE u = v3
      <3> DEFINE r == [v4[u] EXCEPT !.phase = "done"]
      <3>1. /\ v3 # None /\ v4[u] \in Turns!Subscriptions
        BY <1>3, <1>5, <2>2 DEF Turns!TranscriptFails
      <3>2. v4' = [v4 EXCEPT ![v3] = r]
        BY <1>5, <2>2 DEF Turns!TranscriptFails, Turns!IInv, Turns!TypeOK
      <3>3. r \in Turns!Subscriptions /\ r.session = v4[v3].session /\ r.phase = "done"
        BY <2>2, <3>1 DEF Turns!Subscriptions
      <3>4. v5' = [status |-> "failed", stream |-> "idle"] /\ UNCHANGED <<v1, v2, v3>>
        BY <1>5, <2>2 DEF Turns!TranscriptFails
      <3>5. v5' \in Turns!States /\ v5'.status = "failed" /\ v5'.stream = "idle"
        BY <3>4 DEF Turns!States, Turns!Badges
      <3> HIDE DEF r
      <3> QED
        BY <3>1, <3>2, <3>3, <3>4, <3>5, TurnsCurrentMoves
    <2> QED
      BY <2>1, <2>2
  <1>6. ASSUME NEW u \in Subs, NEW r \in Turns!Subscriptions, NEW t \in 0 .. MaxTurns, NEW b \in Turns!Badges,
               Turns!Heard(u), v4' = [v4 EXCEPT ![u] = r], r.session = v4[u].session,
               r.phase = "connected" \/ (r.phase = "done" /\ b \notin {"open", "degraded"}),
               r.heard = t,
               v5' = [status |-> "ready", session |-> v2.session, turns |-> t, stream |-> b],
               UNCHANGED <<v1, v2, v3>>
        PROVE Turns!IInv'
    <2>1. u = v3 /\ v3 # None /\ v2.session \in Sessions
      BY <1>0, <1>6
    <2>2. v5' \in Turns!States
      BY <2>1, <1>6 DEF Turns!States
    <2> QED
      BY <1>6, <2>1, <2>2, TurnsCurrentMoves
  <1>7. ASSUME NEW u \in Subs, NEW b \in Turns!Badges, Turns!Heard(u), v5' = [v5 EXCEPT !.stream = b],
               UNCHANGED <<v1, v2, v3, v4>>
        PROVE Turns!IInv'
    <2>0. v5 \in [status : {"ready"}, session : Sessions, turns : 0 .. MaxTurns, stream : Turns!Badges]
          /\ v5.session = v2.session /\ v5.turns = v4[u].heard
      BY <1>0, <1>7
    <2>1. v5' = [status |-> "ready", session |-> v2.session, turns |-> v4[u].heard, stream |-> b]
      BY <1>7, <2>0
    <2>2. v4' = [v4 EXCEPT ![u] = v4[u]]
      BY <1>7 DEF Turns!IInv, Turns!TypeOK
    <2> QED
      BY <1>0, <1>6, <1>7, <2>1, <2>2
  <1>8. ASSUME NEW u \in Subs, Turns!Opens(u) \/ Turns!Malformed(u) PROVE Turns!IInv'
    BY <1>7, <1>8 DEF Turns!Opens, Turns!Malformed, Turns!Badges
  <1>9. ASSUME NEW u \in Subs, Turns!Turn(u) PROVE Turns!IInv'
    <2> DEFINE r == [v4[u] EXCEPT !.heard = @ + 1]
    <2>1. v4[u] \in Turns!Subscriptions /\ v4[u].heard + 1 \in 0 .. MaxTurns /\ v4[u].phase = "connected"
          /\ v5.turns = v4[u].heard /\ v4[u].session = v2.session /\ Turns!Heard(u)
      BY <1>0, <1>9 DEF Turns!Turn, Turns!Assumptions
    <2>2. r \in Turns!Subscriptions /\ r.heard = v4[u].heard + 1 /\ r.session = v4[u].session
          /\ r.phase = "connected"
      BY <2>1 DEF Turns!Subscriptions
    <2>3. v4' = [v4 EXCEPT ![u] = r] /\ UNCHANGED <<v1, v2, v3>>
      BY <1>9 DEF Turns!Turn, Turns!IInv, Turns!TypeOK
    <2>4. v5' = [status |-> "ready", session |-> v2.session, turns |-> v4[u].heard + 1, stream |-> "open"]
      BY <1>9, <2>1 DEF Turns!Turn, Turns!Ready
    <2>5. "open" \in Turns!Badges
      BY DEF Turns!Badges
    <2> HIDE DEF r
    <2> QED
      BY <1>6, <2>1, <2>2, <2>3, <2>4, <2>5
  <1>10. ASSUME NEW u \in Subs, Turns!Snapshot(u) PROVE Turns!IInv'
    <2> DEFINE r == [v4[u] EXCEPT !.heard = v1[v4[u].session]]
    <2>1. v4[u] \in Turns!Subscriptions /\ v1[v4[u].session] \in 0 .. MaxTurns /\ v4[u].phase = "connected"
          /\ v4[u].session = v2.session /\ Turns!Heard(u)
      BY <1>0, <1>10 DEF Turns!Snapshot
    <2>2. r \in Turns!Subscriptions /\ r.heard = v1[v4[u].session] /\ r.session = v4[u].session
          /\ r.phase = "connected"
      BY <2>1 DEF Turns!Subscriptions
    <2>3. v4' = [v4 EXCEPT ![u] = r] /\ UNCHANGED <<v1, v2, v3>>
      BY <1>10 DEF Turns!Snapshot, Turns!IInv, Turns!TypeOK
    <2>4. v5' = [status |-> "ready", session |-> v2.session, turns |-> v1[v4[u].session],
                    stream |-> "open"]
      BY <1>10, <2>1 DEF Turns!Snapshot, Turns!Ready
    <2>5. "open" \in Turns!Badges
      BY DEF Turns!Badges
    <2> HIDE DEF r
    <2> QED
      BY <1>6, <2>1, <2>2, <2>3, <2>4, <2>5
  <1>11. ASSUME NEW u \in Subs, Turns!Drops(u) PROVE Turns!IInv'
    <2>1. PICK refused \in BOOLEAN :
            /\ v5' = [v5 EXCEPT !.stream = IF refused THEN "closed" ELSE "connecting"]
            /\ v4' = IF refused THEN [v4 EXCEPT ![u].phase = "done"] ELSE v4
      BY <1>11 DEF Turns!Drops
    <2>2. Turns!Heard(u) /\ UNCHANGED <<v1, v2, v3>>
      BY <1>11 DEF Turns!Drops
    <2>3. CASE ~refused
      BY <1>7, <2>1, <2>2, <2>3 DEF Turns!Badges
    <2>4. CASE refused
      <3> DEFINE r == [v4[u] EXCEPT !.phase = "done"]
      <3>1. v4[u] \in Turns!Subscriptions /\ v4[u].heard \in 0 .. MaxTurns
        BY <1>0, <2>2
      <3>2. r \in Turns!Subscriptions /\ r.heard = v4[u].heard /\ r.session = v4[u].session
            /\ r.phase = "done"
        BY <3>1 DEF Turns!Subscriptions
      <3>3. v4' = [v4 EXCEPT ![u] = r]
        BY <2>1, <2>4 DEF Turns!IInv, Turns!TypeOK
      <3>4. v5' = [status |-> "ready", session |-> v2.session, turns |-> v4[u].heard, stream |-> "closed"]
        BY <1>0, <2>1, <2>2, <2>4
      <3>5. "closed" \in Turns!Badges
        BY DEF Turns!Badges
      <3> HIDE DEF r
      <3> QED
        BY <1>6, <2>2, <3>1, <3>2, <3>3, <3>4, <3>5
    <2> QED
      BY <2>3, <2>4
  <1>12. CASE UNCHANGED Turns!vars
    BY <1>12 DEF Turns!vars, Turns!IInv, Turns!TypeOK, Turns!OneIsCurrent, Turns!StateFollows, Turns!Live, Turns!Connected
  <1> QED
    BY <1>1, <1>2, <1>4, <1>5, <1>8, <1>9, <1>10, <1>11, <1>12 DEF Turns!Next

LEMMA TurnsTailIs == ASSUME Turns!Assumptions, Turns!IInv PROVE Turns!TailIsTheSessions
  <1>1. Turns!Connected \subseteq {v3}
    BY DEF Turns!IInv, Turns!OneIsCurrent, Turns!Connected
  <1>2. v2.session = None <=> v5.status = "idle"
    <2>1. v3 # None => v4[v3].phase \in {"reading", "connected", "done"}
      BY TurnsStateIs DEF Turns!Subscriptions
    <2>2. v3 # None => v5.status # "idle"
      BY <2>1, TurnsStateIs
    <2>3. v3 = None => v5.status = "idle"
      BY DEF Turns!IInv, Turns!StateFollows, Turns!Idle
    <2> QED
      BY <2>2, <2>3 DEF Turns!IInv, Turns!OneIsCurrent
  <1>3. v5.stream \in Turns!Badges
    BY DEF Turns!IInv, Turns!TypeOK, Turns!States
  <1>4. Turns!streamBadge \in {"live", "degraded"} => v5.stream \in {"open", "degraded"}
    BY <1>3 DEF Turns!streamBadge, Turns!Badges
  <1>5. v5.status \in {"idle", "loading", "failed", "ready"}
    BY DEF Turns!IInv, Turns!TypeOK, Turns!States
  <1>6. Turns!SessionPeekContent = "fetching" => v5.status = "loading"
    BY <1>5 DEF Turns!SessionPeekContent
  <1>7. v5.status = "loading" => Turns!Reading(v3)
    <2>1. v5.status = "loading" => v3 # None
      BY DEF Turns!IInv, Turns!StateFollows, Turns!Idle
    <2>2. v3 # None => v4[v3].phase \in {"reading", "connected", "done"} /\ v3 \in Turns!Live
      BY TurnsStateIs DEF Turns!Subscriptions, Turns!IInv, Turns!TypeOK
    <2> QED
      BY <2>1, <2>2, TurnsStateIs DEF Turns!Reading
  <1> QED
    BY <1>1, <1>2, <1>4, <1>6, <1>7, TurnsStateIs DEF Turns!TailIsTheSessions

(***************************************************************************)
(* The hooks that read details (DetailReads).                              *)
(***************************************************************************)
DetailsReadRecords == [of : DetailKeys, mode : {"initial", "refresh"}, seq : 0 .. MaxReads, wanted : BOOLEAN]

LEMMA DetailsInitIInv == ASSUME Details!Assumptions, Details!Init PROVE Details!IInv
  <1>1. Details!TypeOK
    <2>1. 0 \in 0 .. MaxReads
      BY DEF Details!Assumptions
    <2> QED
      BY <2>1 DEF Details!Init, Details!TypeOK
  <1>2. Details!WantedOfFocus /\ Details!InOrder /\ Details!OneIsWanted /\ Details!OfTheFocus
    BY DEF Details!Init, Details!WantedOfFocus, Details!InOrder, Details!OneIsWanted, Details!OfTheFocus
  <1> QED
    BY <1>1, <1>2 DEF Details!IInv

LEMMA DetailsNotAbove == \A n \in Nat : n <= n
  OBVIOUS

LEMMA DetailsKnown ==
  ASSUME Details!Assumptions, Details!IInv
  PROVE  /\ v4 \in Nat /\ v4 \in 0 .. MaxReads /\ MaxReads \in Nat
         /\ v4 < MaxReads => v4 + 1 \in 0 .. MaxReads
         /\ v5 # None => /\ v5 \in [of : DetailKeys, seq : 0 .. MaxReads]
                           /\ v5.seq \in Nat /\ v5.seq <= v4
         /\ \A r \in v3 : r \in DetailsReadRecords /\ r.seq \in Nat /\ r.seq < v4
  <1>1. v4 \in 0 .. MaxReads /\ MaxReads \in Nat
    BY DEF Details!IInv, Details!TypeOK, Details!Assumptions
  <1>2. v5 # None => v5 \in [of : DetailKeys, seq : 0 .. MaxReads]
    BY DEF Details!IInv, Details!TypeOK
  <1>3. v5 # None => v5.seq \in Nat
    BY <1>1, <1>2
  <1>4. \A r \in v3 : r \in DetailsReadRecords
    BY DEF Details!IInv, Details!TypeOK, DetailsReadRecords
  <1>5. \A r \in v3 : r.seq \in Nat
    BY <1>1, <1>4 DEF DetailsReadRecords
  <1> QED
    BY <1>1, <1>2, <1>3, <1>4, <1>5 DEF Details!IInv, Details!InOrder

LEMMA DetailsReadIs ==
  ASSUME Details!Assumptions, Details!IInv, NEW k \in DetailKeys, NEW mode \in {"initial", "refresh"}
  PROVE  Details!Read(k, mode) \in DetailsReadRecords /\ Details!Read(k, mode).of = k /\ Details!Read(k, mode).mode = mode
         /\ Details!Read(k, mode).seq = v4 /\ Details!Read(k, mode).wanted = TRUE
  BY DEF Details!Read, DetailsReadRecords, Details!IInv, Details!TypeOK

LEMMA DetailsLeftIs ==
  ASSUME Details!Assumptions, Details!IInv, NEW r \in Details!Left
  PROVE  r \in DetailsReadRecords /\ r.seq < v4 /\ (r.mode = "initial" => ~r.wanted)
         /\ \E o \in v3 : r.of = o.of /\ r.mode = o.mode
  <1>1. PICK o \in v3 : r = Details!Cancelled(o)
    BY DEF Details!Left
  <1>2. o \in DetailsReadRecords /\ o.seq < v4
    BY DEF Details!IInv, Details!TypeOK, Details!InOrder, DetailsReadRecords
  <1>3. CASE o.mode = "initial"
    BY <1>1, <1>2, <1>3 DEF Details!Cancelled, DetailsReadRecords
  <1>4. CASE o.mode # "initial"
    BY <1>1, <1>2, <1>4 DEF Details!Cancelled, DetailsReadRecords
  <1> QED
    BY <1>3, <1>4

\* A focus that asks: the read it makes is the only one that is wanted.
LEMMA DetailsFocusAsks ==
  ASSUME Details!Assumptions, Details!IInv, NEW k \in DetailKeys, Details!LeavesFocus(k),
         v1 = "roots" => v2 = None,
         Details!Asked(k, "initial", Details!Left), v5' \in {None, v5}, v6' = "loading"
  PROVE  Details!IInv'
  <1>1. PICK new \in DetailsReadRecords :
          new = Details!Read(k, "initial") /\ new.of = k /\ new.mode = "initial" /\ new.seq = v4 /\ new.wanted
    BY DetailsReadIs
  <1>2. /\ v2' = k /\ v1' = v1 /\ k # None /\ k # v2
        /\ v4 \in Nat /\ v4' = v4 + 1 /\ v4' \in 0 .. MaxReads
        /\ v3' = Details!Left \cup {new}
    BY <1>1, DetailsKnown DEF Details!LeavesFocus, Details!Asked, Details!Assumptions, Details!IInv, Details!TypeOK
  <1>3. v7' = (v7 \/ Details!RefreshDue(k)) /\ v7' \in BOOLEAN
    BY DEF Details!LeavesFocus, Details!RefreshDue
  <1>4. ASSUME NEW r \in Details!Left, r.mode = "refresh"
        PROVE  v7' /\ v1 = "convoy"
    <2>1. PICK o \in v3 : o.of = r.of /\ o.mode = "refresh"
      BY <1>4, DetailsLeftIs
    <2>2. v1 = "convoy"
      <3>1. o.of \in DetailKeys
        BY DEF Details!IInv, Details!TypeOK
      <3> QED
        BY <2>1, <3>1 DEF Details!IInv, Details!WantedOfFocus, Details!Assumptions
    <2>3. v7 \/ o.of = v2
      BY <2>1 DEF Details!IInv, Details!WantedOfFocus
    <2> QED
      BY <1>2, <1>3, <2>1, <2>2, <2>3 DEF Details!RefreshDue
  <1>5. \A r \in v3' : r \in DetailsReadRecords /\ r.seq < v4'
    BY <1>1, <1>2, DetailsLeftIs DEF DetailsReadRecords
  <1>6. Details!TypeOK'
    BY <1>2, <1>3, <1>5 DEF Details!IInv, Details!TypeOK, DetailsReadRecords
  <1>7. Details!WantedOfFocus'
    BY <1>1, <1>2, <1>4, DetailsLeftIs DEF Details!WantedOfFocus
  <1>8. Details!InOrder'
    <2>1. v5 # None => v5.seq \in Nat /\ v5.seq <= v4
      BY DetailsKnown
    <2> QED
      BY <1>2, <1>5, <2>1 DEF Details!InOrder
  <1>9. ~v7' => \A r \in v3' : Details!isCurrent(r)' <=> r = new
    <2>1. Details!isCurrent(new)'
      BY <1>1, <1>2 DEF Details!isCurrent
    <2>2. ASSUME ~v7', NEW r \in Details!Left PROVE ~Details!isCurrent(r)'
      <3>1. r.mode = "initial" /\ ~r.wanted
        BY <1>4, <2>2, DetailsLeftIs DEF DetailsReadRecords
      <3> QED
        BY <3>1 DEF Details!isCurrent
    <2> QED
      BY <1>2, <2>1, <2>2
  <1>10. Details!OneIsWanted'
    BY <1>9 DEF Details!OneIsWanted
  <1>11. Details!OfTheFocus'
    <2>1. v5' # None => v5'.seq <= v4
      BY DEF Details!IInv, Details!InOrder
    <2>2. ~v7' => \E r \in v3' : Details!isCurrent(r)' /\ r.of = v2'
      BY <1>1, <1>2, <1>9
    <2> QED
      BY <1>1, <1>2, <1>9, <2>1, <2>2 DEF Details!OfTheFocus
  <1> QED
    BY <1>6, <1>7, <1>8, <1>10, <1>11 DEF Details!IInv

\* A focus that asks for nothing: no read is wanted any more.
LEMMA DetailsFocusRests ==
  ASSUME Details!Assumptions, Details!IInv, NEW k \in DetailKeys \cup {None}, Details!LeavesFocus(k), v1 # "roots",
         v3' = Details!Left, v4' = v4, v1 = "bead" \/ k = None,
         \/ v5' = [of |-> k, seq |-> v4] /\ k # None /\ v6' = "ready"
         \/ k = None /\ v5' \in {None, v5}
            /\ v6' \in {"idle", "loading", "ready", "refreshing", "not found", "failed"}
  PROVE  Details!IInv'
  <1>1. v2' = k /\ v1' = v1 /\ k # v2 /\ v4 \in Nat /\ v4 \in 0 .. MaxReads
    BY DetailsKnown DEF Details!LeavesFocus
  <1>2. v7' = (v7 \/ Details!RefreshDue(k)) /\ v7' \in BOOLEAN
    BY DEF Details!LeavesFocus, Details!RefreshDue
  <1>3. ASSUME NEW r \in Details!Left, r.mode = "refresh"
        PROVE  v7' /\ v1 = "convoy"
    <2>1. PICK o \in v3 : o.of = r.of /\ o.mode = "refresh"
      BY <1>3, DetailsLeftIs
    <2>2. v1 = "convoy"
      BY <2>1 DEF Details!IInv, Details!WantedOfFocus
    <2>3. v7 \/ o.of = v2
      BY <2>1 DEF Details!IInv, Details!WantedOfFocus
    <2> QED
      BY <1>1, <1>2, <2>1, <2>2, <2>3 DEF Details!RefreshDue
  <1>4. \A r \in v3' : r \in DetailsReadRecords /\ r.seq < v4' /\ (r.mode = "initial" => ~r.wanted)
    BY DetailsLeftIs
  <1>5. v5' # None => v5' \in [of : DetailKeys, seq : 0 .. MaxReads] /\ v5'.seq <= v4
    <2>1. CASE v5' = [of |-> k, seq |-> v4] /\ k # None
      <3>1. k \in DetailKeys /\ v4 \in 0 .. MaxReads /\ v4 \in Nat
        BY <1>1, <2>1
      <3>2. v4 <= v4
        BY <3>1, DetailsNotAbove
      <3>3. [of |-> k, seq |-> v4] \in [of : DetailKeys, seq : 0 .. MaxReads]
        BY <3>1
      <3> QED
        BY <2>1, <3>2, <3>3
    <2>2. CASE v5' \in {None, v5}
      BY <2>2, DetailsKnown
    <2> QED
      BY <2>1, <2>2
  <1>6. v6' \in {"idle", "loading", "ready", "refreshing", "not found", "failed"}
    OBVIOUS
  <1>7. Details!TypeOK'
    BY <1>1, <1>2, <1>4, <1>5, <1>6 DEF Details!IInv, Details!TypeOK, DetailsReadRecords
  <1>8. Details!WantedOfFocus'
    BY <1>1, <1>3, <1>4 DEF Details!WantedOfFocus
  <1>9. Details!InOrder'
    BY <1>4, <1>5 DEF Details!InOrder
  <1>10. k # None => v1 = "bead" /\ \A r \in v3' : ~Details!isCurrent(r)'
    <2>1. k # None => \A r \in v3' : r.mode = "initial" /\ ~r.wanted
      BY <1>3, <1>4 DEF DetailsReadRecords
    <2> QED
      BY <2>1 DEF Details!isCurrent
  <1>11. k # None => v5' # None /\ v5'.of = k /\ v6' = "ready"
    <2>1. k # None => v5' = [of |-> k, seq |-> v4] /\ v6' = "ready" /\ k \in DetailKeys
      OBVIOUS
    <2>2. k # None => v5' \in [of : DetailKeys, seq : 0 .. MaxReads]
      BY <1>1, <2>1
    <2> QED
      BY <2>1, <2>2 DEF Details!Assumptions
  <1>12. Details!OneIsWanted' /\ Details!OfTheFocus'
    BY <1>1, <1>10, <1>11 DEF Details!OneIsWanted, Details!OfTheFocus
  <1> QED
    BY <1>7, <1>8, <1>9, <1>12 DEF Details!IInv

LEMMA DetailsRefreshIInv ==
  ASSUME Details!Assumptions, Details!IInv, Details!Refresh
  PROVE  Details!IInv'
  <1> DEFINE rest == IF v1 = "roots" THEN {Details!Superseded(r) : r \in v3} ELSE v3
  <1>0. /\ v2 \in DetailKeys /\ v2 # None /\ v1 \in {"convoy", "roots"}
        /\ v6 \notin {"loading", "refreshing"} /\ UNCHANGED <<v1, v2, v7>>
        /\ v4 \in Nat /\ v4' = v4 + 1 /\ v4' \in 0 .. MaxReads
    BY DetailsKnown DEF Details!Refresh, Details!Asked, Details!IInv, Details!TypeOK
  <1>2. PICK new \in DetailsReadRecords :
          new = Details!Read(v2, "refresh") /\ new.of = v2 /\ new.mode = "refresh" /\ new.seq = v4 /\ new.wanted
    BY <1>0, DetailsReadIs
  <1>1. /\ v2 \in DetailKeys /\ v2 # None /\ v1 \in {"convoy", "roots"}
        /\ v6 \notin {"loading", "refreshing"} /\ UNCHANGED <<v1, v2, v7>>
        /\ v4 \in Nat /\ v4' = v4 + 1 /\ v4' \in 0 .. MaxReads /\ v3' = rest \cup {new}
    BY <1>0, <1>2 DEF Details!Refresh, Details!Asked
  <1>3. v6' \in {"loading", "refreshing"} /\ (v6' = "refreshing" => v6 = "ready")
        /\ v5' = IF v6 = "ready" THEN v5 ELSE None
    BY DEF Details!Refresh
  <1>4. ASSUME NEW r \in rest
        PROVE  \E o \in v3 :
                 /\ o \in DetailsReadRecords /\ r \in DetailsReadRecords
                 /\ r.of = o.of /\ r.mode = o.mode /\ r.seq = o.seq
                 /\ r.wanted => o.wanted
                 /\ v1 = "roots" /\ r.mode = "refresh" => ~r.wanted
                 /\ v1 = "convoy" => r = o
    <2>1. \A o \in v3 : o \in DetailsReadRecords
      BY DEF Details!IInv, Details!TypeOK, DetailsReadRecords
    <2>2. CASE v1 = "roots"
      <3>1. PICK o \in v3 : r = Details!Superseded(o)
        BY <1>4, <2>2
      <3>2. CASE o.mode = "refresh"
        BY <2>1, <2>2, <3>1, <3>2 DEF Details!Superseded, DetailsReadRecords
      <3>3. CASE o.mode # "refresh"
        BY <2>1, <2>2, <3>1, <3>3 DEF Details!Superseded, DetailsReadRecords
      <3> QED
        BY <3>2, <3>3
    <2>3. CASE v1 # "roots"
      BY <1>1, <1>4, <2>1, <2>3
    <2> QED
      BY <2>2, <2>3
  <1> HIDE DEF rest
  <1>5. \A r \in v3' : r \in DetailsReadRecords /\ r.seq < v4'
    <2>1. \A r \in rest : r \in DetailsReadRecords /\ r.seq < v4
      BY <1>4 DEF Details!IInv, Details!InOrder
    <2> QED
      BY <1>1, <1>2, <2>1 DEF DetailsReadRecords
  <1>6. Details!TypeOK'
    BY <1>1, <1>3, <1>5 DEF Details!IInv, Details!TypeOK, DetailsReadRecords
  <1>7. Details!WantedOfFocus'
    <2>1. ASSUME NEW r \in rest
          PROVE  /\ r.mode = "initial" /\ r.wanted => r.of = v2
                 /\ r.mode = "refresh" /\ (v1 = "roots" \/ ~v7) => r.of = v2
      BY <1>4 DEF Details!IInv, Details!WantedOfFocus
    <2> QED
      BY <1>1, <1>2, <2>1 DEF Details!WantedOfFocus
  <1>8. Details!InOrder'
    <2>1. v5 # None => v5.seq \in Nat /\ v5.seq <= v4
      BY DetailsKnown
    <2> QED
      BY <1>1, <1>3, <1>5, <2>1 DEF Details!InOrder
  <1>9. Details!isCurrent(new)'
    BY <1>1, <1>2 DEF Details!isCurrent
  <1>10. ASSUME ~v7, NEW r \in rest PROVE ~Details!isCurrent(r)'
    <2>1. PICK o \in v3 :
             /\ r.of = o.of /\ r.mode = o.mode
             /\ r.wanted => o.wanted
             /\ v1 = "roots" /\ r.mode = "refresh" => ~r.wanted
             /\ v1 = "convoy" => r = o
      BY <1>4
    <2>2. ~Details!isCurrent(o)
      BY <1>1, <1>10 DEF Details!IInv, Details!OneIsWanted
    <2> QED
      BY <1>1, <2>1, <2>2 DEF Details!isCurrent
  <1>11. Details!OneIsWanted'
    BY <1>1, <1>3, <1>9, <1>10 DEF Details!OneIsWanted
  <1>12. Details!OfTheFocus'
    <2>1. v6 = "ready" => v5 # None /\ v5.of = v2
      BY <1>1 DEF Details!IInv, Details!OfTheFocus
    <2>2. v5' # None => v5'.seq <= v4
      BY <1>3 DEF Details!IInv, Details!InOrder
    <2>3. ~v7 => \A r \in v3' : Details!isCurrent(r)' => r.seq = v4
      BY <1>1, <1>2, <1>10
    <2> QED
      BY <1>1, <1>2, <1>3, <1>9, <2>1, <2>2, <2>3 DEF Details!OfTheFocus
  <1> QED
    BY <1>6, <1>7, <1>8, <1>11, <1>12 DEF Details!IInv

LEMMA DetailsSettlesIInv ==
  ASSUME Details!Assumptions, Details!IInv, NEW r \in v3, Details!Lands(r) \/ Details!Fails(r)
  PROVE  Details!IInv'
  <1>1. v3' = v3 \ {r} /\ UNCHANGED <<v1, v2, v4, v7>>
    BY DEF Details!Lands, Details!Fails
  <1>2. r \in DetailsReadRecords /\ r.seq < v4
    BY DEF Details!IInv, Details!TypeOK, Details!InOrder, DetailsReadRecords
  <1>3. \A s \in v3' : Details!isCurrent(s)' <=> Details!isCurrent(s)
    BY <1>1 DEF Details!isCurrent
  <1>4. Details!WantedOfFocus'
    BY <1>1 DEF Details!IInv, Details!WantedOfFocus
  <1>5. CASE ~Details!isCurrent(r)
    <2>1. UNCHANGED <<v5, v6>>
      BY <1>5 DEF Details!Lands, Details!Fails
    <2>2. Details!TypeOK' /\ Details!InOrder'
      BY <1>1, <2>1 DEF Details!IInv, Details!TypeOK, Details!InOrder
    <2>3. Details!OneIsWanted'
      BY <1>1, <1>3, <2>1 DEF Details!IInv, Details!OneIsWanted
    <2>4. Details!OfTheFocus'
      BY <1>1, <1>3, <1>5, <2>1 DEF Details!IInv, Details!OfTheFocus
    <2> QED
      BY <1>4, <2>2, <2>3, <2>4 DEF Details!IInv
  <1>6. CASE Details!isCurrent(r)
    <2>1. /\ v5' = None \/ v5' = [of |-> r.of, seq |-> r.seq]
          /\ v6' \in {"ready", "not found", "failed"}
          /\ v6' = "ready" => v5' = [of |-> r.of, seq |-> r.seq]
      BY <1>6 DEF Details!Lands, Details!Fails, Details!Refusals
    <2>2. r.of = v2 /\ v2 # None
      <3>1. v2 # None
        BY <1>2, <1>6 DEF Details!isCurrent, DetailsReadRecords, Details!Assumptions
      <3> QED
        BY <1>2, <1>6, <3>1 DEF Details!isCurrent, Details!IInv, Details!WantedOfFocus, DetailsReadRecords
    <2>3. [of |-> r.of, seq |-> r.seq] \in [of : DetailKeys, seq : 0 .. MaxReads]
      BY <1>2 DEF DetailsReadRecords
    <2>4. Details!TypeOK'
      BY <1>1, <2>1, <2>3 DEF Details!IInv, Details!TypeOK
    <2>5. Details!InOrder'
      <3>1. CASE v5' = None
        BY <1>1, <3>1 DEF Details!IInv, Details!InOrder
      <3>2. CASE v5' = [of |-> r.of, seq |-> r.seq]
        <4>1. v5'.seq = r.seq /\ r.seq \in Nat /\ v4 \in Nat
          BY <3>2, DetailsKnown
        <4>2. v5'.seq <= v4
          BY <1>2, <4>1
        <4> QED
          BY <1>1, <4>2 DEF Details!IInv, Details!InOrder
      <3> QED
        BY <2>1, <3>1, <3>2
    <2>6. ~v7 => \A s \in v3' : ~Details!isCurrent(s)
      BY <1>1, <1>6, <2>2 DEF Details!IInv, Details!OneIsWanted
    <2>7. Details!OneIsWanted'
      BY <1>1, <1>3, <2>6 DEF Details!OneIsWanted
    <2>8. v6' = "ready" => v5' # None /\ v5'.of = v2
      BY <2>1, <2>2, <2>3 DEF Details!Assumptions
    <2>9. Details!OfTheFocus'
      BY <1>1, <1>3, <2>1, <2>6, <2>8 DEF Details!OfTheFocus
    <2> QED
      BY <1>4, <2>4, <2>5, <2>7, <2>9 DEF Details!IInv
  <1> QED
    BY <1>5, <1>6

LEMMA DetailsNextIInv == ASSUME Details!Assumptions, Details!IInv, [Details!Next]_(Details!vars) PROVE Details!IInv'
  <1>1. ASSUME NEW k \in DetailKeys, Details!FocusBead(k) PROVE Details!IInv'
    <2>1. CASE k \in Complete
      BY <1>1, <2>1, DetailsFocusRests DEF Details!FocusBead, Details!Assumptions
    <2>2. CASE k \notin Complete
      BY <1>1, <2>2, DetailsFocusAsks DEF Details!FocusBead
    <2> QED
      BY <2>1, <2>2
  <1>2. ASSUME NEW k \in DetailKeys, Details!FocusLinks(k) \/ Details!FocusConvoy(k) \/ Details!FocusRoots(k) PROVE Details!IInv'
    BY <1>2, DetailsFocusAsks DEF Details!FocusLinks, Details!FocusConvoy, Details!FocusRoots
  <1>3. CASE Details!Unfocus
    <2>1. v6 \in {"idle", "loading", "ready", "refreshing", "not found", "failed"}
      BY DEF Details!IInv, Details!TypeOK
    <2> QED
      BY <1>3, <2>1, DetailsFocusRests DEF Details!Unfocus
  <1>4. CASE Details!Refresh
    BY <1>4, DetailsRefreshIInv
  <1>5. ASSUME NEW r \in v3, Details!Lands(r) \/ Details!Fails(r) PROVE Details!IInv'
    BY <1>5, DetailsSettlesIInv
  <1>6. CASE UNCHANGED Details!vars
    BY <1>6 DEF Details!vars, Details!IInv, Details!TypeOK, Details!WantedOfFocus, Details!InOrder, Details!OneIsWanted, Details!OfTheFocus, Details!isCurrent
  <1> QED
    BY <1>1, <1>2, <1>3, <1>4, <1>5, <1>6 DEF Details!Next

(***************************************************************************)
(* The marks of the mail table (MailMarks).                                *)
(***************************************************************************)
\* What the parts of the invariant come to, with None apart from all of them.
LEMMA MarksKnown ==
  ASSUME Marks!Assumptions, Marks!IInv
  PROVE  /\ v1 \in MailBoxes /\ v8 \in Marks!Flags /\ None \notin Marks!Flags
         /\ v3 # None => v3 \in Loads /\ v4[v3] \in Marks!Fetches(Marks!Flags) /\ v3 \in Marks!InFlight
         /\ \A l \in Marks!InFlight : v4[l] \in Marks!Fetches(Marks!Flags)
         /\ \A l \in Marks!InFlight \ Marks!Asked : Marks!Answer(v4[l]) \in Marks!Answers(Marks!Flags) /\ v4[l].seen \in Marks!Flags
         /\ \A run \in Marks!Fetches(Marks!Flags) : run # None
         /\ \A a \in Marks!Answers(Marks!Flags) : a # None
  <1>1. v1 \in MailBoxes /\ v8 \in Marks!Flags /\ v4 \in [Loads -> Marks!Fetches(Marks!Flags) \cup {None}]
        /\ v3 \in Marks!InFlight \cup {None}
    BY DEF Marks!IInv, Marks!TypeOK, Marks!PanelTypeOK
  <1>2. None \notin Marks!Flags /\ (\A run \in Marks!Fetches(Marks!Flags) : run # None) /\ (\A a \in Marks!Answers(Marks!Flags) : a # None)
    BY DEF Marks!Assumptions, Marks!NoneIsApart
  <1>3. \A l \in Marks!InFlight : l \in Loads /\ v4[l] \in Marks!Fetches(Marks!Flags)
    BY <1>1 DEF Marks!InFlight
  <1>4. ASSUME NEW l \in Marks!InFlight \ Marks!Asked
        PROVE  Marks!Answer(v4[l]) \in Marks!Answers(Marks!Flags) /\ v4[l].seen \in Marks!Flags
    <2>1. v4[l] \in Marks!Fetches(Marks!Flags) /\ v4[l].seen # None
      BY <1>3, <1>4 DEF Marks!Asked
    <2>2. v4[l].key \in MailBoxes /\ v4[l].of \in MailBoxes /\ v4[l].seen \in Marks!Flags
      BY <2>1 DEF Marks!Fetches
    <2> QED
      BY <2>2 DEF Marks!Answer, Marks!Answers
  <1> QED
    BY <1>1, <1>2, <1>3, <1>4

LEMMA MarksInitIInv == ASSUME Marks!Assumptions, Marks!Init PROVE Marks!IInv
  <1> DEFINE unread == [m \in Messages |-> "unread"]
  <1>1. unread \in Marks!Flags
    BY DEF Marks!Flags, Marks!Marks
  <1> HIDE DEF unread
  <1>2. Marks!PanelInit(unread) /\ v11 = {} /\ v9 = {} /\ v10 = None /\ v12 = FALSE
    BY DEF Marks!Init, unread
  <1>3. Marks!PanelTypeOK(Marks!Flags) /\ Marks!CacheIsKeyed
    BY <1>1, <1>2 DEF Marks!PanelInit, Marks!PanelTypeOK, Marks!CacheIsKeyed
  <1>4. Marks!ShownUnderItsKey /\ Marks!BulkIsWhole /\ Marks!LatestIsOfTheBox /\ Marks!ReadAfterBulk
    BY <1>2 DEF Marks!PanelInit, Marks!ShownUnderItsKey, Marks!BulkIsWhole, Marks!LatestIsOfTheBox, Marks!ReadAfterBulk
  <1> QED
    BY <1>2, <1>3, <1>4 DEF Marks!IInv, Marks!TypeOK

\* A run of the fetcher: the new run is the latest, and has read nothing.
LEMMA MarksStartIs ==
  ASSUME Marks!Assumptions, Marks!IInv, NEW k \in MailBoxes, NEW l \in Loads, Marks!Start(k, l)
  PROVE  /\ v4' \in [Loads -> Marks!Fetches(Marks!Flags) \cup {None}]
         /\ v3' = l /\ l # None /\ v3' \in Marks!InFlight' /\ v6' = FALSE
         /\ v4'[l].key = k /\ v4'[l].seen = None
  <1>1. v4' = [v4 EXCEPT ![l] = [key |-> k, of |-> v1, seen |-> None]] /\ v3' = l /\ v6' = FALSE
    BY DEF Marks!Start, Marks!Started
  <1>2. [key |-> k, of |-> v1, seen |-> None] \in Marks!Fetches(Marks!Flags)
    BY MarksKnown DEF Marks!Fetches
  <1>3. v4 \in [Loads -> Marks!Fetches(Marks!Flags) \cup {None}]
    BY DEF Marks!IInv, Marks!TypeOK, Marks!PanelTypeOK
  <1>4. v4' \in [Loads -> Marks!Fetches(Marks!Flags) \cup {None}]
        /\ v4'[l] = [key |-> k, of |-> v1, seen |-> None]
    BY <1>1, <1>2, <1>3
  <1>5. v4'[l] # None
    BY <1>2, <1>4, MarksKnown
  <1> QED
    BY <1>1, <1>4, <1>5 DEF Marks!InFlight, Marks!Assumptions, Marks!PanelAssumptions

\* A settlement: the run is over, and with it the latest if it was that.
LEMMA MarksSettlesIs ==
  ASSUME Marks!Assumptions, Marks!IInv, NEW l \in Marks!InFlight, Marks!Settles(l)
  PROVE  /\ v4' \in [Loads -> Marks!Fetches(Marks!Flags) \cup {None}]
         /\ v3' \in Marks!InFlight' \cup {None}
         /\ v3' # None => v3' = v3 /\ v3 # l /\ v4'[v3] = v4[v3]
         /\ v3' = None => v3 = None \/ v3 = l
  <1>1. v4' = [v4 EXCEPT ![l] = None] /\ v3' = IF v3 = l THEN None ELSE v3
    BY DEF Marks!Settles, Marks!IsLatest
  <1>2. v4 \in [Loads -> Marks!Fetches(Marks!Flags) \cup {None}] /\ v3 \in Marks!InFlight \cup {None} /\ l \in Loads
    BY DEF Marks!IInv, Marks!TypeOK, Marks!PanelTypeOK, Marks!InFlight
  <1>3. v4' \in [Loads -> Marks!Fetches(Marks!Flags) \cup {None}]
    BY <1>1, <1>2
  <1>4. \A i \in Loads \ {l} : v4'[i] = v4[i]
    BY <1>1, <1>2
  <1>5. Marks!InFlight' = Marks!InFlight \ {l}
    BY <1>1, <1>2 DEF Marks!InFlight
  <1> QED
    BY <1>1, <1>2, <1>3, <1>4, <1>5 DEF Marks!InFlight

LEMMA MarksNextIInv == ASSUME Marks!Assumptions, Marks!IInv, [Marks!Next]_(Marks!vars) PROVE Marks!IInv'
  <1>1. ASSUME NEW k \in MailBoxes, Marks!Switch(k) PROVE Marks!IInv'
    <2>1. v1' = k /\ v2' = TRUE /\ UNCHANGED <<v3, v4, v5, v6, v7, v8, Marks!rows>>
      BY <1>1 DEF Marks!Switch, Marks!SwitchKey
    <2>2. Marks!TypeOK'
      BY <2>1 DEF Marks!rows, Marks!IInv, Marks!TypeOK, Marks!PanelTypeOK, Marks!CacheIsKeyed, Marks!InFlight
    <2>3. Marks!BulkIsWhole'
      BY <2>1 DEF Marks!rows, Marks!IInv, Marks!BulkIsWhole
    <2> QED
      BY <2>1, <2>2, <2>3 DEF Marks!IInv, Marks!ShownUnderItsKey, Marks!LatestIsOfTheBox, Marks!ReadAfterBulk
  <1>2. ASSUME NEW l \in Loads, Marks!Seed(l) PROVE Marks!IInv'
    <2>1. /\ v2' = FALSE /\ v5' = v7[v1] /\ Marks!Start(v1, l) /\ v9' = {}
          /\ UNCHANGED <<v1, v7, v8, v10, v11, v12>>
      BY <1>2 DEF Marks!Seed, Marks!Effect
    <2>2. v1 \in MailBoxes
      BY MarksKnown
    <2>3. v5' \in Marks!Answers(Marks!Flags) \cup {None}
      BY <2>1, <2>2 DEF Marks!IInv, Marks!TypeOK, Marks!PanelTypeOK
    <2>4. Marks!TypeOK'
      BY <2>1, <2>2, <2>3, MarksStartIs DEF Marks!IInv, Marks!TypeOK, Marks!PanelTypeOK, Marks!CacheIsKeyed
    <2>5. Marks!ShownUnderItsKey'
      BY <2>1, <2>2 DEF Marks!IInv, Marks!TypeOK, Marks!CacheIsKeyed, Marks!ShownUnderItsKey
    <2>6. Marks!BulkIsWhole'
      BY <2>1 DEF Marks!IInv, Marks!BulkIsWhole
    <2>7. Marks!LatestIsOfTheBox' /\ Marks!ReadAfterBulk'
      BY <2>1, <2>2, MarksStartIs DEF Marks!LatestIsOfTheBox, Marks!ReadAfterBulk
    <2> QED
      BY <2>4, <2>5, <2>6, <2>7 DEF Marks!IInv
  <1>3. ASSUME NEW l \in Loads, Marks!Press(l) PROVE Marks!IInv'
    <2>1. Marks!Start(v1, l) /\ UNCHANGED <<v1, v2, v5, v7, v8, v9, v10, v11, v12>>
      BY <1>3 DEF Marks!Press, Marks!Refresh, Marks!rows
    <2>2. v1 \in MailBoxes
      BY MarksKnown
    <2>3. Marks!TypeOK'
      BY <2>1, <2>2, MarksStartIs DEF Marks!IInv, Marks!TypeOK, Marks!PanelTypeOK, Marks!CacheIsKeyed
    <2>4. Marks!ShownUnderItsKey'
      BY <2>1 DEF Marks!IInv, Marks!ShownUnderItsKey
    <2>5. Marks!BulkIsWhole'
      BY <2>1 DEF Marks!IInv, Marks!BulkIsWhole
    <2>6. Marks!LatestIsOfTheBox' /\ Marks!ReadAfterBulk'
      BY <2>1, <2>2, MarksStartIs DEF Marks!LatestIsOfTheBox, Marks!ReadAfterBulk
    <2> QED
      BY <2>3, <2>4, <2>5, <2>6 DEF Marks!IInv
  <1>4. ASSUME NEW l \in Loads, Marks!TableReads(l) PROVE Marks!IInv'
    <2>1. /\ l \in Marks!InFlight /\ v4' = [v4 EXCEPT ![l].seen = v8]
          /\ UNCHANGED <<v1, v2, v3, v5, v6, v7, v8, v9, v10, v11, v12>>
      BY <1>4 DEF Marks!TableReads, Marks!Sample, Marks!Asked, Marks!rows
    <2>2. [v4[l] EXCEPT !.seen = v8] \in Marks!Fetches(Marks!Flags) /\ v4 \in [Loads -> Marks!Fetches(Marks!Flags) \cup {None}]
      BY <2>1, MarksKnown DEF Marks!Fetches, Marks!IInv, Marks!TypeOK, Marks!PanelTypeOK
    <2>3. v4' \in [Loads -> Marks!Fetches(Marks!Flags) \cup {None}] /\ v4'[l] = [v4[l] EXCEPT !.seen = v8]
          /\ \A i \in Loads \ {l} : v4'[i] = v4[i]
      BY <2>1, <2>2
    <2>4. v4'[l] # None /\ v4'[l].seen = v8 /\ v4'[l].key = v4[l].key
      BY <2>1, <2>2, <2>3, MarksKnown DEF Marks!Fetches
    <2>5. Marks!InFlight \subseteq Marks!InFlight'
      BY <2>3, <2>4 DEF Marks!InFlight
    <2>6. Marks!TypeOK'
      BY <2>1, <2>3, <2>5 DEF Marks!IInv, Marks!TypeOK, Marks!PanelTypeOK, Marks!CacheIsKeyed
    <2>7. Marks!BulkIsWhole' /\ Marks!ShownUnderItsKey'
      BY <2>1 DEF Marks!IInv, Marks!BulkIsWhole, Marks!ShownUnderItsKey
    <2>8. Marks!LatestIsOfTheBox' /\ Marks!ReadAfterBulk'
      BY <2>1, <2>3, <2>4, MarksKnown DEF Marks!IInv, Marks!LatestIsOfTheBox, Marks!ReadAfterBulk
    <2> QED
      BY <2>6, <2>7, <2>8 DEF Marks!IInv
  <1>5. ASSUME NEW l \in Loads, Marks!Land(l), UNCHANGED Marks!rows PROVE Marks!IInv'
    <2>1. /\ l \in Marks!InFlight \ Marks!Asked /\ v5' = Marks!Adopted(l) /\ v7' = Marks!Stored(l) /\ Marks!Settles(l)
          /\ UNCHANGED <<v1, v2, v6, v8, v9, v10, v11, v12>>
      BY <1>5 DEF Marks!Land, Marks!rows
    <2>2. /\ v5' = v5 \/ (v4[l].key = v1 /\ v5' = Marks!Answer(v4[l]))
          /\ v5' # v5 => v5' = Marks!Answer(v4[l]) /\ (v3 = l \/ v5 = None)
          /\ v4[l].key = v1 /\ v3 = l => v5' = Marks!Answer(v4[l])
      BY <2>1 DEF Marks!Adopted, Marks!IsActive, Marks!IsLatest
    <2>3. Marks!Answer(v4[l]) \in Marks!Answers(Marks!Flags) /\ Marks!Answer(v4[l]).tag = v4[l].key
          /\ Marks!Answer(v4[l]).seen = v4[l].seen /\ Marks!Answer(v4[l]) # None
          /\ v4[l].seen \in Marks!Flags /\ v4[l].seen # None
      BY <2>1, MarksKnown DEF Marks!Answer
    <2>4. v7' \in [MailBoxes -> Marks!Answers(Marks!Flags) \cup {None}] /\ Marks!CacheIsKeyed'
      <3>1. CASE v4[l].key = v1 /\ v3 = l
        <4>1. v7' = [v7 EXCEPT ![v1] = Marks!Answer(v4[l])]
          BY <2>1, <3>1 DEF Marks!Stored, Marks!IsActive, Marks!IsLatest
        <4> QED
          BY <2>3, <3>1, <4>1 DEF Marks!IInv, Marks!TypeOK, Marks!PanelTypeOK, Marks!CacheIsKeyed
      <3>2. CASE ~(v4[l].key = v1 /\ v3 = l)
        <4>1. v7' = v7
          BY <2>1, <3>2 DEF Marks!Stored, Marks!IsActive, Marks!IsLatest
        <4> QED
          BY <4>1 DEF Marks!IInv, Marks!TypeOK, Marks!PanelTypeOK, Marks!CacheIsKeyed
      <3> QED
        BY <3>1, <3>2
    <2>5. v5' \in Marks!Answers(Marks!Flags) \cup {None}
      BY <2>2, <2>3 DEF Marks!IInv, Marks!TypeOK, Marks!PanelTypeOK
    <2>6. Marks!TypeOK'
      BY <2>1, <2>4, <2>5, MarksSettlesIs DEF Marks!IInv, Marks!TypeOK, Marks!PanelTypeOK
    <2>7. Marks!ShownUnderItsKey'
      BY <2>1, <2>2, <2>3 DEF Marks!IInv, Marks!ShownUnderItsKey
    <2>8. Marks!BulkIsWhole'
      BY <2>1 DEF Marks!IInv, Marks!BulkIsWhole
    <2>9. v5 # None => v5' # None
      BY <2>2, <2>3
    <2>10. Marks!LatestIsOfTheBox'
      BY <2>1, <2>2, <2>3, <2>9, MarksSettlesIs DEF Marks!IInv, Marks!LatestIsOfTheBox
    <2>11. Marks!ReadAfterBulk'
      <3>1. CASE v3 = l
        <4>1. v3' = None /\ v3 # None
          BY <2>1, <3>1, MarksSettlesIs, MarksKnown DEF Marks!Assumptions, Marks!PanelAssumptions, Marks!InFlight
        <4>2. ~v12 /\ ~v2 /\ v10 = None => v5' = Marks!Answer(v4[l]) /\ v4[l].seen = v8
          BY <2>2, <2>3, <3>1, <4>1 DEF Marks!IInv, Marks!LatestIsOfTheBox, Marks!ReadAfterBulk
        <4> QED
          BY <2>1, <2>3, <4>1, <4>2 DEF Marks!ReadAfterBulk
      <3>2. CASE v3 # l
        BY <2>1, <2>2, <2>3, <3>2, MarksSettlesIs DEF Marks!IInv, Marks!LatestIsOfTheBox, Marks!ReadAfterBulk
      <3> QED
        BY <3>1, <3>2
    <2> QED
      BY <2>6, <2>7, <2>8, <2>10, <2>11 DEF Marks!IInv
  <1>6. ASSUME NEW l \in Loads, Marks!Fail(l), UNCHANGED Marks!rows PROVE Marks!IInv'
    <2>1. /\ l \in Marks!InFlight /\ v6' = (v6 \/ v3 = l) /\ Marks!Settles(l)
          /\ UNCHANGED <<v1, v2, v5, v7, v8, v9, v10, v11, v12>>
      BY <1>6 DEF Marks!Fail, Marks!rows, Marks!IsLatest
    <2>2. v6' \in BOOLEAN
      BY <2>1
    <2>3. Marks!TypeOK'
      BY <2>1, <2>2, MarksSettlesIs DEF Marks!IInv, Marks!TypeOK, Marks!PanelTypeOK, Marks!CacheIsKeyed
    <2>4. Marks!BulkIsWhole' /\ Marks!ShownUnderItsKey'
      BY <2>1 DEF Marks!IInv, Marks!BulkIsWhole, Marks!ShownUnderItsKey
    <2>5. Marks!LatestIsOfTheBox' /\ Marks!ReadAfterBulk'
      BY <2>1, MarksSettlesIs DEF Marks!IInv, Marks!LatestIsOfTheBox, Marks!ReadAfterBulk
    <2> QED
      BY <2>3, <2>4, <2>5 DEF Marks!IInv
  <1>7. ASSUME NEW l \in Loads, Marks!BulkSettles(l) PROVE Marks!IInv'
    <2>1. /\ v10 # None /\ v10.waits = {} /\ Marks!Start(v10.key, l) /\ v10' = None
          /\ v9' \in {v9, {}} /\ v12' = (v12 \/ v10.key # v1)
          /\ UNCHANGED <<v1, v2, v5, v7, v8, v11>>
      BY <1>7 DEF Marks!BulkSettles, Marks!Refresh
    <2>2. v10.key \in MailBoxes
      BY <2>1 DEF Marks!IInv, Marks!TypeOK, Marks!Assumptions
    <2>3. Marks!TypeOK'
      <3>1. v12' \in BOOLEAN /\ v9' \subseteq Messages
        BY <2>1 DEF Marks!IInv, Marks!TypeOK
      <3> QED
        BY <2>1, <2>2, <3>1, MarksStartIs DEF Marks!IInv, Marks!TypeOK, Marks!PanelTypeOK, Marks!CacheIsKeyed
    <2>4. Marks!ShownUnderItsKey'
      BY <2>1 DEF Marks!IInv, Marks!ShownUnderItsKey
    <2>5. Marks!BulkIsWhole'
      BY <2>1 DEF Marks!IInv, Marks!BulkIsWhole
    <2>6. Marks!LatestIsOfTheBox' /\ Marks!ReadAfterBulk'
      BY <2>1, <2>2, MarksStartIs DEF Marks!LatestIsOfTheBox, Marks!ReadAfterBulk
    <2> QED
      BY <2>3, <2>4, <2>5, <2>6 DEF Marks!IInv
  <1>8. ASSUME UNCHANGED <<Marks!panelVars, v10, v11, v12>>, v9' \subseteq Messages PROVE Marks!IInv'
    <2>1. UNCHANGED <<v1, v2, v3, v4, v5, v6, v7, v8>>
      BY <1>8 DEF Marks!panelVars
    <2>2. Marks!TypeOK'
      BY <1>8, <2>1 DEF Marks!IInv, Marks!TypeOK, Marks!PanelTypeOK, Marks!CacheIsKeyed, Marks!InFlight
    <2> QED
      BY <1>8, <2>1, <2>2 DEF Marks!IInv, Marks!ShownUnderItsKey, Marks!BulkIsWhole, Marks!LatestIsOfTheBox, Marks!ReadAfterBulk
  <1>9. ASSUME NEW m \in Messages, Marks!ToggleSelect(m) PROVE Marks!IInv'
    <2>1. v9' \subseteq Messages
      BY <1>9 DEF Marks!ToggleSelect, Marks!IInv, Marks!TypeOK
    <2> QED
      BY <1>8, <1>9, <2>1 DEF Marks!ToggleSelect
  <1>10. CASE Marks!ToggleAll
    <2>1. v9' \subseteq Messages
      BY <1>10 DEF Marks!ToggleAll, Marks!Rows
    <2> QED
      BY <1>8, <1>10, <2>1 DEF Marks!ToggleAll
  <1>11. ASSUME NEW mark \in Marks!Marks, Marks!Bulk(mark) PROVE Marks!IInv'
    <2> DEFINE marked == Marks!Targets(mark) \X {mark}
    <2>1. marked \subseteq Messages \X Marks!Marks
      BY DEF Marks!Targets, Marks!Rows
    <2> HIDE DEF marked
    <2>2. /\ v1 \in Selectable /\ v10 = None
          /\ v10' = [key |-> v1, waits |-> marked, failed |-> FALSE]
          /\ v11' = v11 \cup marked
          /\ UNCHANGED <<v1, v2, v3, v4, v5, v6, v7, v8, v9, v12>>
      BY <1>11 DEF Marks!Bulk, Marks!panelVars, marked
    <2>3. v10' \in [key : Selectable, failed : BOOLEAN, waits : SUBSET (Messages \X Marks!Marks)]
          /\ v10'.waits = marked
      BY <2>1, <2>2
    <2>4. v10' # None
      BY <2>3 DEF Marks!Assumptions
    <2>5. Marks!TypeOK'
      BY <2>1, <2>2, <2>3 DEF Marks!IInv, Marks!TypeOK, Marks!PanelTypeOK, Marks!CacheIsKeyed, Marks!InFlight
    <2>6. Marks!BulkIsWhole'
      BY <2>2, <2>3, <2>4 DEF Marks!IInv, Marks!BulkIsWhole
    <2>7. Marks!LatestIsOfTheBox' /\ Marks!ReadAfterBulk' /\ Marks!ShownUnderItsKey'
      BY <2>2, <2>4 DEF Marks!IInv, Marks!LatestIsOfTheBox, Marks!ReadAfterBulk, Marks!ShownUnderItsKey
    <2> QED
      BY <2>5, <2>6, <2>7 DEF Marks!IInv
  <1>12. ASSUME NEW f \in v11, v11' = v11 \ {f}, v8' \in Marks!Flags,
                v12' \in BOOLEAN, v12 => v12',
                v10' = None \/ v10' \in [key : Selectable, failed : BOOLEAN, waits : SUBSET (Messages \X Marks!Marks)],
                v10' = None <=> v10 = None,
                ~v12' /\ v10 # None => v10'.waits = v10.waits \ {f},
                UNCHANGED <<Marks!panel, v7, v9>>
         PROVE  Marks!IInv'
    <2>1. UNCHANGED <<v1, v2, v3, v4, v5, v6, v7, v9>>
      BY <1>12 DEF Marks!panel
    <2>2. Marks!TypeOK'
      BY <1>12, <2>1 DEF Marks!IInv, Marks!TypeOK, Marks!PanelTypeOK, Marks!CacheIsKeyed, Marks!InFlight
    <2>3. Marks!ShownUnderItsKey' /\ Marks!LatestIsOfTheBox'
      BY <1>12, <2>1 DEF Marks!IInv, Marks!ShownUnderItsKey, Marks!LatestIsOfTheBox
    <2>4. Marks!BulkIsWhole'
      BY <1>12 DEF Marks!IInv, Marks!BulkIsWhole
    <2>5. Marks!ReadAfterBulk'
      <3>1. ~v12' => v10 # None
        BY <1>12 DEF Marks!IInv, Marks!BulkIsWhole
      <3> QED
        BY <1>12, <3>1 DEF Marks!ReadAfterBulk
    <2> QED
      BY <2>2, <2>3, <2>4, <2>5 DEF Marks!IInv
  <1>13. ASSUME NEW f \in v11
         PROVE  [v8 EXCEPT ![f[1]] = f[2]] \in Marks!Flags
    <2>1. f \in Messages \X Marks!Marks /\ v8 \in Marks!Flags
      BY <1>13, MarksKnown DEF Marks!IInv, Marks!TypeOK
    <2> QED
      BY <2>1 DEF Marks!Flags
  <1>14. ASSUME v10 # None
         PROVE  v10 \in [key : Selectable, failed : BOOLEAN, waits : SUBSET (Messages \X Marks!Marks)]
    BY <1>14 DEF Marks!IInv, Marks!TypeOK
  <1>15. ASSUME NEW f \in v11, Marks!MarkAnswers(f) PROVE Marks!IInv'
    <2>1. CASE Marks!Awaits(f)
      <3>1. v10 # None /\ v10' = [v10 EXCEPT !.waits = @ \ {f}]
        BY <1>15, <2>1 DEF Marks!MarkAnswers, Marks!Awaits
      <3>2. v10' \in [key : Selectable, failed : BOOLEAN, waits : SUBSET (Messages \X Marks!Marks)]
            /\ v10'.waits = v10.waits \ {f}
        BY <1>14, <3>1
      <3>3. v10' # None
        BY <3>2 DEF Marks!Assumptions
      <3> QED
        BY <1>12, <1>13, <1>15, <3>1, <3>2, <3>3 DEF Marks!MarkAnswers, Marks!IInv, Marks!TypeOK
    <2>2. CASE ~Marks!Awaits(f)
      <3>1. v10' = v10 /\ (v10 # None => f \notin v10.waits)
        BY <1>15, <2>2 DEF Marks!MarkAnswers, Marks!Awaits
      <3>2. v10 # None => v10'.waits = v10.waits \ {f}
        BY <3>1
      <3> QED
        BY <1>12, <1>13, <1>14, <1>15, <3>1, <3>2 DEF Marks!MarkAnswers, Marks!IInv, Marks!TypeOK
    <2> QED
      BY <2>1, <2>2
  <1>16. ASSUME NEW f \in v11, Marks!MarkFails(f) PROVE Marks!IInv'
    <2>1. v11' = v11 \ {f} /\ UNCHANGED <<Marks!panel, v7, v9>>
          /\ v12' = (v12 \/ (Marks!Awaits(f) /\ v10.waits # {f}))
      BY <1>16 DEF Marks!MarkFails
    <2>2. v8' \in Marks!Flags
      BY <1>13, <1>16, MarksKnown DEF Marks!MarkFails
    <2>3. v12' \in BOOLEAN /\ (v12 => v12')
      BY <2>1
    <2>4. CASE Marks!Awaits(f)
      <3>1. v10 # None /\ v10' = [v10 EXCEPT !.waits = {}, !.failed = TRUE]
        BY <1>16, <2>4 DEF Marks!MarkFails, Marks!Awaits, Marks!AfterRejection
      <3>2. v10' \in [key : Selectable, failed : BOOLEAN, waits : SUBSET (Messages \X Marks!Marks)]
            /\ v10'.waits = {}
        BY <1>14, <3>1
      <3>3. v10' # None
        BY <3>2 DEF Marks!Assumptions
      <3>4. ~v12' => v10'.waits = v10.waits \ {f}
        BY <2>1, <2>4, <3>2
      <3> QED
        BY <1>12, <2>1, <2>2, <2>3, <3>1, <3>2, <3>3, <3>4
    <2>5. CASE ~Marks!Awaits(f)
      <3>1. v10' = v10 /\ (v10 # None => f \notin v10.waits)
        BY <1>16, <2>5 DEF Marks!MarkFails, Marks!Awaits
      <3>2. v10 # None => v10'.waits = v10.waits \ {f}
        BY <3>1
      <3> QED
        BY <1>12, <1>14, <2>1, <2>2, <2>3, <3>1, <3>2
    <2> QED
      BY <2>4, <2>5
  <1>17. CASE UNCHANGED Marks!vars
    <2>1. v9' \subseteq Messages
      BY <1>17 DEF Marks!vars, Marks!rows, Marks!IInv, Marks!TypeOK
    <2> QED
      BY <1>8, <1>17, <2>1 DEF Marks!vars, Marks!rows
  <1>18. ASSUME NEW l \in Loads, Marks!TableSettles(l) PROVE Marks!IInv'
    BY <1>5, <1>6, <1>18 DEF Marks!TableSettles
  <1> QED
    BY <1>1, <1>2, <1>3, <1>4, <1>7, <1>9, <1>10, <1>11, <1>15, <1>16, <1>17, <1>18 DEF Marks!Next

LEMMA MarksShow == ASSUME Marks!Assumptions, Marks!IInv PROVE Marks!MarksAreShown
  <1>1. Marks!InFlight = {} => v3 = None
    BY MarksKnown
  <1> QED
    BY <1>1 DEF Marks!IInv, Marks!ReadAfterBulk, Marks!MarksAreShown, Marks!TableReflectsTruth, Marks!Quiet

(***************************************************************************)
(* The page of one run (RunPage).                                          *)
(***************************************************************************)
\* The types of the two panels apart, and None apart from what they hold.
PageDetailTyped ==
  /\ v1 \in Page!Runs /\ v2 \in BOOLEAN /\ v6 \in BOOLEAN /\ v8 \in Page!Worlds
  /\ v3 \in Page!InFlight \cup {None}
  /\ v4 \in [Loads -> Page!Fetches(Page!Worlds) \cup {None}]
  /\ v5 \in Page!Answers(Page!Worlds) \cup {None}
  /\ v7 \in [Page!Runs -> Page!Answers(Page!Worlds) \cup {None}]

PageDiffTyped ==
  /\ v9 \in Page!DiffKeys \cup {None} /\ v10 \in BOOLEAN /\ v14 \in BOOLEAN
  /\ v11 \in Page!Diff!InFlight \cup {None}
  /\ v12 \in [Diffs -> Page!Diff!Fetches({0}) \cup {None}]
  /\ v15 \in [Page!DiffKeys -> Page!Diff!Answers({0}) \cup {None}]
  /\ v13 \in Page!Diff!Answers({0}) \cup {None}

PageRestTyped ==
  /\ v16 \in [node : {"x", "y", None}, route : Page!Runs \cup {None}, by : {"route", "user"}]
  /\ v17 \in {"mine", "ambient", None}
  /\ v18 \in 0 .. MaxRunWorld /\ v19 \in 0 .. MaxOps

LEMMA PageTypedParts == Page!TypeOK <=> PageDetailTyped /\ Page!CacheIsKeyed /\ PageDiffTyped /\ PageRestTyped
  BY DEF Page!TypeOK, Page!PanelTypeOK, PageDetailTyped, PageDiffTyped, PageRestTyped, Page!Runs

\* The same of the state after a step.
LEMMA PageTypedPartsNext == Page!TypeOK' <=> PageDetailTyped' /\ Page!CacheIsKeyed' /\ PageDiffTyped' /\ PageRestTyped'
  BY DEF Page!TypeOK, Page!PanelTypeOK, PageDetailTyped, PageDiffTyped, PageRestTyped, Page!Runs

LEMMA PageApart ==
  ASSUME Page!Assumptions
  PROVE  /\ None \notin Page!Worlds /\ None \notin Loads /\ None \notin Diffs /\ None \notin Page!DiffKeys /\ None \notin Page!Runs
         /\ \A x \in Page!Fetches(Page!Worlds) : x # None
         /\ \A x \in Page!Answers(Page!Worlds) : x # None
         /\ \A x \in Page!Diff!Fetches({0}) : x # None
         /\ \A x \in Page!Diff!Answers({0}) : x # None
  BY DEF Page!Assumptions, Page!PanelAssumptions, Page!NoneIsApart, Page!Diff!PanelAssumptions, Page!Diff!NoneIsApart, Page!Runs

LEMMA PageWorldIs ==
  ASSUME Page!Assumptions, NEW w \in Page!Worlds
  PROVE  w.n \in 0 .. MaxRunWorld /\ w.n \in Nat /\ w.moved \in BOOLEAN /\ w.kind \in {"running", "done", "missing"}
  <1>1. w \in [n : 0 .. MaxRunWorld, kind : {"running", "done", "missing"}, moved : BOOLEAN] /\ MaxRunWorld \in Nat
    BY DEF Page!Worlds, Page!Assumptions
  <1> QED
    BY <1>1

\* The key of a diff is made of the detail that is shown.
LEMMA PageKeyIs ==
  ASSUME Page!Assumptions, NEW run \in Page!Runs, NEW a \in Page!Answers(Page!Worlds) \cup {None}
  PROVE  /\ Page!DetailOf(a) \in Page!Answers(Page!Worlds) \cup {None} /\ Page!DetailOf(a) \in {a, None}
         /\ Page!runDiffCacheKey(run, Page!DetailOf(a)) \in Page!DiffKeys \cup {None}
         /\ Page!runDiffCacheKey(run, Page!DetailOf(a)) = None <=> Page!DetailOf(a) = None
  <1>1. Page!DetailOf(a) \in {a, None}
    BY DEF Page!DetailOf
  <1>2. CASE Page!DetailOf(a) = None
    BY <1>1, <1>2 DEF Page!runDiffCacheKey
  <1>3. CASE Page!DetailOf(a) # None
    <2>1. Page!DetailOf(a) = a /\ a \in Page!Answers(Page!Worlds)
      BY <1>1, <1>3
    <2>2. a.of \in Page!Runs /\ a.seen \in Page!Worlds
      BY <2>1 DEF Page!Answers, Page!Runs
    <2>3. Moves[a.of][a.seen.moved] \in UNION {{Moves[r][b] : b \in BOOLEAN} : r \in Page!Runs}
      BY <2>2, PageWorldIs
    <2>4. Page!runDiffCacheKey(run, Page!DetailOf(a)) = <<run, Moves[a.of][a.seen.moved]>>
      BY <1>3, <2>1 DEF Page!runDiffCacheKey, Page!PathOf
    <2>5. Page!runDiffCacheKey(run, Page!DetailOf(a)) \in Page!DiffKeys
      BY <2>3, <2>4 DEF Page!DiffKeys
    <2> QED
      BY <1>3, <2>1, <2>5, PageApart
  <1> QED
    BY <1>2, <1>3

LEMMA PageInitIInv == ASSUME Page!Assumptions, Page!Init PROVE Page!IInv
  <1>1. PICK w \in Page!Worlds : w.n = 0 /\ Page!PanelInit(w)
    BY DEF Page!Init
  <1>2. PageDetailTyped /\ Page!CacheIsKeyed /\ Page!ShownUnderItsKey /\ Page!DetailAsFiled
    BY <1>1 DEF Page!PanelInit, PageDetailTyped, Page!CacheIsKeyed, Page!ShownUnderItsKey, Page!DetailAsFiled, Page!InFlight, Page!Runs
  <1>3. PageDiffTyped /\ Page!DiffAsFiled
    BY DEF Page!Init, PageDiffTyped, Page!DiffAsFiled, Page!Diff!InFlight
  <1>4. PageRestTyped
    <2>1. 0 \in 0 .. MaxRunWorld /\ 0 \in 0 .. MaxOps
      BY DEF Page!Assumptions
    <2> QED
      BY <2>1 DEF Page!Init, PageRestTyped
  <1>5. Page!DiffFollows
    BY <1>1 DEF Page!Init, Page!PanelInit, Page!DiffFollows, Page!Diff!CacheIsKeyed, Page!runDiffCacheKey, Page!Detail, Page!DetailOf
  <1>6. Page!SelectionBelongs
    BY <1>1 DEF Page!PanelInit, Page!SelectionBelongs
  <1>7. Page!LatestCovers
    <2>1. v18 = 0 /\ v8.n = 0 /\ v2 = TRUE
      BY <1>1 DEF Page!Init, Page!PanelInit
    <2> QED
      BY <2>1 DEF Page!LatestCovers
  <1> QED
    BY <1>2, <1>3, <1>4, <1>5, <1>6, <1>7, PageTypedParts DEF Page!IInv

\* A load of the detail: it is of this run, the latest, and has read nothing.
LEMMA PageLoadDetailIs ==
  ASSUME Page!Assumptions, Page!IInv, Page!Idle # {}, Page!LoadDetail
  PROVE  /\ v4' \in [Loads -> Page!Fetches(Page!Worlds) \cup {None}]
         /\ v3' # None /\ v3' \in Page!InFlight' /\ v6' = FALSE
         /\ v4'[v3'].key = v1 /\ v4'[v3'].seen = None
         /\ \A l \in Page!InFlight' : v4'[l].of = v4'[l].key
  <1>1. PICK l \in Page!Idle : Page!Start(v1, l)
    BY DEF Page!LoadDetail
  <1>2. l \in Loads /\ v4' = [v4 EXCEPT ![l] = [key |-> v1, of |-> v1, seen |-> None]]
        /\ v3' = l /\ v6' = FALSE
    BY <1>1 DEF Page!Start, Page!Started, Page!Idle
  <1>3. PageDetailTyped
    BY PageTypedParts DEF Page!IInv
  <1>4. [key |-> v1, of |-> v1, seen |-> None] \in Page!Fetches(Page!Worlds)
    BY <1>3 DEF PageDetailTyped, Page!Fetches, Page!Runs
  <1>5. v4' \in [Loads -> Page!Fetches(Page!Worlds) \cup {None}]
        /\ v4'[l] = [key |-> v1, of |-> v1, seen |-> None]
        /\ \A i \in Loads \ {l} : v4'[i] = v4[i]
    BY <1>2, <1>3, <1>4 DEF PageDetailTyped
  <1>6. v4'[l] # None
    BY <1>4, <1>5, PageApart
  <1>7. \A i \in Page!InFlight' : v4'[i].of = v4'[i].key
    BY <1>5 DEF Page!InFlight, Page!IInv, Page!DetailAsFiled
  <1> QED
    BY <1>2, <1>5, <1>6, <1>7, PageApart DEF Page!InFlight

LEMMA PageStartDiffIs ==
  ASSUME Page!Assumptions, Page!IInv, v9 # None, Page!Diff!Idle # {}, Page!StartDiff
  PROVE  /\ v12' \in [Diffs -> Page!Diff!Fetches({0}) \cup {None}]
         /\ v11' \in Page!Diff!InFlight' \cup {None} /\ v14' = FALSE
         /\ \A l \in Page!Diff!InFlight' : v12'[l].of = v12'[l].key
  <1>1. PICK l \in Page!Diff!Idle : v12' = [v12 EXCEPT ![l] = [key |-> v9, of |-> v9, seen |-> 0]]
                               /\ v11' = l /\ v14' = FALSE
    BY DEF Page!StartDiff
  <1>2. PageDiffTyped /\ l \in Diffs
    BY <1>1, PageTypedParts DEF Page!IInv, Page!Diff!Idle
  <1>3. [key |-> v9, of |-> v9, seen |-> 0] \in Page!Diff!Fetches({0})
    BY <1>2 DEF PageDiffTyped, Page!Diff!Fetches
  <1>4. v12' \in [Diffs -> Page!Diff!Fetches({0}) \cup {None}]
        /\ v12'[l] = [key |-> v9, of |-> v9, seen |-> 0]
        /\ \A i \in Diffs \ {l} : v12'[i] = v12[i]
    BY <1>1, <1>2, <1>3 DEF PageDiffTyped
  <1>5. v12'[l] # None
    BY <1>3, <1>4, PageApart
  <1>6. \A i \in Page!Diff!InFlight' : v12'[i].of = v12'[i].key
    BY <1>4 DEF Page!Diff!InFlight, Page!IInv, Page!DiffAsFiled
  <1> QED
    BY <1>1, <1>2, <1>4, <1>5, <1>6 DEF Page!Diff!InFlight

\* What the selection of a node leaves typed, and whose it is.
LEMMA PageReselectedIs ==
  ASSUME NEW s \in [node : {"x", "y", None}, route : Page!Runs \cup {None}, by : {"route", "user"}],
         NEW run \in Page!Runs, NEW d
  PROVE  /\ Page!Reselected(s, run, d) \in
              [node : {"x", "y", None}, route : Page!Runs \cup {None}, by : {"route", "user"}]
         /\ d # None =>
              /\ Page!Reselected(s, run, d).route = run
              /\ Page!Reselected(s, run, d).by = "route" =>
                   Page!Reselected(s, run, d).node = Page!selectedRouteNodeId(run, d)
  <1>1. Page!selectedRouteNodeId(run, d) \in {"x", "y", None}
    BY DEF Page!selectedRouteNodeId, Page!NodesOf
  <1>2. CASE d = None \/ (s.route = run /\ (s.by = "user" \/ s.node = Page!selectedRouteNodeId(run, d)))
    BY <1>2 DEF Page!Reselected
  <1>3. CASE ~(d = None \/ (s.route = run /\ (s.by = "user" \/ s.node = Page!selectedRouteNodeId(run, d))))
    <2>1. Page!Reselected(s, run, d) = [node |-> Page!selectedRouteNodeId(run, d), route |-> run, by |-> "route"]
      BY <1>3 DEF Page!Reselected
    <2> QED
      BY <1>1, <2>1
  <1> QED
    BY <1>2, <1>3

LEMMA PageNavigateIInv ==
  ASSUME Page!Assumptions, Page!IInv, NEW run \in Page!Runs, Page!Navigate(run)
  PROVE  Page!IInv'
  <1>1. /\ v1' = run /\ v2' = TRUE /\ v18' = 0 /\ v19 < MaxOps /\ v19' = v19 + 1
        /\ v9' = Page!runDiffCacheKey(run, Page!DetailOf(v5)) /\ v10' = (v10 \/ v9' # v9)
        /\ UNCHANGED <<v3, v4, v5, v6, v7, v8, v11, v12, v13, v14, v15, v16, v17>>
    BY DEF Page!Navigate, Page!Operates, Page!Rendered
  <1>2. PageDetailTyped /\ PageDiffTyped /\ PageRestTyped
    BY PageTypedParts DEF Page!IInv
  <1>3. v9' \in Page!DiffKeys \cup {None} /\ v10' \in BOOLEAN
    BY <1>1, <1>2, PageKeyIs DEF PageDetailTyped
  <1>4. v18' \in 0 .. MaxRunWorld /\ v19' \in 0 .. MaxOps
    BY <1>1, <1>2 DEF PageRestTyped, Page!Assumptions
  <1>5. PageDetailTyped' /\ Page!CacheIsKeyed' /\ PageDiffTyped' /\ PageRestTyped'
    BY <1>1, <1>2, <1>3, <1>4 DEF PageDetailTyped, PageDiffTyped, PageRestTyped, Page!InFlight, Page!Diff!InFlight,
       Page!IInv, Page!TypeOK, Page!CacheIsKeyed
  <1>6. Page!ShownUnderItsKey' /\ Page!SelectionBelongs'
    BY <1>1 DEF Page!ShownUnderItsKey, Page!SelectionBelongs
  <1>7. Page!DetailAsFiled' /\ Page!DiffAsFiled'
    BY <1>1 DEF Page!IInv, Page!DetailAsFiled, Page!DiffAsFiled, Page!InFlight, Page!Diff!InFlight
  <1>8. Page!DiffFollows'
    BY <1>1 DEF Page!IInv, Page!DiffFollows, Page!Diff!CacheIsKeyed, Page!Detail
  <1>9. Page!LatestCovers'
    <2>1. 0 <= v8.n
      BY <1>2, PageWorldIs DEF PageDetailTyped
    <2> QED
      BY <1>1, <2>1 DEF Page!LatestCovers
  <1> QED
    BY <1>5, <1>6, <1>7, <1>8, <1>9, PageTypedPartsNext DEF Page!IInv

LEMMA PageEffectsIInv ==
  ASSUME Page!Assumptions, Page!IInv, Page!Effects
  PROVE  Page!IInv'
  <1>1. /\ v2' = FALSE /\ v1' = v1
        /\ v9' = Page!runDiffCacheKey(v1, Page!DetailOf(v5')) /\ v10' = (v9' # v9)
        /\ UNCHANGED <<v7, v8, v15, v17, v18, v19>>
    BY DEF Page!Effects
  <1>2. PageDetailTyped /\ PageDiffTyped /\ PageRestTyped
    BY PageTypedParts DEF Page!IInv
  <1>3. v1 \in Page!Runs
    BY <1>2 DEF PageDetailTyped
  <1>4. ASSUME v2
        PROVE  PageDetailTyped' /\ Page!DetailAsFiled' /\ Page!ShownUnderItsKey' /\ Page!SelectionBelongs' /\ Page!LatestCovers'
               /\ v5' \in Page!Answers(Page!Worlds) \cup {None}
               /\ v16' \in [node : {"x", "y", None}, route : Page!Runs \cup {None}, by : {"route", "user"}]
    <2>1. /\ v5' = v7[v1] /\ Page!Idle # {} /\ Page!LoadDetail
          /\ v16' = Page!Reselected(Page!Reselected(v16, v1, Page!Detail), v1, Page!DetailOf(v5'))
      BY <1>4 DEF Page!Effects
    <2>2. v5' \in Page!Answers(Page!Worlds) \cup {None} /\ (v5' # None => v5'.tag = v1 /\ v5'.of = v1)
      BY <1>2, <1>3, <2>1 DEF PageDetailTyped, Page!IInv, Page!TypeOK, Page!CacheIsKeyed, Page!DetailAsFiled, Page!Runs
    <2>3. PageDetailTyped' /\ Page!DetailAsFiled'
      BY <1>1, <1>2, <2>1, <2>2, PageLoadDetailIs DEF PageDetailTyped, Page!IInv, Page!DetailAsFiled
    <2>4. Page!ShownUnderItsKey'
      BY <1>1, <2>2 DEF Page!ShownUnderItsKey
    <2>5. v16' \in [node : {"x", "y", None}, route : Page!Runs \cup {None}, by : {"route", "user"}]
          /\ (Page!DetailOf(v5') # None =>
                v16'.route = v1 /\ (v16'.by = "route" => v16'.node = Page!selectedRouteNodeId(v1, Page!DetailOf(v5'))))
      <3>1. PICK s \in [node : {"x", "y", None}, route : Page!Runs \cup {None}, by : {"route", "user"}] :
              s = Page!Reselected(v16, v1, Page!Detail)
        BY <1>2, <1>3, PageReselectedIs DEF PageRestTyped
      <3>2. v16' = Page!Reselected(s, v1, Page!DetailOf(v5'))
        BY <2>1, <3>1
      <3> QED
        BY <1>3, <3>2, PageReselectedIs
    <2>6. Page!SelectionBelongs'
      BY <1>1, <2>5 DEF Page!SelectionBelongs, Page!Detail
    <2>7. Page!LatestCovers'
      <3>1. v18 <= v8.n
        BY DEF Page!IInv, Page!LatestCovers
      <3> QED
        BY <1>1, <2>1, <3>1, PageLoadDetailIs DEF Page!LatestCovers
    <2> QED
      BY <2>2, <2>3, <2>4, <2>5, <2>6, <2>7
  <1>5. ASSUME ~v2
        PROVE  PageDetailTyped' /\ Page!DetailAsFiled' /\ Page!ShownUnderItsKey' /\ Page!SelectionBelongs' /\ Page!LatestCovers'
               /\ v5' \in Page!Answers(Page!Worlds) \cup {None}
               /\ v16' \in [node : {"x", "y", None}, route : Page!Runs \cup {None}, by : {"route", "user"}]
    <2>1. UNCHANGED <<v5, v3, v4, v6, v16>>
      BY <1>5 DEF Page!Effects
    <2>2. PageDetailTyped' /\ Page!DetailAsFiled'
      BY <1>1, <1>2, <2>1 DEF PageDetailTyped, Page!IInv, Page!DetailAsFiled, Page!InFlight
    <2>3. v5' \in Page!Answers(Page!Worlds) \cup {None}
      BY <2>2 DEF PageDetailTyped
    <2>4. Page!ShownUnderItsKey' /\ Page!SelectionBelongs' /\ Page!LatestCovers'
      BY <1>1, <1>5, <2>1 DEF Page!IInv, Page!ShownUnderItsKey, Page!SelectionBelongs, Page!LatestCovers, Page!Detail
    <2>5. v16' \in [node : {"x", "y", None}, route : Page!Runs \cup {None}, by : {"route", "user"}]
      BY <1>2, <2>1 DEF PageRestTyped
    <2> QED
      BY <2>2, <2>3, <2>4, <2>5
  <1>6. PageDetailTyped' /\ Page!DetailAsFiled' /\ Page!ShownUnderItsKey' /\ Page!SelectionBelongs' /\ Page!LatestCovers'
        /\ v5' \in Page!Answers(Page!Worlds) \cup {None}
        /\ v16' \in [node : {"x", "y", None}, route : Page!Runs \cup {None}, by : {"route", "user"}]
    BY <1>4, <1>5
  <1>7. PageRestTyped' /\ Page!CacheIsKeyed'
    BY <1>1, <1>2, <1>6 DEF PageRestTyped, Page!IInv, Page!TypeOK, Page!CacheIsKeyed
  <1>8. v9' \in Page!DiffKeys \cup {None}
    BY <1>1, <1>3, <1>6, PageKeyIs
  <1>9. /\ v13' \in Page!Diff!Answers({0}) \cup {None} /\ v14' \in BOOLEAN
        /\ v11' \in Page!Diff!InFlight' \cup {None} /\ v12' \in [Diffs -> Page!Diff!Fetches({0}) \cup {None}]
        /\ Page!DiffAsFiled' /\ (v13' # None => v13'.tag = v9)
    <2>1. CASE ~v10
      <3>1. UNCHANGED <<v11, v12, v13, v14>>
        BY <2>1 DEF Page!Effects
      <3> QED
        BY <1>1, <1>2, <2>1, <3>1 DEF PageDiffTyped, Page!IInv, Page!DiffAsFiled, Page!DiffFollows, Page!Diff!InFlight
    <2>2. CASE v10 /\ v9 = None
      <3>1. v11' = None /\ v14' = FALSE /\ v13' = None /\ v12' = v12
        BY <2>2 DEF Page!Effects, Page!LoadDiff
      <3> QED
        BY <1>1, <1>2, <3>1 DEF PageDiffTyped, Page!IInv, Page!DiffAsFiled, Page!Diff!InFlight
    <2>3. CASE v10 /\ v9 # None
      <3>1. v13' = v15[v9] /\ Page!StartDiff /\ Page!Diff!Idle # {} /\ v9 \in Page!DiffKeys
        BY <1>2, <2>3 DEF Page!Effects, Page!LoadDiff, PageDiffTyped
      <3>2. v13' \in Page!Diff!Answers({0}) \cup {None} /\ (v13' # None => v13'.tag = v9 /\ v13'.of = v9)
        BY <1>2, <3>1 DEF PageDiffTyped, Page!IInv, Page!DiffAsFiled, Page!DiffFollows, Page!Diff!CacheIsKeyed
      <3>3. Page!DiffAsFiled'
        BY <1>1, <2>3, <3>1, <3>2, PageStartDiffIs DEF Page!IInv, Page!DiffAsFiled
      <3> QED
        BY <2>3, <3>1, <3>2, <3>3, PageStartDiffIs
    <2> QED
      BY <1>2, <2>1, <2>2, <2>3 DEF PageDiffTyped
  <1>10. PageDiffTyped'
    BY <1>1, <1>2, <1>8, <1>9 DEF PageDiffTyped
  <1>11. Page!DiffFollows'
    BY <1>1, <1>9 DEF Page!IInv, Page!DiffFollows, Page!Diff!CacheIsKeyed, Page!Detail
  <1> QED
    BY <1>6, <1>7, <1>9, <1>10, <1>11, PageTypedPartsNext DEF Page!IInv

LEMMA PageRefreshIInv ==
  ASSUME Page!Assumptions, Page!IInv, Page!refreshRunResources, v16' = v16, ~v2,
         v17' \in {v17, None}, v18' \in {v18, v8.n}, v19' \in 0 .. MaxOps
  PROVE  Page!IInv'
  <1>1. /\ Page!Idle # {} /\ Page!LoadDetail
        /\ UNCHANGED <<v1, v2, v5, v7, v8, v9, v10, v13, v15>>
    BY DEF Page!refreshRunResources
  <1>2. PageDetailTyped /\ PageDiffTyped /\ PageRestTyped
    BY PageTypedParts DEF Page!IInv
  <1>3. PageDetailTyped' /\ Page!DetailAsFiled' /\ Page!CacheIsKeyed' /\ Page!ShownUnderItsKey'
    BY <1>1, <1>2, PageLoadDetailIs DEF PageDetailTyped, Page!IInv, Page!TypeOK, Page!DetailAsFiled, Page!CacheIsKeyed, Page!ShownUnderItsKey
  <1>4. PageDiffTyped' /\ Page!DiffAsFiled'
    <2>1. CASE v9 = None
      <3>1. UNCHANGED <<v11, v12, v14>>
        BY <2>1 DEF Page!refreshRunResources
      <3> QED
        BY <1>1, <1>2, <3>1 DEF PageDiffTyped, Page!IInv, Page!DiffAsFiled, Page!Diff!InFlight
    <2>2. CASE v9 # None
      <3>1. Page!Diff!Idle # {} /\ Page!StartDiff
        BY <2>2 DEF Page!refreshRunResources
      <3> QED
        BY <1>1, <1>2, <2>2, <3>1, PageStartDiffIs DEF PageDiffTyped, Page!IInv, Page!DiffAsFiled
    <2> QED
      BY <2>1, <2>2
  <1>5. v8.n \in 0 .. MaxRunWorld /\ v8.n \in Nat /\ v18 <= v8.n
    BY <1>2, PageWorldIs DEF PageDetailTyped, Page!IInv, Page!LatestCovers
  <1>6. PageRestTyped'
    <2>1. v18' \in 0 .. MaxRunWorld /\ v17' \in {"mine", "ambient", None}
      BY <1>2, <1>5 DEF PageRestTyped
    <2> QED
      BY <1>2, <2>1 DEF PageRestTyped
  <1>7. Page!DiffFollows' /\ Page!SelectionBelongs'
    BY <1>1 DEF Page!IInv, Page!DiffFollows, Page!SelectionBelongs, Page!Diff!CacheIsKeyed, Page!Detail
  <1>8. Page!LatestCovers'
    <2>1. v18' <= v8.n
      BY <1>5
    <2> QED
      BY <1>1, <2>1, PageLoadDetailIs DEF Page!LatestCovers
  <1> QED
    BY <1>3, <1>4, <1>6, <1>7, <1>8, PageTypedPartsNext DEF Page!IInv

LEMMA PageChangeIInv == ASSUME Page!Assumptions, Page!IInv, Page!Change PROVE Page!IInv'
  <1>1. v8' \in Page!Worlds /\ v8'.n = v8.n + 1 /\ v17' \in {"mine", "ambient", None}
        /\ UNCHANGED <<v1, v2, v3, v4, v5, v6, v7, Page!diffVars, v16, v18, v19>>
    BY DEF Page!Change
  <1>2. PageDetailTyped /\ PageDiffTyped /\ PageRestTyped
    BY PageTypedParts DEF Page!IInv
  <1>3. PageDetailTyped' /\ PageDiffTyped' /\ PageRestTyped' /\ Page!CacheIsKeyed'
    BY <1>1, <1>2 DEF PageDetailTyped, PageDiffTyped, PageRestTyped, Page!diffVars, Page!InFlight, Page!Diff!InFlight, Page!IInv, Page!TypeOK, Page!CacheIsKeyed
  <1>4. Page!ShownUnderItsKey' /\ Page!DetailAsFiled' /\ Page!DiffAsFiled' /\ Page!DiffFollows' /\ Page!SelectionBelongs'
    BY <1>1 DEF Page!IInv, Page!ShownUnderItsKey, Page!DetailAsFiled, Page!DiffAsFiled, Page!DiffFollows, Page!SelectionBelongs, Page!Detail,
       Page!diffVars, Page!InFlight, Page!Diff!InFlight, Page!Diff!CacheIsKeyed
  <1>5. Page!LatestCovers'
    <2>1. v18 \in Nat /\ v8.n \in Nat /\ v18 <= v8.n
      BY <1>2, PageWorldIs DEF PageDetailTyped, PageRestTyped, Page!IInv, Page!LatestCovers, Page!Assumptions
    <2>2. v18 <= v8.n + 1
      BY <2>1
    <2> QED
      BY <1>1, <2>2 DEF Page!IInv, Page!LatestCovers
  <1> QED
    BY <1>3, <1>4, <1>5, PageTypedPartsNext DEF Page!IInv

LEMMA PageSampledIInv ==
  ASSUME Page!Assumptions, Page!IInv, NEW l \in Loads, Page!DetailSampled(l)
  PROVE  Page!IInv'
  <1>1. /\ l \in Page!InFlight /\ v4' = [v4 EXCEPT ![l].seen = v8]
        /\ UNCHANGED <<v1, v2, v3, v5, v6, v7, v8, Page!diffVars, v16, v17, v18, v19>>
    BY DEF Page!DetailSampled, Page!Sample, Page!Asked
  <1>2. PageDetailTyped /\ PageDiffTyped /\ PageRestTyped
    BY PageTypedParts DEF Page!IInv
  <1>3. v4[l] \in Page!Fetches(Page!Worlds) /\ v8 \in Page!Worlds
    BY <1>1, <1>2 DEF PageDetailTyped, Page!InFlight
  <1>4. [v4[l] EXCEPT !.seen = v8] \in Page!Fetches(Page!Worlds)
    BY <1>3 DEF Page!Fetches
  <1>5. v4' \in [Loads -> Page!Fetches(Page!Worlds) \cup {None}] /\ v4'[l] = [v4[l] EXCEPT !.seen = v8]
        /\ \A i \in Loads \ {l} : v4'[i] = v4[i]
    BY <1>1, <1>2, <1>4 DEF PageDetailTyped
  <1>6. v4'[l] # None /\ v4'[l].seen = v8 /\ v4'[l].key = v4[l].key /\ v4'[l].of = v4[l].of
    BY <1>3, <1>4, <1>5, PageApart DEF Page!Fetches
  <1>7. Page!InFlight' = Page!InFlight
    BY <1>1, <1>5, <1>6 DEF Page!InFlight
  <1>8. PageDetailTyped' /\ PageDiffTyped' /\ PageRestTyped' /\ Page!CacheIsKeyed'
    BY <1>1, <1>2, <1>5, <1>7 DEF PageDetailTyped, PageDiffTyped, PageRestTyped, Page!diffVars, Page!Diff!InFlight, Page!IInv, Page!TypeOK, Page!CacheIsKeyed
  <1>9. Page!DetailAsFiled'
    BY <1>1, <1>5, <1>6, <1>7 DEF Page!IInv, Page!DetailAsFiled, Page!InFlight
  <1>10. Page!ShownUnderItsKey' /\ Page!DiffAsFiled' /\ Page!DiffFollows' /\ Page!SelectionBelongs'
    BY <1>1 DEF Page!IInv, Page!ShownUnderItsKey, Page!DiffAsFiled, Page!DiffFollows, Page!SelectionBelongs, Page!Detail,
       Page!diffVars, Page!Diff!InFlight, Page!Diff!CacheIsKeyed
  <1>11. Page!LatestCovers'
    <2>1. v18 <= v8.n /\ (v3 # None => v3 \in Loads)
      BY <1>2 DEF PageDetailTyped, Page!InFlight, Page!IInv, Page!LatestCovers
    <2>2. v3 # None => v4'[v3].key = v4[v3].key
            /\ (v4'[v3].seen = v4[v3].seen \/ v4'[v3].seen.n = v8.n)
      BY <1>5, <1>6, <2>1
    <2> QED
      BY <1>1, <2>1, <2>2 DEF Page!IInv, Page!LatestCovers
  <1> QED
    BY <1>8, <1>9, <1>10, <1>11, PageTypedPartsNext DEF Page!IInv

\* A load of the detail is over, and with it the latest if it was that.
LEMMA PageSettlesIs ==
  ASSUME Page!Assumptions, Page!IInv, NEW l \in Page!InFlight, Page!Settles(l)
  PROVE  /\ v4' \in [Loads -> Page!Fetches(Page!Worlds) \cup {None}]
         /\ v3' \in Page!InFlight' \cup {None}
         /\ v3' # None => v3' = v3 /\ v3 # l /\ v4'[v3] = v4[v3]
         /\ v3' = None => v3 = None \/ v3 = l
         /\ \A i \in Page!InFlight' : v4'[i] = v4[i] /\ i \in Page!InFlight
  <1>1. v4' = [v4 EXCEPT ![l] = None] /\ v3' = IF v3 = l THEN None ELSE v3
    BY DEF Page!Settles, Page!IsLatest
  <1>2. v4 \in [Loads -> Page!Fetches(Page!Worlds) \cup {None}] /\ v3 \in Page!InFlight \cup {None} /\ l \in Loads
    BY PageTypedParts DEF Page!IInv, PageDetailTyped, Page!InFlight
  <1>3. v4' \in [Loads -> Page!Fetches(Page!Worlds) \cup {None}]
    BY <1>1, <1>2
  <1>4. \A i \in Loads \ {l} : v4'[i] = v4[i]
    BY <1>1, <1>2
  <1>5. Page!InFlight' = Page!InFlight \ {l}
    BY <1>1, <1>2 DEF Page!InFlight
  <1> QED
    BY <1>1, <1>2, <1>3, <1>4, <1>5 DEF Page!InFlight

LEMMA PageLandsIInv ==
  ASSUME Page!Assumptions, Page!IInv, NEW l \in Loads, Page!DetailLands(l)
  PROVE  Page!IInv'
  <1>1. /\ l \in Page!InFlight \ Page!Asked /\ v5' = Page!Adopted(l) /\ v7' = Page!Stored(l) /\ Page!Settles(l)
        /\ UNCHANGED <<v1, v2, v6, v8, v11, v12, v13, v14, v15, v17, v18, v19>>
        /\ v9' = Page!runDiffCacheKey(v1, Page!DetailOf(v5')) /\ v10' = (v10 \/ v9' # v9)
        /\ v16' = IF v5' = v5 THEN v16 ELSE Page!Reselected(v16, v1, Page!DetailOf(v5'))
    BY DEF Page!DetailLands, Page!Land, Page!Rendered
  <1>2. PageDetailTyped /\ PageDiffTyped /\ PageRestTyped
    BY PageTypedParts DEF Page!IInv
  <1>3. v4[l] \in Page!Fetches(Page!Worlds) /\ v4[l].seen # None /\ v4[l].of = v4[l].key
    BY <1>1, <1>2 DEF PageDetailTyped, Page!InFlight, Page!Asked, Page!IInv, Page!DetailAsFiled
  <1>4. /\ Page!Answer(v4[l]) \in Page!Answers(Page!Worlds) /\ Page!Answer(v4[l]) # None
        /\ Page!Answer(v4[l]).tag = v4[l].key /\ Page!Answer(v4[l]).of = v4[l].key
        /\ Page!Answer(v4[l]).seen = v4[l].seen /\ v4[l].seen \in Page!Worlds
    <2>1. v4[l].seen \in Page!Worlds /\ v4[l].key \in PageRuns /\ v4[l].of \in PageRuns
      BY <1>3 DEF Page!Fetches
    <2>2. Page!Answer(v4[l]) \in Page!Answers(Page!Worlds)
      BY <2>1 DEF Page!Answer, Page!Answers
    <2> QED
      BY <1>3, <2>1, <2>2, PageApart DEF Page!Answer
  <1>5. /\ v5' = v5 \/ (v4[l].key = v1 /\ v5' = Page!Answer(v4[l]))
        /\ v5' # v5 => v5' = Page!Answer(v4[l]) /\ (v3 = l \/ v5 = None)
        /\ v4[l].key = v1 /\ v3 = l => v5' = Page!Answer(v4[l])
    BY <1>1 DEF Page!Adopted, Page!IsActive, Page!IsLatest
  <1>6. v7' \in [Page!Runs -> Page!Answers(Page!Worlds) \cup {None}] /\ Page!CacheIsKeyed'
        /\ \A k \in Page!Runs : v7'[k] # None => v7'[k].of = k
    <2>1. CASE v4[l].key = v1 /\ v3 = l
      <3>1. v7' = [v7 EXCEPT ![v1] = Page!Answer(v4[l])]
        BY <1>1, <2>1 DEF Page!Stored, Page!IsActive, Page!IsLatest
      <3> QED
        BY <1>2, <1>4, <2>1, <3>1 DEF PageDetailTyped, Page!IInv, Page!TypeOK, Page!CacheIsKeyed, Page!DetailAsFiled, Page!Runs
    <2>2. CASE ~(v4[l].key = v1 /\ v3 = l)
      <3>1. v7' = v7
        BY <1>1, <2>2 DEF Page!Stored, Page!IsActive, Page!IsLatest
      <3> QED
        BY <1>2, <3>1 DEF PageDetailTyped, Page!IInv, Page!TypeOK, Page!CacheIsKeyed, Page!DetailAsFiled
    <2> QED
      BY <2>1, <2>2
  <1>7. v5' \in Page!Answers(Page!Worlds) \cup {None} /\ (v5' # None => v5'.of = v5'.tag)
    BY <1>2, <1>4, <1>5 DEF PageDetailTyped, Page!IInv, Page!DetailAsFiled
  <1>8. PageDetailTyped'
    BY <1>1, <1>2, <1>6, <1>7, PageSettlesIs DEF PageDetailTyped
  <1>9. Page!DetailAsFiled'
    BY <1>1, <1>6, <1>7, PageSettlesIs DEF Page!IInv, Page!DetailAsFiled
  <1>10. Page!ShownUnderItsKey'
    BY <1>1, <1>4, <1>5 DEF Page!IInv, Page!ShownUnderItsKey
  <1>11. v9' \in Page!DiffKeys \cup {None}
    BY <1>1, <1>2, <1>7, PageKeyIs DEF PageDetailTyped
  <1>12. PageDiffTyped' /\ Page!DiffAsFiled'
    BY <1>1, <1>2, <1>11 DEF PageDiffTyped, Page!IInv, Page!DiffAsFiled, Page!Diff!InFlight
  <1>13. Page!DiffFollows'
    BY <1>1 DEF Page!IInv, Page!DiffFollows, Page!Diff!CacheIsKeyed, Page!Detail
  <1>14. PageRestTyped' /\ Page!SelectionBelongs'
    <2>1. CASE v5' = v5
      BY <1>1, <1>2, <2>1 DEF PageRestTyped, Page!IInv, Page!SelectionBelongs, Page!Detail
    <2>2. CASE v5' # v5
      <3>1. v16' = Page!Reselected(v16, v1, Page!DetailOf(v5')) /\ v1 \in Page!Runs
        BY <1>1, <1>2, <2>2 DEF PageDetailTyped
      <3>2. v16' \in [node : {"x", "y", None}, route : Page!Runs \cup {None}, by : {"route", "user"}]
            /\ (Page!DetailOf(v5') # None =>
                  v16'.route = v1 /\ (v16'.by = "route" => v16'.node = Page!selectedRouteNodeId(v1, Page!DetailOf(v5'))))
        BY <1>2, <3>1, PageReselectedIs DEF PageRestTyped
      <3> QED
        BY <1>1, <1>2, <3>2 DEF PageRestTyped, Page!SelectionBelongs, Page!Detail
    <2> QED
      BY <2>1, <2>2
  <1>15. Page!LatestCovers'
    <2>1. CASE v3 = l
      <3>1. v3' = None /\ v3 # None
        BY <1>1, <2>1, PageSettlesIs, PageApart
      <3>2. ~v2 => v5' = Page!Answer(v4[l]) /\ v4[l].seen.n >= v18
        BY <1>3, <1>5, <2>1, <3>1 DEF Page!IInv, Page!LatestCovers
      <3> QED
        BY <1>1, <1>4, <3>1, <3>2 DEF Page!IInv, Page!LatestCovers
    <2>2. CASE v3 # l
      <3>1. v3' = v3 /\ (v3 # None => v4'[v3] = v4[v3])
        BY <1>1, <2>2, PageSettlesIs
      <3>2. ~v2 /\ v3 = None /\ ~v6 => v5' = v5
        BY <1>5, <2>2 DEF Page!IInv, Page!LatestCovers
      <3> QED
        BY <1>1, <3>1, <3>2 DEF Page!IInv, Page!LatestCovers
    <2> QED
      BY <2>1, <2>2
  <1> QED
    BY <1>6, <1>8, <1>9, <1>10, <1>12, <1>13, <1>14, <1>15, PageTypedPartsNext DEF Page!IInv

LEMMA PageFailsIInv ==
  ASSUME Page!Assumptions, Page!IInv, NEW l \in Loads, Page!DetailFails(l)
  PROVE  Page!IInv'
  <1>1. /\ l \in Page!InFlight /\ v6' = (v6 \/ v3 = l) /\ Page!Settles(l)
        /\ UNCHANGED <<v1, v2, v5, v7, v8, Page!diffVars, v16, v17, v18, v19>>
    BY DEF Page!DetailFails, Page!Fail, Page!IsLatest
  <1>2. PageDetailTyped /\ PageDiffTyped /\ PageRestTyped /\ v6' \in BOOLEAN
    BY <1>1, PageTypedParts DEF Page!IInv
  <1>3. PageDetailTyped' /\ Page!DetailAsFiled'
    BY <1>1, <1>2, PageSettlesIs DEF PageDetailTyped, Page!IInv, Page!DetailAsFiled
  <1>4. PageDiffTyped' /\ PageRestTyped' /\ Page!CacheIsKeyed'
    BY <1>1, <1>2 DEF PageDiffTyped, PageRestTyped, Page!diffVars, Page!Diff!InFlight, Page!IInv, Page!TypeOK, Page!CacheIsKeyed
  <1>5. Page!ShownUnderItsKey' /\ Page!DiffAsFiled' /\ Page!DiffFollows' /\ Page!SelectionBelongs'
    BY <1>1 DEF Page!IInv, Page!ShownUnderItsKey, Page!DiffAsFiled, Page!DiffFollows, Page!SelectionBelongs, Page!Detail,
       Page!diffVars, Page!Diff!InFlight, Page!Diff!CacheIsKeyed
  <1>6. Page!LatestCovers'
    BY <1>1, PageSettlesIs DEF Page!IInv, Page!LatestCovers
  <1> QED
    BY <1>3, <1>4, <1>5, <1>6, PageTypedPartsNext DEF Page!IInv

\* A load of the diff is over; what it brought is shown under its key only.
LEMMA PageDiffSettlesIInv ==
  ASSUME Page!Assumptions, Page!IInv, NEW l \in Diffs, Page!DiffLands(l) \/ Page!DiffFails(l)
  PROVE  Page!IInv'
  <1>1. /\ l \in Page!Diff!InFlight /\ Page!Diff!Settles(l) /\ Page!Elsewhere /\ UNCHANGED <<v9, v10>>
        /\ \/ /\ l \notin Page!Diff!Asked /\ v14' = v14
              /\ v13' = Page!Diff!Adopted(l) /\ v15' = Page!Diff!Stored(l)
           \/ UNCHANGED <<v13, v15>> /\ v14' = (v14 \/ v11 = l)
    BY DEF Page!DiffLands, Page!DiffFails, Page!Diff!Land, Page!Diff!Fail, Page!Diff!IsLatest
  <1>2. PageDetailTyped /\ PageDiffTyped /\ PageRestTyped
    BY PageTypedParts DEF Page!IInv
  <1>3. UNCHANGED <<v1, v2, v3, v4, v5, v6, v7, v8, v16, v17, v18, v19>>
    BY <1>1 DEF Page!Elsewhere, Page!panelVars
  <1>4. PageDetailTyped' /\ PageRestTyped' /\ Page!CacheIsKeyed'
    BY <1>2, <1>3 DEF PageDetailTyped, PageRestTyped, Page!InFlight, Page!IInv, Page!TypeOK, Page!CacheIsKeyed
  <1>5. Page!ShownUnderItsKey' /\ Page!DetailAsFiled' /\ Page!SelectionBelongs' /\ Page!LatestCovers'
    BY <1>3 DEF Page!IInv, Page!ShownUnderItsKey, Page!DetailAsFiled, Page!SelectionBelongs, Page!LatestCovers, Page!Detail, Page!InFlight
  <1>6. /\ v12' \in [Diffs -> Page!Diff!Fetches({0}) \cup {None}]
        /\ v11' \in Page!Diff!InFlight' \cup {None}
        /\ \A i \in Page!Diff!InFlight' : v12'[i] = v12[i] /\ i \in Page!Diff!InFlight
    <2>1. v12' = [v12 EXCEPT ![l] = None] /\ v11' = IF v11 = l THEN None ELSE v11
      BY <1>1 DEF Page!Diff!Settles, Page!Diff!IsLatest
    <2>2. v12 \in [Diffs -> Page!Diff!Fetches({0}) \cup {None}] /\ v11 \in Page!Diff!InFlight \cup {None}
      BY <1>2 DEF PageDiffTyped
    <2>3. Page!Diff!InFlight' = Page!Diff!InFlight \ {l} /\ \A i \in Diffs \ {l} : v12'[i] = v12[i]
      BY <2>1, <2>2 DEF Page!Diff!InFlight
    <2> QED
      BY <2>1, <2>2, <2>3 DEF Page!Diff!InFlight
  <1>7. v12[l] \in Page!Diff!Fetches({0}) /\ v12[l].of = v12[l].key
    BY <1>1, <1>2 DEF PageDiffTyped, Page!Diff!InFlight, Page!IInv, Page!DiffAsFiled
  <1>8. CASE /\ l \notin Page!Diff!Asked /\ v14' = v14
             /\ v13' = Page!Diff!Adopted(l) /\ v15' = Page!Diff!Stored(l)
    <2>1. v12[l].seen = 0 /\ v12[l].key \in Page!DiffKeys
      BY <1>1, <1>7, <1>8 DEF Page!Diff!Fetches, Page!Diff!Asked
    <2>2. PICK a \in Page!Diff!Answers({0}) : a = Page!Diff!Answer(v12[l]) /\ a.tag = v12[l].key /\ a.of = a.tag
      <3>1. [tag |-> v12[l].key, of |-> v12[l].of, seen |-> v12[l].seen] \in Page!Diff!Answers({0})
        BY <1>7, <2>1 DEF Page!Diff!Answers
      <3> QED
        BY <1>7, <3>1 DEF Page!Diff!Answer
    <2>3. v13' = v13 \/ (v12[l].key = v9 /\ v13' = a)
      BY <1>8, <2>2 DEF Page!Diff!Adopted, Page!Diff!IsActive
    <2>4. v15' = v15 \/ (v12[l].key = v9 /\ v15' = [v15 EXCEPT ![v9] = a])
      BY <1>8, <2>2 DEF Page!Diff!Stored, Page!Diff!IsActive
    <2>5. v13' \in Page!Diff!Answers({0}) \cup {None} /\ (v13' # None => v13'.of = v13'.tag)
          /\ (v13' # v13 => v13'.tag = v9)
      BY <1>2, <2>2, <2>3 DEF PageDiffTyped, Page!IInv, Page!DiffAsFiled
    <2>6. v15' \in [Page!DiffKeys -> Page!Diff!Answers({0}) \cup {None}]
          /\ \A k \in Page!DiffKeys : v15'[k] # None => v15'[k].of = k /\ v15'[k].tag = k
      BY <1>2, <2>1, <2>2, <2>4 DEF PageDiffTyped, Page!IInv, Page!DiffAsFiled, Page!DiffFollows, Page!Diff!CacheIsKeyed
    <2>7. PageDiffTyped'
      BY <1>1, <1>2, <1>6, <1>8, <2>5, <2>6 DEF PageDiffTyped
    <2>8. Page!DiffAsFiled'
      BY <1>6, <2>5, <2>6 DEF Page!IInv, Page!DiffAsFiled
    <2>9. Page!DiffFollows'
      BY <1>1, <1>3, <2>5, <2>6 DEF Page!IInv, Page!DiffFollows, Page!Diff!CacheIsKeyed, Page!Detail
    <2> QED
      BY <1>4, <1>5, <2>7, <2>8, <2>9, PageTypedPartsNext DEF Page!IInv
  <1>9. CASE UNCHANGED <<v13, v15>> /\ v14' = (v14 \/ v11 = l)
    <2>1. v14' \in BOOLEAN
      BY <1>9
    <2>2. PageDiffTyped' /\ Page!DiffAsFiled'
      BY <1>1, <1>2, <1>6, <1>9, <2>1 DEF PageDiffTyped, Page!IInv, Page!DiffAsFiled
    <2>3. Page!DiffFollows'
      BY <1>1, <1>3, <1>9 DEF Page!IInv, Page!DiffFollows, Page!Diff!CacheIsKeyed, Page!Detail
    <2> QED
      BY <1>4, <1>5, <2>2, <2>3, PageTypedPartsNext DEF Page!IInv
  <1> QED
    BY <1>1, <1>8, <1>9

\* A step of the selection alone.
LEMMA PageSelectsIInv ==
  ASSUME Page!Assumptions, Page!IInv, Page!toggleNode \/ Page!clearSelection
  PROVE  Page!IInv'
  <1>1. UNCHANGED <<v1, v2, v3, v4, v5, v6, v7, v8, Page!diffVars, v17, v18>>
        /\ v19 < MaxOps /\ v19' = v19 + 1
    BY DEF Page!toggleNode, Page!clearSelection, Page!Operates, Page!panelVars
  <1>2. PageDetailTyped /\ PageDiffTyped /\ PageRestTyped
    BY PageTypedParts DEF Page!IInv
  <1>3. v16' \in [node : {"x", "y", None}, route : Page!Runs \cup {None}, by : {"route", "user"}]
        /\ v16'.by = "user" /\ (v16'.route = v16.route \/ v16'.route = v1)
    <2>1. CASE Page!toggleNode
      <3>1. PICK node \in Page!NodesOf(Page!Detail) :
              v16' = [node |-> IF v16.node = node THEN None ELSE node, route |-> v1, by |-> "user"]
        BY <2>1 DEF Page!toggleNode
      <3> QED
        BY <1>2, <3>1 DEF Page!NodesOf, PageDetailTyped
    <2>2. CASE Page!clearSelection
      BY <1>2, <2>2 DEF Page!clearSelection, PageRestTyped
    <2> QED
      BY <2>1, <2>2
  <1>4. v19' \in 0 .. MaxOps
    BY <1>1, <1>2 DEF PageRestTyped, Page!Assumptions
  <1>5. PageDetailTyped' /\ PageDiffTyped' /\ PageRestTyped' /\ Page!CacheIsKeyed'
    BY <1>1, <1>2, <1>3, <1>4 DEF PageDetailTyped, PageDiffTyped, PageRestTyped, Page!diffVars, Page!InFlight, Page!Diff!InFlight,
       Page!IInv, Page!TypeOK, Page!CacheIsKeyed
  <1>6. Page!ShownUnderItsKey' /\ Page!DetailAsFiled' /\ Page!DiffAsFiled' /\ Page!DiffFollows' /\ Page!LatestCovers'
    BY <1>1 DEF Page!IInv, Page!ShownUnderItsKey, Page!DetailAsFiled, Page!DiffAsFiled, Page!DiffFollows, Page!LatestCovers, Page!Detail,
       Page!diffVars, Page!InFlight, Page!Diff!InFlight, Page!Diff!CacheIsKeyed
  <1>7. Page!SelectionBelongs'
    BY <1>1, <1>3 DEF Page!IInv, Page!SelectionBelongs, Page!Detail
  <1> QED
    BY <1>5, <1>6, <1>7, PageTypedPartsNext DEF Page!IInv

LEMMA PageStandsIInv ==
  ASSUME Page!Assumptions, Page!IInv, UNCHANGED <<Page!panelVars, Page!diffVars, v16, v18, v19>>, v17' \in {v17, None}
  PROVE  Page!IInv'
  <1>1. UNCHANGED <<v1, v2, v3, v4, v5, v6, v7, v8, Page!diffVars, v16, v18, v19>>
    BY DEF Page!panelVars
  <1>2. PageDetailTyped /\ PageDiffTyped /\ PageRestTyped
    BY PageTypedParts DEF Page!IInv
  <1>3. PageDetailTyped' /\ PageDiffTyped' /\ PageRestTyped' /\ Page!CacheIsKeyed'
    BY <1>1, <1>2 DEF PageDetailTyped, PageDiffTyped, PageRestTyped, Page!diffVars, Page!InFlight, Page!Diff!InFlight,
       Page!IInv, Page!TypeOK, Page!CacheIsKeyed
  <1>4. Page!ShownUnderItsKey' /\ Page!DetailAsFiled' /\ Page!DiffAsFiled' /\ Page!DiffFollows' /\ Page!LatestCovers' /\ Page!SelectionBelongs'
    BY <1>1 DEF Page!IInv, Page!ShownUnderItsKey, Page!DetailAsFiled, Page!DiffAsFiled, Page!DiffFollows, Page!LatestCovers, Page!SelectionBelongs,
       Page!Detail, Page!diffVars, Page!InFlight, Page!Diff!InFlight, Page!Diff!CacheIsKeyed
  <1> QED
    BY <1>3, <1>4, PageTypedPartsNext DEF Page!IInv

LEMMA PageNextIInv == ASSUME Page!Assumptions, Page!IInv, [Page!Next]_(Page!vars) PROVE Page!IInv'
  <1>1. CASE Page!Press
    <2>1. v19' \in 0 .. MaxOps
      <3>1. v19 \in 0 .. MaxOps /\ v19 < MaxOps /\ v19' = v19 + 1
        BY <1>1, PageTypedParts DEF Page!Press, Page!Operates, Page!IInv, PageRestTyped
      <3> QED
        BY <3>1 DEF Page!Assumptions
    <2> QED
      BY <1>1, <2>1, PageRefreshIInv DEF Page!Press
  <1>2. CASE Page!Hear
    <2>1. CASE Page!Matches(v17)
      <3>1. v19' \in 0 .. MaxOps
        BY <1>2, PageTypedParts DEF Page!Hear, Page!IInv, PageRestTyped
      <3> QED
        BY <1>2, <2>1, <3>1, PageRefreshIInv DEF Page!Hear
    <2>2. CASE ~Page!Matches(v17)
      BY <1>2, <2>2, PageStandsIInv DEF Page!Hear
    <2> QED
      BY <2>1, <2>2
  <1>3. CASE UNCHANGED Page!vars
    BY <1>3, PageStandsIInv DEF Page!vars
  <1> QED
    BY <1>1, <1>2, <1>3, PageNavigateIInv, PageEffectsIInv, PageChangeIInv, PageSampledIInv, PageLandsIInv, PageFailsIInv,
       PageDiffSettlesIInv, PageSelectsIInv DEF Page!Next

LEMMA PageIsTrue == ASSUME Page!Assumptions, Page!IInv PROVE Page!RunPageIsTrue
  <1>1. PageDetailTyped
    BY PageTypedParts DEF Page!IInv
  <1>2. Page!PanelsBelong
    <2>1. ASSUME ~v2, ~v10, v13 # None
          PROVE  /\ Page!Detail # None
                 /\ v13.tag = <<v1, Page!PathOf(v1, Page!Detail.seen)>> /\ v13.of = v13.tag
      <3>1. v13.tag = v9 /\ v13.of = v13.tag /\ v9 = Page!runDiffCacheKey(v1, Page!Detail)
        BY <2>1 DEF Page!IInv, Page!DiffFollows, Page!DiffAsFiled
      <3>2. v9 # None
        BY <2>1, <3>1, PageTypedParts, PageApart DEF Page!IInv, PageDiffTyped, Page!Diff!Answers
      <3>3. Page!Detail # None /\ v9 = <<v1, Page!PathOf(Page!Detail.of, Page!Detail.seen)>>
        BY <3>1, <3>2 DEF Page!runDiffCacheKey
      <3>4. Page!Detail.of = v1
        BY <2>1, <3>3 DEF Page!Detail, Page!DetailOf, Page!IInv, Page!ShownUnderItsKey, Page!DetailAsFiled
      <3> QED
        BY <3>1, <3>3, <3>4
    <2> QED
      BY <2>1 DEF Page!PanelsBelong, Page!IInv, Page!ShownUnderItsKey, Page!DetailAsFiled
  <1>3. Page!FreshAtRest
    BY DEF Page!FreshAtRest, Page!Loading, Page!IInv, Page!LatestCovers
  <1> QED
    BY <1>2, <1>3 DEF Page!RunPageIsTrue, Page!IInv

(***************************************************************************)
(* The forms that sling (SlingForms).                                      *)
(***************************************************************************)
\* The finite sets of the instance are those of the module.
LEMMA FormsSameSets == ASSUME NEW S
    PROVE  (Forms!IsFiniteSet(S) <=> IsFiniteSet(S)) /\ Forms!Cardinality(S) = Cardinality(S)
  <1>1. Forms!IsFiniteSet(S) <=> IsFiniteSet(S)
    BY DEF Forms!IsFiniteSet, IsFiniteSet
  <1>2. Forms!Cardinality(S) = Cardinality(S)
    BY DEF Forms!Cardinality, Cardinality
  <1> QED
    BY <1>1, <1>2

\* What a send is, and a stage of its items.
LEMMA FormsBatchIs ==
  ASSUME Forms!Assumptions, Forms!IInv, Forms!Sending
  PROVE  /\ v3 \in Forms!Batches
         /\ v3.asked \subseteq Slingable /\ v3.todo \subseteq Slingable /\ v3.failed \subseteq Slingable
         /\ v3.config \in BOOLEAN /\ v3.before \in [Slingable -> 0 .. MaxTries]
         /\ Forms!InFlight \subseteq Slingable /\ v3.at \in [Forms!InFlight -> {"sling", "record"}]
         /\ Forms!IsFiniteSet(Forms!InFlight) /\ Forms!Cardinality(Forms!InFlight) \in Nat
  <1>1. v3 \in Forms!Batches
    BY DEF Forms!IInv, Forms!TypeOK, Forms!Sending
  <1>2. v3.at \in UNION {[chunk -> {"sling", "record"}] : chunk \in SUBSET Slingable}
    BY <1>1 DEF Forms!Batches
  <1>3. PICK chunk \in SUBSET Slingable : v3.at \in [chunk -> {"sling", "record"}]
    BY <1>2
  <1>4. Forms!InFlight = chunk
    BY <1>3 DEF Forms!InFlight
  <1>5. Forms!IsFiniteSet(Forms!InFlight)
    BY <1>4, FS_Subset, FormsSameSets DEF Forms!Assumptions
  <1> QED
    BY <1>1, <1>3, <1>4, <1>5, FS_CardinalityType, FormsSameSets DEF Forms!Batches

LEMMA FormsAtIs ==
  ASSUME NEW chunk \in SUBSET Slingable, NEW f \in [chunk -> {"sling", "record"}]
  PROVE  f \in UNION {[c -> {"sling", "record"}] : c \in SUBSET Slingable}
  OBVIOUS

LEMMA FormsInitIInv == ASSUME Forms!Assumptions, Forms!Init PROVE Forms!IInv
  <1>1. ~Forms!Sending
    BY DEF Forms!Init, Forms!Sending
  <1>2. 0 \in 0 .. MaxTries /\ v5 \in [Slingable -> 0 .. MaxTries]
    BY DEF Forms!Init, Forms!Assumptions
  <1>3. Forms!TypeOK
    <2>1. {v1, v2, v4, v6} \subseteq SUBSET Slingable /\ {v9, v10, v11} \subseteq Nat
      BY DEF Forms!Init
    <2> QED
      BY <1>1, <1>2, <2>1 DEF Forms!Init, Forms!TypeOK
  <1>4. Forms!BatchIsWhole /\ Forms!SlingIsExcused
    BY <1>1 DEF Forms!Init, Forms!BatchIsWhole, Forms!SlingIsExcused
  <1>5. Forms!OrphansAreTold /\ Forms!OrphansOnTheWay
    <2>1. v9 = 0 /\ v10 = 0 /\ v11 = 0 /\ v7 = "closed"
      BY DEF Forms!Init
    <2>2. 0 <= 0 + 1 /\ 0 <= 0 + 0
      OBVIOUS
    <2> QED
      BY <2>1, <2>2 DEF Forms!OrphansAreTold, Forms!OrphansOnTheWay
  <1> QED
    BY <1>3, <1>4, <1>5 DEF Forms!IInv

\* A step that leaves the send and what was slung alone.
LEMMA FormsChosenIInv ==
  ASSUME Forms!Assumptions, Forms!IInv, UNCHANGED <<v3, v5, Forms!dialog>>,
         {v1, v2, v4, v6}' \subseteq SUBSET Slingable,
         v6 \subseteq v6', v2' \subseteq v2 \cup v6'
  PROVE  Forms!IInv'
  <1>1. UNCHANGED <<v3, v5, v7, v8, v9, v10, v11>>
    BY DEF Forms!dialog
  <1>2. Forms!TypeOK'
    BY <1>1 DEF Forms!IInv, Forms!TypeOK, Forms!Sending, Forms!InFlight
  <1>3. Forms!BatchIsWhole' /\ Forms!SlingIsExcused'
    BY <1>1 DEF Forms!IInv, Forms!BatchIsWhole, Forms!SlingIsExcused, Forms!SlungBefore, Forms!Sending, Forms!InFlight
  <1>4. Forms!OrphansAreTold' /\ Forms!OrphansOnTheWay'
    BY <1>1 DEF Forms!IInv, Forms!OrphansAreTold, Forms!OrphansOnTheWay
  <1> QED
    BY <1>2, <1>3, <1>4 DEF Forms!IInv

\* A step of the dialog leaves the bulk sling alone.
LEMMA FormsFormIInv == ASSUME Forms!Assumptions, Forms!IInv, Forms!FormNext PROVE Forms!IInv'
  <1>1. UNCHANGED <<v1, v2, v3, v4, v5, v6>>
    BY DEF Forms!FormNext, Forms!openCreateBead, Forms!Cancel, Forms!createAndSling, Forms!BeadCreated, Forms!BeadSlung, Forms!WriteFails, Forms!bulk
  <1>2. v9 \in Nat /\ v10 \in Nat /\ v11 \in Nat
    BY DEF Forms!IInv, Forms!TypeOK
  <1>3. /\ v9' \in Nat /\ v10' \in Nat /\ v11' \in Nat
        /\ v7' \in {"closed", "open", "create", "sling"} /\ v8' \in BOOLEAN
        /\ Forms!OrphansAreTold' /\ Forms!OrphansOnTheWay'
    <2>1. CASE Forms!openCreateBead
      <3>1. v9' = 0 /\ v10' = 0 /\ v11' = 0 /\ v7' = "open" /\ v8' = FALSE
        BY <2>1 DEF Forms!openCreateBead
      <3>2. 0 <= 0 + 1 /\ 0 <= 0 /\ ~(0 > 0)
        OBVIOUS
      <3> QED
        BY <3>1, <3>2 DEF Forms!OrphansAreTold, Forms!OrphansOnTheWay
    <2>2. CASE Forms!Cancel
      BY <1>2, <2>2 DEF Forms!Cancel, Forms!IInv, Forms!TypeOK, Forms!OrphansAreTold, Forms!OrphansOnTheWay
    <2>3. CASE Forms!createAndSling
      BY <1>2, <2>3 DEF Forms!createAndSling, Forms!IInv, Forms!TypeOK, Forms!OrphansAreTold, Forms!OrphansOnTheWay
    <2>4. CASE Forms!BeadCreated
      BY <1>2, <2>4 DEF Forms!BeadCreated, Forms!IInv, Forms!TypeOK, Forms!OrphansAreTold, Forms!OrphansOnTheWay
    <2>5. CASE Forms!BeadSlung
      BY <1>2, <2>5 DEF Forms!BeadSlung, Forms!IInv, Forms!TypeOK, Forms!OrphansAreTold, Forms!OrphansOnTheWay
    <2>6. CASE Forms!WriteFails
      <3>1. v9' \in {v9, v9 + 1} /\ v10' \in {v10, v10 + 1}
            /\ (v7 = "sling" => v9' = v9) /\ v7 \in {"create", "sling"}
        BY <2>6 DEF Forms!WriteFails
      <3>2. v7' = "open" /\ v8' = TRUE /\ v11' = v11 + 1
        BY <2>6 DEF Forms!WriteFails
      <3>3. (v7 = "create" => v9 <= v11) /\ v9 <= v11 + 1
        BY DEF Forms!IInv, Forms!OrphansAreTold, Forms!OrphansOnTheWay
      <3> QED
        BY <1>2, <3>1, <3>2, <3>3 DEF Forms!OrphansAreTold, Forms!OrphansOnTheWay
    <2> QED
      BY <2>1, <2>2, <2>3, <2>4, <2>5, <2>6 DEF Forms!FormNext
  <1>4. Forms!TypeOK'
    BY <1>1, <1>3 DEF Forms!IInv, Forms!TypeOK, Forms!Sending, Forms!InFlight
  <1>5. Forms!BatchIsWhole' /\ Forms!SlingIsExcused'
    BY <1>1 DEF Forms!IInv, Forms!BatchIsWhole, Forms!SlingIsExcused, Forms!SlungBefore, Forms!Sending, Forms!InFlight
  <1> QED
    BY <1>3, <1>4, <1>5 DEF Forms!IInv

LEMMA FormsSendIInv == ASSUME Forms!Assumptions, Forms!IInv, Forms!handleSend PROVE Forms!IInv'
  <1>1. UNCHANGED <<v1, v4, v5, v6, Forms!dialog>> /\ ~Forms!Sending /\ v3 = None
    BY DEF Forms!handleSend, Forms!Sending
  <1>2. CASE v2 \cap v1 = {}
    <2>1. v2' = {} /\ v3' = v3
      BY <1>2 DEF Forms!handleSend, Forms!buildSlingRequests
    <2> QED
      BY <1>1, <2>1, FormsChosenIInv DEF Forms!IInv, Forms!TypeOK
  <1>3. CASE v2 \cap v1 # {}
    <2>1. PICK b : b = [asked |-> v2 \cap v1, todo |-> v2 \cap v1,
                        at |-> [i \in {} |-> None], failed |-> {}, config |-> FALSE, before |-> v5]
      OBVIOUS
    <2>2. v3' = b /\ v2' = v2
      BY <1>3, <2>1 DEF Forms!handleSend, Forms!buildSlingRequests
    <2>3. b.at \in UNION {[c -> {"sling", "record"}] : c \in SUBSET Slingable}
      <3>1. [i \in {} |-> None] \in [{} -> {"sling", "record"}]
        OBVIOUS
      <3> QED
        BY <2>1, <3>1
    <2>4. v2 \subseteq Slingable /\ v5 \in [Slingable -> 0 .. MaxTries]
      BY DEF Forms!IInv, Forms!TypeOK
    <2>5. b \in Forms!Batches /\ DOMAIN b.at = {} /\ b # None
      <3>1. v2 \cap v1 \in SUBSET Slingable /\ {} \in SUBSET Slingable /\ DOMAIN b.at = {}
        BY <2>1, <2>4
      <3>2. b \in Forms!Batches
        BY <2>1, <2>3, <2>4, <3>1 DEF Forms!Batches
      <3> QED
        BY <3>1, <3>2 DEF Forms!Assumptions
    <2>6. Forms!InFlight' = {} /\ Forms!Sending'
      BY <2>2, <2>5 DEF Forms!InFlight, Forms!Sending
    <2>7. UNCHANGED <<v7, v8, v9, v10, v11>>
      BY <1>1 DEF Forms!dialog
    <2>8. Forms!Cardinality(Forms!InFlight') <= Width
      BY <2>6, FS_EmptySet, FormsSameSets DEF Forms!Assumptions
    <2>9. Forms!TypeOK'
      BY <1>1, <2>1, <2>2, <2>5, <2>6, <2>7, <2>8 DEF Forms!IInv, Forms!TypeOK
    <2>10. Forms!BatchIsWhole'
      BY <1>1, <2>1, <2>2, <2>4, <2>6 DEF Forms!BatchIsWhole
    <2>11. Forms!SlingIsExcused'
      BY <1>1, <2>1, <2>2, <2>6 DEF Forms!IInv, Forms!SlingIsExcused, Forms!SlungBefore
    <2>12. Forms!OrphansAreTold' /\ Forms!OrphansOnTheWay'
      BY <2>7 DEF Forms!IInv, Forms!OrphansAreTold, Forms!OrphansOnTheWay
    <2> QED
      BY <2>9, <2>10, <2>11, <2>12 DEF Forms!IInv
  <1> QED
    BY <1>2, <1>3

\* A send that goes on: what it becomes, and what was slung with it.
LEMMA FormsBatchIInv ==
  ASSUME Forms!Assumptions, Forms!IInv, Forms!Sending, UNCHANGED <<v1, v2, Forms!dialog>>, v4' \subseteq Slingable,
         NEW b \in Forms!Batches, v3' = b, b.config, v6' \subseteq Slingable,
         v5' \in [Slingable -> 0 .. MaxTries],
         DOMAIN b.at \cup b.todo \cup b.failed \subseteq b.asked, b.todo \cap DOMAIN b.at = {},
         Forms!Cardinality(DOMAIN b.at) <= Width,
         \A i \in b.asked :
            i \in b.todo \cup DOMAIN b.at \cup b.failed \/ v5'[i] > b.before[i],
         \A i \in DOMAIN b.at : b.at[i] = "record" => v5'[i] > b.before[i],
         \A i \in Slingable : v5'[i] >= b.before[i],
         b.todo \cap Forms!SlungBefore' \subseteq v6',
         \A i \in DOMAIN b.at \cap Forms!SlungBefore' : b.at[i] = "sling" => i \in v6'
  PROVE  Forms!IInv' /\ Forms!Sending'
  <1>1. Forms!Sending' /\ Forms!InFlight' = DOMAIN b.at
    BY DEF Forms!Sending, Forms!InFlight, Forms!Assumptions
  <1>2. UNCHANGED <<v7, v8, v9, v10, v11>>
    BY DEF Forms!dialog
  <1>3. Forms!TypeOK'
    BY <1>1, <1>2 DEF Forms!IInv, Forms!TypeOK
  <1>4. Forms!BatchIsWhole'
    BY <1>1 DEF Forms!BatchIsWhole
  <1>5. Forms!SlingIsExcused'
    BY <1>1 DEF Forms!SlingIsExcused
  <1>6. Forms!OrphansAreTold' /\ Forms!OrphansOnTheWay'
    BY <1>2 DEF Forms!IInv, Forms!OrphansAreTold, Forms!OrphansOnTheWay
  <1> QED
    BY <1>1, <1>3, <1>4, <1>5, <1>6 DEF Forms!IInv

LEMMA FormsDefaultsIInv == ASSUME Forms!Assumptions, Forms!IInv, Forms!loadMaintainerSlingDefaults PROVE Forms!IInv'
  <1>1. Forms!Sending /\ ~v3.config /\ UNCHANGED <<v1, v2, v4, v5, v6, Forms!dialog>>
        /\ v3' \in {None, [v3 EXCEPT !.config = TRUE]}
    BY DEF Forms!loadMaintainerSlingDefaults
  <1>2. UNCHANGED <<v7, v8, v9, v10, v11>>
    BY <1>1 DEF Forms!dialog
  <1>3. CASE v3' = None
    BY <1>1, <1>2, <1>3 DEF Forms!IInv, Forms!TypeOK, Forms!BatchIsWhole, Forms!SlingIsExcused, Forms!SlungBefore, Forms!Sending,
       Forms!OrphansAreTold, Forms!OrphansOnTheWay
  <1>4. CASE v3' = [v3 EXCEPT !.config = TRUE]
    <2>1. PICK b : b = [v3 EXCEPT !.config = TRUE]
      OBVIOUS
    <2>2. b \in Forms!Batches /\ b.config /\ b.asked = v3.asked /\ b.todo = v3.todo /\ b.failed = v3.failed
          /\ b.at = v3.at /\ b.before = v3.before
      BY <1>1, <2>1, FormsBatchIs DEF Forms!Batches
    <2>3. Forms!SlungBefore' = Forms!SlungBefore
      BY <1>1 DEF Forms!SlungBefore
    <2> QED
      BY <1>1, <1>4, <2>1, <2>2, <2>3, FormsBatchIs, FormsBatchIInv DEF Forms!IInv, Forms!TypeOK, Forms!BatchIsWhole, Forms!SlingIsExcused, Forms!InFlight
  <1> QED
    BY <1>1, <1>3, <1>4

LEMMA FormsChunkIInv == ASSUME Forms!Assumptions, Forms!IInv, Forms!NextChunk PROVE Forms!IInv' /\ Forms!Sending'
  <1>1. Forms!Sending /\ v3.config /\ Forms!InFlight = {}
        /\ UNCHANGED <<v1, v2, v4, v5, v6, Forms!dialog>>
    BY DEF Forms!NextChunk
  <1>2. PICK c \in Forms!Chunks : v3' = [v3 EXCEPT !.todo = @ \ c, !.at = [i \in c |-> "sling"]]
    BY DEF Forms!NextChunk
  <1>3. PICK b : b = [v3 EXCEPT !.todo = @ \ c, !.at = [i \in c |-> "sling"]]
    OBVIOUS
  <1>4. c \subseteq v3.todo /\ v3.todo \subseteq Slingable
    BY <1>1, <1>2, FormsBatchIs DEF Forms!Chunks
  <1>5. Forms!Cardinality(c) <= Width
    <2>1. Forms!Cardinality(v3.todo) \in Nat
      BY <1>4, FS_Subset, FS_CardinalityType, FormsSameSets DEF Forms!Assumptions
    <2>2. Forms!Cardinality(c) = IF Forms!Cardinality(v3.todo) < Width THEN Forms!Cardinality(v3.todo) ELSE Width
      BY <1>2 DEF Forms!Chunks
    <2> QED
      BY <2>1, <2>2 DEF Forms!Assumptions
  <1>6. [i \in c |-> "sling"] \in UNION {[s -> {"sling", "record"}] : s \in SUBSET Slingable}
    <2>1. [i \in c |-> "sling"] \in [c -> {"sling", "record"}] /\ c \in SUBSET Slingable
      BY <1>4
    <2> QED
      BY <2>1
  <1>7. b \in Forms!Batches /\ b.config /\ b.asked = v3.asked /\ b.todo = v3.todo \ c /\ b.failed = v3.failed
        /\ b.at = [i \in c |-> "sling"] /\ b.before = v3.before /\ DOMAIN b.at = c
    <2>1. v3 \in Forms!Batches
      BY <1>1, FormsBatchIs
    <2> QED
      BY <1>1, <1>3, <1>6, <2>1 DEF Forms!Batches
  <1>8. Forms!SlungBefore' = Forms!SlungBefore
    BY <1>1 DEF Forms!SlungBefore
  <1>9. /\ DOMAIN b.at \cup b.todo \cup b.failed \subseteq b.asked /\ b.todo \cap DOMAIN b.at = {}
        /\ Forms!Cardinality(DOMAIN b.at) <= Width
        /\ v4' \subseteq Slingable /\ v6' \subseteq Slingable /\ v5' \in [Slingable -> 0 .. MaxTries]
    BY <1>1, <1>4, <1>5, <1>7 DEF Forms!IInv, Forms!TypeOK
  <1>10. /\ \A i \in b.asked :
              i \in b.todo \cup DOMAIN b.at \cup b.failed \/ v5'[i] > b.before[i]
         /\ \A i \in DOMAIN b.at : b.at[i] = "record" => v5'[i] > b.before[i]
         /\ \A i \in Slingable : v5'[i] >= b.before[i]
    BY <1>1, <1>4, <1>7 DEF Forms!IInv, Forms!BatchIsWhole
  <1>11. /\ b.todo \cap Forms!SlungBefore' \subseteq v6'
         /\ \A i \in DOMAIN b.at \cap Forms!SlungBefore' : b.at[i] = "sling" => i \in v6'
    BY <1>1, <1>4, <1>7, <1>8 DEF Forms!IInv, Forms!SlingIsExcused
  <1> QED
    BY <1>1, <1>2, <1>3, <1>7, <1>9, <1>10, <1>11, FormsBatchIInv

\* An item of the chunk settles: it was slung, or it has failed.
LEMMA FormsSettledIInv ==
  ASSUME Forms!Assumptions, Forms!IInv, Forms!Sending, NEW i \in Forms!InFlight, NEW b,
         \/ b = [v3 EXCEPT !.at = Forms!Without(i)] /\ v3.at[i] = "record"
         \/ b = [v3 EXCEPT !.at = Forms!Without(i), !.failed = @ \cup {i}],
         v3' = b, UNCHANGED <<v1, v2, Forms!dialog>>, v4' \in {v4, v4 \cup {i}},
         \/ UNCHANGED <<v5, v6>>
         \/ v5[i] < MaxTries /\ Forms!Sling(i)
  PROVE  Forms!IInv' /\ Forms!Sending'
  <1>1. v3 \in Forms!Batches /\ i \in Slingable /\ v3.at \in [Forms!InFlight -> {"sling", "record"}]
        /\ Forms!InFlight \subseteq Slingable /\ Forms!IsFiniteSet(Forms!InFlight)
    BY FormsBatchIs
  <1>2. Forms!Without(i) \in [Forms!InFlight \ {i} -> {"sling", "record"}] /\ \A j \in Forms!InFlight \ {i} : Forms!Without(i)[j] = v3.at[j]
    BY <1>1 DEF Forms!Without
  <1>3. Forms!Without(i) \in UNION {[c -> {"sling", "record"}] : c \in SUBSET Slingable}
    BY <1>1, <1>2
  <1>4. /\ b \in Forms!Batches /\ b.config = v3.config /\ b.asked = v3.asked /\ b.todo = v3.todo
        /\ b.at = Forms!Without(i) /\ b.before = v3.before /\ DOMAIN b.at = Forms!InFlight \ {i}
        /\ b.failed \in {v3.failed, v3.failed \cup {i}} /\ (b.failed = v3.failed => i \in v3.failed \/ v3.at[i] = "record")
    <2>1. v3.failed \cup {i} \in SUBSET Slingable /\ DOMAIN Forms!Without(i) = Forms!InFlight \ {i}
      BY <1>1, <1>2, FormsBatchIs
    <2>2. CASE b = [v3 EXCEPT !.at = Forms!Without(i)] /\ v3.at[i] = "record"
      BY <1>1, <1>3, <2>1, <2>2 DEF Forms!Batches
    <2>3. CASE b = [v3 EXCEPT !.at = Forms!Without(i), !.failed = @ \cup {i}]
      <3>1. b \in Forms!Batches
        BY <1>1, <1>3, <2>1, <2>3 DEF Forms!Batches
      <3>2. b.failed = v3.failed \cup {i}
        BY <1>1, <2>3 DEF Forms!Batches
      <3> QED
        BY <1>1, <2>1, <2>3, <3>1, <3>2 DEF Forms!Batches
    <2> QED
      BY <2>2, <2>3
  <1>5. v3.config
    BY FormsBatchIs DEF Forms!IInv, Forms!BatchIsWhole
  <1>6. Forms!Cardinality(DOMAIN b.at) <= Width
    <2>1. Forms!Cardinality(Forms!InFlight \ {i}) <= Forms!Cardinality(Forms!InFlight) /\ Forms!Cardinality(Forms!InFlight \ {i}) \in Nat
          /\ Forms!Cardinality(Forms!InFlight) \in Nat
      BY <1>1, FS_Subset, FS_CardinalityType, FormsSameSets
    <2>2. Forms!Cardinality(Forms!InFlight) <= Width
      BY DEF Forms!IInv, Forms!TypeOK
    <2> QED
      BY <1>4, <2>1, <2>2 DEF Forms!Assumptions
  <1>7. /\ v5' \in [Slingable -> 0 .. MaxTries] /\ v6' \subseteq Slingable /\ v4' \subseteq Slingable
        /\ \A j \in Slingable : v5'[j] >= v5[j] /\ (j # i => v5'[j] = v5[j])
        /\ \A j \in Slingable \ {i} : j \in v6' <=> j \in v6
    <2>1. v5 \in [Slingable -> 0 .. MaxTries] /\ v6 \subseteq Slingable /\ v4 \subseteq Slingable /\ MaxTries \in Nat
      BY DEF Forms!IInv, Forms!TypeOK, Forms!Assumptions
    <2>2. CASE UNCHANGED <<v5, v6>>
      BY <1>1, <2>1, <2>2
    <2>3. CASE v5[i] < MaxTries /\ Forms!Sling(i)
      <3>1. v5' = [v5 EXCEPT ![i] = @ + 1] /\ v6' = v6 \ {i}
        BY <2>3 DEF Forms!Sling
      <3>2. v5[i] + 1 \in 0 .. MaxTries /\ v5[i] + 1 >= v5[i]
        BY <1>1, <2>1, <2>3
      <3> QED
        BY <1>1, <2>1, <3>1, <3>2
    <2> QED
      BY <2>2, <2>3
  <1>8. \A j \in Slingable : v5'[j] \in Nat /\ v5[j] \in Nat /\ v3.before[j] \in Nat
    BY <1>7, FormsBatchIs DEF Forms!IInv, Forms!TypeOK, Forms!Assumptions
  <1>9. /\ \A j \in b.asked :
             j \in b.todo \cup DOMAIN b.at \cup b.failed \/ v5'[j] > b.before[j]
        /\ \A j \in DOMAIN b.at : b.at[j] = "record" => v5'[j] > b.before[j]
        /\ \A j \in Slingable : v5'[j] >= b.before[j]
    <2>1. v3.at[i] = "record" => v5[i] > v3.before[i]
      BY DEF Forms!IInv, Forms!BatchIsWhole
    <2>2. \A j \in Slingable : v5[j] > v3.before[j] => v5'[j] > v3.before[j]
      BY <1>7, <1>8
    <2>3. \A j \in Slingable : v5'[j] >= v3.before[j]
      BY <1>7, <1>8 DEF Forms!IInv, Forms!BatchIsWhole
    <2>4. v3.asked \subseteq Slingable
      BY FormsBatchIs
    <2> QED
      BY <1>1, <1>2, <1>4, <2>1, <2>2, <2>3, <2>4 DEF Forms!IInv, Forms!BatchIsWhole
  <1>10. \A j \in Slingable \ {i} : j \in Forms!SlungBefore' <=> j \in Forms!SlungBefore
    BY <1>7 DEF Forms!SlungBefore
  <1>11. /\ b.todo \cap Forms!SlungBefore' \subseteq v6'
         /\ \A j \in DOMAIN b.at \cap Forms!SlungBefore' : b.at[j] = "sling" => j \in v6'
    <2>1. b.todo \subseteq Slingable \ {i} /\ DOMAIN b.at \subseteq Slingable \ {i}
      BY <1>1, <1>4, FormsBatchIs DEF Forms!IInv, Forms!BatchIsWhole
    <2>2. v3.todo \cap Forms!SlungBefore \subseteq v6
      BY DEF Forms!IInv, Forms!SlingIsExcused
    <2>3. \A j \in Forms!InFlight \cap Forms!SlungBefore : v3.at[j] = "sling" => j \in v6
      BY DEF Forms!IInv, Forms!SlingIsExcused
    <2> QED
      BY <1>2, <1>4, <1>7, <1>10, <2>1, <2>2, <2>3
  <1>12. DOMAIN b.at \cup b.todo \cup b.failed \subseteq b.asked /\ b.todo \cap DOMAIN b.at = {}
    BY <1>4 DEF Forms!IInv, Forms!TypeOK, Forms!BatchIsWhole
  <1> QED
    BY <1>4, <1>5, <1>6, <1>7, <1>9, <1>11, <1>12, FormsBatchIInv

LEMMA FormsSettlesIs ==
  ASSUME Forms!Assumptions, Forms!IInv, NEW i \in Slingable, Forms!SlingFails(i) \/ Forms!recordMaintainerSling(i) \/ Forms!RecordFails(i)
  PROVE  Forms!IInv' /\ Forms!Sending'
  <1>1. Forms!Sending /\ i \in Forms!InFlight
    BY DEF Forms!SlingFails, Forms!recordMaintainerSling, Forms!RecordFails, Forms!Doing
  <1>2. CASE Forms!SlingFails(i)
    BY <1>1, <1>2, FormsSettledIInv DEF Forms!SlingFails, Forms!Failed
  <1>3. CASE Forms!recordMaintainerSling(i)
    BY <1>1, <1>3, FormsSettledIInv DEF Forms!recordMaintainerSling, Forms!Settled, Forms!Doing
  <1>4. CASE Forms!RecordFails(i)
    BY <1>1, <1>4, FormsSettledIInv DEF Forms!RecordFails, Forms!Failed
  <1> QED
    BY <1>2, <1>3, <1>4

LEMMA FormsAnswersIInv == ASSUME Forms!Assumptions, Forms!IInv, NEW i \in Slingable, Forms!SlingAnswers(i) PROVE Forms!IInv' /\ Forms!Sending'
  <1>1. Forms!Sending /\ i \in Forms!InFlight /\ v3.at[i] = "sling" /\ v5[i] < MaxTries
        /\ v5' = [v5 EXCEPT ![i] = @ + 1] /\ v6' = v6 \ {i}
        /\ v3' = [v3 EXCEPT !.at[i] = "record"] /\ UNCHANGED <<v1, v2, v4, Forms!dialog>>
    BY DEF Forms!SlingAnswers, Forms!Doing, Forms!Sling
  <1>2. v3 \in Forms!Batches /\ v3.at \in [Forms!InFlight -> {"sling", "record"}] /\ Forms!InFlight \subseteq Slingable
    BY <1>1, FormsBatchIs
  <1>3. PICK b : b = [v3 EXCEPT !.at[i] = "record"]
    OBVIOUS
  <1>4. PICK at \in [Forms!InFlight -> {"sling", "record"}] : at = [v3.at EXCEPT ![i] = "record"]
    BY <1>1, <1>2
  <1>5. b = [v3 EXCEPT !.at = at] /\ at[i] = "record" /\ \A j \in Forms!InFlight \ {i} : at[j] = v3.at[j]
    BY <1>1, <1>2, <1>3, <1>4 DEF Forms!Batches
  <1>6. at \in UNION {[c -> {"sling", "record"}] : c \in SUBSET Slingable} /\ DOMAIN at = Forms!InFlight
    BY <1>2, <1>4
  <1>7. /\ b \in Forms!Batches /\ b.config = v3.config /\ b.asked = v3.asked /\ b.todo = v3.todo
        /\ b.at = at /\ b.before = v3.before /\ DOMAIN b.at = Forms!InFlight /\ b.failed = v3.failed
    BY <1>2, <1>5, <1>6 DEF Forms!Batches
  <1>8. v3.config
    BY <1>1, FormsBatchIs DEF Forms!IInv, Forms!BatchIsWhole
  <1>9. \A j \in Slingable : v5[j] \in 0 .. MaxTries /\ v3.before[j] \in Nat /\ v5[j] >= v3.before[j]
    BY <1>1, FormsBatchIs DEF Forms!IInv, Forms!TypeOK, Forms!BatchIsWhole, Forms!Assumptions
  <1>10. v5 \in [Slingable -> 0 .. MaxTries] /\ MaxTries \in Nat
    BY DEF Forms!IInv, Forms!TypeOK, Forms!Assumptions
  <1>11. /\ v5' \in [Slingable -> 0 .. MaxTries] /\ v5'[i] = v5[i] + 1
         /\ \A j \in Slingable \ {i} : v5'[j] = v5[j]
    <2>1. v5[i] + 1 \in 0 .. MaxTries
      BY <1>1, <1>9, <1>10
    <2> QED
      BY <1>1, <1>10, <2>1
  <1>12. v5[i] + 1 > v3.before[i] /\ v5[i] + 1 >= v3.before[i]
    BY <1>9, <1>10
  <1>13. /\ \A j \in b.asked :
              j \in b.todo \cup DOMAIN b.at \cup b.failed \/ v5'[j] > b.before[j]
         /\ \A j \in DOMAIN b.at : b.at[j] = "record" => v5'[j] > b.before[j]
         /\ \A j \in Slingable : v5'[j] >= b.before[j]
    <2>1. v3.asked \subseteq Slingable
      BY <1>1, FormsBatchIs
    <2> QED
      BY <1>1, <1>2, <1>5, <1>7, <1>9, <1>11, <1>12, <2>1 DEF Forms!IInv, Forms!BatchIsWhole
  <1>14. \A j \in Slingable \ {i} : (j \in Forms!SlungBefore' <=> j \in Forms!SlungBefore) /\ (j \in v6' <=> j \in v6)
    BY <1>1, <1>11 DEF Forms!SlungBefore
  <1>15. /\ b.todo \cap Forms!SlungBefore' \subseteq v6'
         /\ \A j \in DOMAIN b.at \cap Forms!SlungBefore' : b.at[j] = "sling" => j \in v6'
    <2>1. b.todo \subseteq Slingable \ {i}
      BY <1>1, <1>7, FormsBatchIs DEF Forms!IInv, Forms!BatchIsWhole
    <2>2. v3.todo \cap Forms!SlungBefore \subseteq v6
      BY <1>1 DEF Forms!IInv, Forms!SlingIsExcused
    <2>3. \A j \in Forms!InFlight \cap Forms!SlungBefore : v3.at[j] = "sling" => j \in v6
      BY <1>1 DEF Forms!IInv, Forms!SlingIsExcused
    <2>4. \A j \in Forms!InFlight : at[j] = "sling" => j # i
      BY <1>5
    <2> QED
      BY <1>2, <1>5, <1>7, <1>14, <2>1, <2>2, <2>3, <2>4
  <1>16. /\ DOMAIN b.at \cup b.todo \cup b.failed \subseteq b.asked /\ b.todo \cap DOMAIN b.at = {}
         /\ Forms!Cardinality(DOMAIN b.at) <= Width /\ v4' \subseteq Slingable /\ v6' \subseteq Slingable
    BY <1>1, <1>7 DEF Forms!IInv, Forms!TypeOK, Forms!BatchIsWhole
  <1> QED
    BY <1>1, <1>3, <1>7, <1>8, <1>11, <1>13, <1>15, <1>16, FormsBatchIInv

LEMMA FormsSendSettlesIInv == ASSUME Forms!Assumptions, Forms!IInv, Forms!SendSettles PROVE Forms!IInv'
  <1>1. Forms!Sending /\ v2' = v3.failed /\ v6' = v6 \cup v3.failed /\ v3' = None
        /\ UNCHANGED <<v1, v4, v5, Forms!dialog>>
    BY DEF Forms!SendSettles
  <1>2. v3.failed \subseteq Slingable /\ ~Forms!Sending'
    BY <1>1, FormsBatchIs DEF Forms!Sending
  <1>3. UNCHANGED <<v7, v8, v9, v10, v11>>
    BY <1>1 DEF Forms!dialog
  <1>4. Forms!TypeOK'
    BY <1>1, <1>2, <1>3 DEF Forms!IInv, Forms!TypeOK
  <1>5. Forms!BatchIsWhole' /\ Forms!SlingIsExcused'
    BY <1>1, <1>2 DEF Forms!BatchIsWhole, Forms!SlingIsExcused
  <1>6. Forms!OrphansAreTold' /\ Forms!OrphansOnTheWay'
    BY <1>3 DEF Forms!IInv, Forms!OrphansAreTold, Forms!OrphansOnTheWay
  <1> QED
    BY <1>4, <1>5, <1>6 DEF Forms!IInv

LEMMA FormsNextIInv == ASSUME Forms!Assumptions, Forms!IInv, [Forms!Next]_(Forms!vars) PROVE Forms!IInv'
  <1>1. ASSUME NEW i \in Slingable, Forms!toggleSelection(i) PROVE Forms!IInv'
    BY <1>1, FormsChosenIInv DEF Forms!toggleSelection, Forms!IInv, Forms!TypeOK
  <1>2. CASE Forms!clearSelection \/ Forms!Refresh
    BY <1>2, FormsChosenIInv DEF Forms!clearSelection, Forms!Refresh, Forms!IInv, Forms!TypeOK
  <1>3. CASE UNCHANGED Forms!vars
    BY <1>3, FormsChosenIInv DEF Forms!vars, Forms!bulk, Forms!dialog, Forms!IInv, Forms!TypeOK
  <1> QED
    BY <1>1, <1>2, <1>3, FormsSettlesIs, FormsFormIInv, FormsSendIInv, FormsDefaultsIInv, FormsChunkIInv, FormsAnswersIInv, FormsSendSettlesIInv
       DEF Forms!Next, Forms!BulkNext

\* What is slung again was chosen again or reported; what was sent is slung or
\* selected when the send ends.
LEMMA FormsBulkKeeps ==
  ASSUME Forms!Assumptions, Forms!IInv, [Forms!Next]_(Forms!vars) PROVE Forms!SlingsOnce /\ Forms!DropsNothing
  <1>1. \A i \in Slingable : v5[i] \in Nat
    BY DEF Forms!IInv, Forms!TypeOK, Forms!Assumptions
  <1>2. Forms!SlingsOnce
    <2>1. ASSUME NEW i \in Slingable, v5'[i] > v5[i], v5[i] > 0 PROVE i \in v6
      <3>1. v5' # v5
        BY <1>1, <2>1
      <3>2. \E j \in Slingable : Forms!Doing(j, "sling") /\ Forms!Sling(j)
        BY <3>1 DEF Forms!Next, Forms!BulkNext, Forms!FormNext, Forms!toggleSelection, Forms!clearSelection, Forms!Refresh, Forms!handleSend,
           Forms!loadMaintainerSlingDefaults, Forms!NextChunk, Forms!SlingAnswers, Forms!SlingFails, Forms!recordMaintainerSling, Forms!RecordFails,
           Forms!SendSettles, Forms!openCreateBead, Forms!Cancel, Forms!createAndSling, Forms!BeadCreated, Forms!BeadSlung, Forms!WriteFails, Forms!bulk, Forms!vars
      <3>3. PICK j \in Slingable : Forms!Doing(j, "sling") /\ v5' = [v5 EXCEPT ![j] = @ + 1]
        BY <3>2 DEF Forms!Sling
      <3>4. v5 \in [Slingable -> 0 .. MaxTries]
        BY DEF Forms!IInv, Forms!TypeOK
      <3>5. i = j
        <4>1. i # j => v5'[i] = v5[i]
          BY <3>3, <3>4
        <4> QED
          BY <1>1, <2>1, <4>1
      <3>6. Forms!Sending /\ i \in Forms!InFlight \cap Forms!SlungBefore /\ v3.at[i] = "sling"
        BY <2>1, <3>3, <3>5 DEF Forms!Doing, Forms!SlungBefore
      <3> QED
        BY <3>6 DEF Forms!IInv, Forms!SlingIsExcused
    <2> QED
      BY <2>1 DEF Forms!SlingsOnce
  <1>3. Forms!DropsNothing
    <2>1. ASSUME Forms!Sending, v3.config, ~Forms!Sending' PROVE Forms!SendSettles
      <3>1. v3' # v3
        BY <2>1 DEF Forms!Sending
      <3>2. ASSUME NEW i \in Slingable, Forms!SlingFails(i) \/ Forms!recordMaintainerSling(i) \/ Forms!RecordFails(i)
            PROVE  FALSE
        BY <2>1, <3>2, FormsSettlesIs
      <3>3. ~Forms!NextChunk /\ \A i \in Slingable : ~Forms!SlingAnswers(i)
        BY <2>1, FormsChunkIInv, FormsAnswersIInv
      <3>4. ~Forms!handleSend /\ ~Forms!loadMaintainerSlingDefaults
        BY <2>1 DEF Forms!handleSend, Forms!loadMaintainerSlingDefaults
      <3>5. ~Forms!FormNext /\ ~UNCHANGED Forms!vars /\ ~Forms!clearSelection /\ ~Forms!Refresh /\ \A i \in Slingable : ~Forms!toggleSelection(i)
        BY <3>1 DEF Forms!FormNext, Forms!toggleSelection, Forms!clearSelection, Forms!Refresh, Forms!openCreateBead, Forms!Cancel, Forms!createAndSling,
           Forms!BeadCreated, Forms!BeadSlung, Forms!WriteFails, Forms!bulk, Forms!vars
      <3> QED
        BY <3>2, <3>3, <3>4, <3>5 DEF Forms!Next, Forms!BulkNext
    <2>2. ASSUME Forms!Sending, Forms!SendSettles, NEW i \in v3.asked
          PROVE  v5[i] > v3.before[i] \/ i \in v2'
      BY <2>2 DEF Forms!SendSettles, Forms!IInv, Forms!BatchIsWhole
    <2> QED
      BY <2>1, <2>2 DEF Forms!DropsNothing
  <1> QED
    BY <1>2, <1>3

(***************************************************************************)
(* Whose eyes the tab reads with (ViewingAs).                              *)
(***************************************************************************)
LEMMA ViewingInitIInv == ASSUME Viewing!Assumptions, Viewing!Init PROVE Viewing!IInv
  <1>1. 0 \in 0 .. ListRetries /\ 0 \in 0 .. ListRetries + 1
    BY DEF Viewing!Assumptions
  <1>2. Viewing!TypeOK
    BY <1>1 DEF Viewing!Init, Viewing!TypeOK, Viewing!Assumptions, Viewing!readStored
  <1>3. Viewing!NeverAnotherUnasked /\ Viewing!FootnoteIsHonest /\ Viewing!RetriesAreCounted
    BY DEF Viewing!Init, Viewing!NeverAnotherUnasked, Viewing!FootnoteIsHonest, Viewing!RetriesAreCounted, Viewing!readStored, Viewing!First
  <1> QED
    BY <1>2, <1>3 DEF Viewing!IInv

\* A step of the identity leaves the lists alone.
LEMMA ViewingIdentityIInv ==
  ASSUME Viewing!Assumptions, Viewing!IInv,
         \/ \E a \in Aliases : Viewing!setAlias(a)
         \/ Viewing!resetToOperator \/ Viewing!ConfigLands \/ Viewing!TabHides
  PROVE  Viewing!IInv'
  <1>1. UNCHANGED Viewing!lists
    BY DEF Viewing!setAlias, Viewing!resetToOperator, Viewing!ConfigLands, Viewing!TabHides
  <1>2. UNCHANGED <<v4, v5, v6, v7, v8, v9, v11>>
    BY <1>1 DEF Viewing!lists
  <1>3. /\ v1' \in Aliases /\ v2' \in Aliases /\ v3' \in Aliases \cup {None} /\ v10' \in BOOLEAN
        /\ ~v10' => v2' \in {v1', Real} /\ v3' \in {None, Real}
    <2>1. CASE \E a \in Aliases : Viewing!setAlias(a)
      BY <2>1 DEF Viewing!setAlias, Viewing!Written, Viewing!IInv, Viewing!TypeOK
    <2>2. CASE Viewing!resetToOperator \/ Viewing!TabHides
      BY <2>2 DEF Viewing!resetToOperator, Viewing!TabHides, Viewing!IInv, Viewing!TypeOK
    <2>3. CASE Viewing!ConfigLands
      BY <2>3 DEF Viewing!ConfigLands, Viewing!readStored, Viewing!IInv, Viewing!TypeOK, Viewing!NeverAnotherUnasked, Viewing!Assumptions
    <2> QED
      BY <2>1, <2>2, <2>3
  <1>4. Viewing!TypeOK'
    BY <1>2, <1>3 DEF Viewing!IInv, Viewing!TypeOK
  <1>5. Viewing!NeverAnotherUnasked'
    BY <1>3 DEF Viewing!NeverAnotherUnasked
  <1>6. Viewing!FootnoteIsHonest' /\ Viewing!RetriesAreCounted'
    BY <1>2 DEF Viewing!IInv, Viewing!FootnoteIsHonest, Viewing!RetriesAreCounted, Viewing!First
  <1> QED
    BY <1>4, <1>5, <1>6 DEF Viewing!IInv

\* A step of the list leaves the identity alone.
LEMMA ViewingListIInv ==
  ASSUME Viewing!Assumptions, Viewing!IInv, Viewing!loadAliases \/ Viewing!RetryFires \/ Viewing!Settle
  PROVE  Viewing!IInv'
  <1>1. UNCHANGED <<v1, v2, v3, v10>>
    BY DEF Viewing!loadAliases, Viewing!RetryFires, Viewing!Settle, Viewing!SessionsLand, Viewing!SessionsFail, Viewing!MailSettles, Viewing!identity
  <1>2. /\ v6 \in Nat /\ v11 \in Nat /\ ListRetries \in Nat
        /\ v6 <= ListRetries /\ v11 <= ListRetries + 1
        /\ v4 \in BOOLEAN /\ v8 \in BOOLEAN /\ v9 \in BOOLEAN
    <2>1. v4 \in BOOLEAN /\ v8 \in BOOLEAN /\ v9 \in BOOLEAN
      BY Zenon DEF Viewing!IInv, Viewing!TypeOK
    <2>2. v6 \in 0 .. ListRetries /\ v11 \in 0 .. ListRetries + 1 /\ ListRetries \in Nat
      BY Zenon DEF Viewing!IInv, Viewing!TypeOK, Viewing!Assumptions
    <2> QED
      BY <2>1, <2>2
  <1>3. /\ {v4, v8, v9}' \subseteq BOOLEAN
        /\ v5' \in {"idle", "asked", "timer", "landed", "given up"}
        /\ v7' \in {"idle", "asked", "landed", "failed"}
        /\ v6' \in 0 .. ListRetries /\ v11' \in 0 .. ListRetries + 1
        /\ Viewing!FootnoteIsHonest' /\ Viewing!RetriesAreCounted'
    <2>1. CASE Viewing!loadAliases
      BY <1>2, <2>1 DEF Viewing!loadAliases, Viewing!IInv, Viewing!TypeOK, Viewing!FootnoteIsHonest, Viewing!RetriesAreCounted, Viewing!First
    <2>2. CASE Viewing!RetryFires
      BY <1>2, <2>2 DEF Viewing!RetryFires, Viewing!IInv, Viewing!TypeOK, Viewing!FootnoteIsHonest, Viewing!RetriesAreCounted, Viewing!First
    <2>3. CASE Viewing!SessionsLand
      BY <1>2, <2>3 DEF Viewing!SessionsLand, Viewing!LoadingAfter, Viewing!IInv, Viewing!TypeOK, Viewing!FootnoteIsHonest, Viewing!RetriesAreCounted, Viewing!First
    <2>4. CASE Viewing!SessionsFail
      <3>1. /\ UNCHANGED <<v4, v6, v7, v11>> /\ v5 = "asked"
            /\ v5' = IF v6 < ListRetries THEN "timer" ELSE "given up"
            /\ v9' = (v9 \/ v11 = 1)
            /\ v8' = IF v11 = 1 THEN v8 /\ v7 = "asked" ELSE v8
        BY <2>4 DEF Viewing!SessionsFail, Viewing!LoadingAfter, Viewing!getSessionsRetryDelay, Viewing!First
      <3>2. v4 /\ v11 = v6 + 1 /\ v7 # "idle" /\ (v9 <=> v11 # 1)
            /\ (v8 <=> v11 = 1 \/ v7 = "asked")
        <4>1. v4
          BY <3>1, Zenon DEF Viewing!IInv, Viewing!RetriesAreCounted
        <4> QED
          BY <3>1, <4>1, Zenon DEF Viewing!IInv, Viewing!FootnoteIsHonest, Viewing!RetriesAreCounted, Viewing!First
      <3>3. v8' \in BOOLEAN /\ v9' \in BOOLEAN /\ (v8' <=> v7 = "asked") /\ v9'
        <4>1. CASE v11 = 1
          BY <1>2, <3>1, <3>2, <4>1, Zenon
        <4>2. CASE v11 # 1
          BY <1>2, <3>1, <3>2, <4>2, Zenon
        <4> QED
          BY <4>1, <4>2
      <3>4. v5' \in {"timer", "given up"} /\ (v5' = "timer" => v6 < ListRetries)
            /\ (v5' = "given up" => v6 = ListRetries)
        <4>1. v6 \in Nat /\ ListRetries \in Nat /\ v6 <= ListRetries
          BY <1>2
        <4>2. v5' = IF v6 < ListRetries THEN "timer" ELSE "given up"
          BY <3>1
        <4>3. v6 < ListRetries \/ v6 = ListRetries
          BY <4>1
        <4>4. CASE v6 < ListRetries
          BY <4>2, <4>4, Zenon
        <4>5. CASE ~(v6 < ListRetries)
          BY <4>2, <4>3, <4>5, Zenon
        <4> QED
          BY <4>4, <4>5
      <3>5. Viewing!FootnoteIsHonest'
        BY <1>2, <3>1, <3>2, <3>3, <3>4 DEF Viewing!FootnoteIsHonest, Viewing!First
      <3>6. Viewing!RetriesAreCounted'
        BY <3>1, <3>2, <3>4 DEF Viewing!RetriesAreCounted
      <3> QED
        BY <3>1, <3>3, <3>4, <3>5, <3>6 DEF Viewing!IInv, Viewing!TypeOK
    <2>5. CASE Viewing!MailSettles
      BY <1>2, <2>5 DEF Viewing!MailSettles, Viewing!SessionsSettledOnce, Viewing!IInv, Viewing!TypeOK, Viewing!FootnoteIsHonest, Viewing!RetriesAreCounted, Viewing!First
    <2> QED
      BY <2>1, <2>2, <2>3, <2>4, <2>5 DEF Viewing!Settle
  <1>4. Viewing!TypeOK'
    BY <1>1, <1>3 DEF Viewing!IInv, Viewing!TypeOK
  <1>5. Viewing!NeverAnotherUnasked'
    BY <1>1 DEF Viewing!IInv, Viewing!NeverAnotherUnasked
  <1> QED
    BY <1>3, <1>4, <1>5 DEF Viewing!IInv

LEMMA ViewingNextIInv == ASSUME Viewing!Assumptions, Viewing!IInv, [Viewing!Next]_(Viewing!vars) PROVE Viewing!IInv'
  <1>1. CASE Viewing!Reload
    <2>1. 0 \in 0 .. ListRetries /\ 0 \in 0 .. ListRetries + 1
      BY DEF Viewing!Assumptions
    <2>2. Viewing!TypeOK'
      BY <1>1, <2>1 DEF Viewing!Reload, Viewing!Fresh, Viewing!readStored, Viewing!IInv, Viewing!TypeOK, Viewing!Assumptions
    <2>3. Viewing!NeverAnotherUnasked' /\ Viewing!FootnoteIsHonest' /\ Viewing!RetriesAreCounted'
      BY <1>1 DEF Viewing!Reload, Viewing!Fresh, Viewing!readStored, Viewing!IInv, Viewing!NeverAnotherUnasked, Viewing!FootnoteIsHonest, Viewing!RetriesAreCounted, Viewing!First
    <2> QED
      BY <2>2, <2>3 DEF Viewing!IInv
  <1>2. CASE UNCHANGED Viewing!vars
    BY <1>2 DEF Viewing!vars, Viewing!IInv, Viewing!TypeOK, Viewing!NeverAnotherUnasked, Viewing!FootnoteIsHonest, Viewing!RetriesAreCounted, Viewing!First
  <1> QED
    BY <1>1, <1>2, ViewingIdentityIInv, ViewingListIInv DEF Viewing!Next

LEMMA ViewingTiers == ASSUME Viewing!Assumptions, Viewing!IInv PROVE Viewing!TiersAreAPartition
  <1>1. ASSUME NEW seen \in SUBSET Aliases, NEW wrote \in SUBSET Aliases
        PROVE  /\ \A t, u \in DOMAIN Viewing!prioritizeAliases(seen, wrote) :
                    t # u => Viewing!prioritizeAliases(seen, wrote)[t] \cap Viewing!prioritizeAliases(seen, wrote)[u] = {}
               /\ Viewing!Listed(Viewing!prioritizeAliases(seen, wrote)) = seen \cup wrote \cup {v2, v1}
    <2> DEFINE others == (Viewing!Injected(seen) \cup wrote) \ {v1}
    <2>1. PICK b : b = Viewing!prioritizeAliases(seen, wrote)
      OBVIOUS
    <2>2. /\ DOMAIN b = {"you", "mayor", "active", "other"}
          /\ b["you"] = {v1} /\ b["mayor"] = others \cap {Mayor}
          /\ b["active"] = (others \cap wrote) \ {Mayor} /\ b["other"] = others \ (wrote \cup {Mayor})
      BY <2>1 DEF Viewing!prioritizeAliases
    <2>3. \A t, u \in DOMAIN b : t # u => b[t] \cap b[u] = {}
      BY <2>2
    <2>4. Viewing!Listed(b) = b["you"] \cup b["mayor"] \cup b["active"] \cup b["other"]
      BY <2>2 DEF Viewing!Listed
    <2>5. Viewing!Listed(b) = {v1} \cup others
      BY <2>2, <2>4
    <2>6. Viewing!Listed(b) = seen \cup wrote \cup {v2, v1}
      BY <2>5 DEF Viewing!Injected
    <2> QED
      BY <2>1, <2>3, <2>6
  <1> QED
    BY <1>1 DEF Viewing!TiersAreAPartition
(***************************************************************************)
(* The aquarium (Reef).                                                    *)
(***************************************************************************)
\* The finite sets of the instance are those of the module.
LEMMA WaterSameSets == ASSUME NEW S
    PROVE  (Water!IsFiniteSet(S) <=> IsFiniteSet(S)) /\ Water!Cardinality(S) = Cardinality(S)
  <1>1. Water!IsFiniteSet(S) <=> IsFiniteSet(S)
    BY DEF Water!IsFiniteSet, IsFiniteSet
  <1>2. Water!Cardinality(S) = Cardinality(S)
    BY DEF Water!Cardinality, Cardinality
  <1> QED
    BY <1>1, <1>2

WaterReadsSet == [sessions : Water!Names(Workers) \cup {None}, rigs : Water!Names(Rigs) \cup {None},
             beads : Water!BeadReads \cup {None}]
WaterMemories == [holders : Water!Partial(ReefBeads, Water!Pellets), seen : Water!Partial(Workers, 0 .. Window), events : SUBSET Rigs]

LEMMA WaterPartialIs ==
  ASSUME NEW S, NEW T, NEW f
  PROVE  f \in Water!Partial(S, T) <=> DOMAIN f \subseteq S /\ f \in [DOMAIN f -> T]
  <1>1. ASSUME f \in Water!Partial(S, T) PROVE DOMAIN f \subseteq S /\ f \in [DOMAIN f -> T]
    <2>1. PICK part \in SUBSET S : f \in [part -> T]
      BY <1>1 DEF Water!Partial
    <2> QED
      BY <2>1
  <1>2. ASSUME DOMAIN f \subseteq S, f \in [DOMAIN f -> T] PROVE f \in Water!Partial(S, T)
    BY <1>2 DEF Water!Partial
  <1> QED
    BY <1>1, <1>2

LEMMA WaterOverIs ==
  ASSUME NEW f, NEW g
  PROVE  /\ DOMAIN Water!Over(f, g) = DOMAIN f \cup DOMAIN g
         /\ \A x \in DOMAIN f : Water!Over(f, g)[x] = f[x]
         /\ \A x \in DOMAIN g \ DOMAIN f : Water!Over(f, g)[x] = g[x]
  BY DEF Water!Over

LEMMA WaterOverIsFunction ==
  ASSUME NEW f, NEW g
  PROVE  Water!Over(f, g) = [x \in DOMAIN Water!Over(f, g) |-> Water!Over(f, g)[x]]
  BY DEF Water!Over

\* What a read holds.
LEMMA WaterReadIs ==
  ASSUME Water!Assumptions, NEW r \in WaterReadsSet
  PROVE  /\ Water!Live(r) \subseteq Workers /\ Water!RigNames(r) \subseteq Rigs
         /\ Water!Unavailable(r) \subseteq Rigs /\ Water!Asked(r) \subseteq Rigs
         /\ Water!Items(r) \in Water!Partial(ReefBeads, Water!States) /\ DOMAIN Water!Items(r) \subseteq ReefBeads
         /\ \A b \in DOMAIN Water!Items(r) : Water!Items(r)[b] \in Water!States
         /\ Water!Drawn(r) \subseteq DOMAIN Water!Items(r)
         /\ \A b \in Water!Drawn(r) : Water!Items(r)[b].status \in Water!Listed
         /\ r.beads = None => DOMAIN Water!Items(r) = {} /\ Water!Asked(r) = {} /\ Water!Unavailable(r) = {}
         /\ r.beads # None => Water!Items(r) = r.beads.items /\ Water!Asked(r) = r.beads.rigs /\ Water!Unavailable(r) = r.beads.lost
  <1>1. Water!Live(r) \subseteq Workers
    BY DEF Water!Live, WaterReadsSet, Water!Names
  <1>2. Water!RigNames(r) \subseteq Rigs
    BY DEF Water!RigNames, WaterReadsSet, Water!Names
  <1>3. r.beads \in Water!BeadReads \cup {None}
    BY DEF WaterReadsSet
  <1>4. Water!Unavailable(r) \subseteq Rigs /\ Water!Asked(r) \subseteq Rigs
    BY <1>3 DEF Water!Unavailable, Water!Asked, Water!BeadReads
  <1>5. Water!Items(r) \in Water!Partial(ReefBeads, Water!States)
    <2>1. Water!Nothing \in Water!Partial(ReefBeads, Water!States)
      BY WaterPartialIs DEF Water!Nothing
    <2> QED
      BY <1>3, <2>1 DEF Water!Items, Water!BeadReads
  <1>6. DOMAIN Water!Items(r) \subseteq ReefBeads /\ \A b \in DOMAIN Water!Items(r) : Water!Items(r)[b] \in Water!States
    BY <1>5, WaterPartialIs
  <1>7. r.beads = None => DOMAIN Water!Items(r) = {} /\ Water!Asked(r) = {} /\ Water!Unavailable(r) = {}
    BY DEF Water!Items, Water!Nothing, Water!Asked, Water!Unavailable
  <1>8. r.beads # None => Water!Items(r) = r.beads.items /\ Water!Asked(r) = r.beads.rigs /\ Water!Unavailable(r) = r.beads.lost
    BY DEF Water!Items, Water!Asked, Water!Unavailable
  <1>9. /\ Water!Drawn(r) \subseteq DOMAIN Water!Items(r)
        /\ \A b \in Water!Drawn(r) : Water!Items(r)[b].status \in Water!Listed
    BY DEF Water!Drawn
  <1> QED
    BY <1>1, <1>2, <1>4, <1>5, <1>6, <1>7, <1>8, <1>9

\* How a bead that has a pellet is shown.
LEMMA WaterPelletIs ==
  ASSUME NEW item, item.status \in Water!Listed, NEW live
  PROVE  /\ Water!Pellet(item, live) \in Water!Pellets
         /\ Water!Pellet(item, live) = "held" <=> item.status = "in_progress" /\ item.owner \in live
         /\ Water!Pellet(item, live) = "orphaned" <=> item.status = "in_progress" /\ item.owner \notin live
  BY DEF Water!Pellet, Water!Pellets, Water!Listed

LEMMA WaterHoldersIs ==
  ASSUME Water!Assumptions, NEW r \in WaterReadsSet, NEW previous \in Water!Partial(ReefBeads, Water!Pellets)
  PROVE  /\ Water!Holders(r, previous) \in Water!Partial(ReefBeads, Water!Pellets)
         /\ Water!Drawn(r) \subseteq DOMAIN Water!Holders(r, previous)
         /\ \A b \in Water!Drawn(r) : Water!Holders(r, previous)[b] = Water!Pellet(Water!Items(r)[b], Water!Live(r))
         /\ \A b \in DOMAIN Water!Holders(r, previous) \ Water!Drawn(r) :
              RigOf[b] \in Water!Unavailable(r) /\ b \in DOMAIN previous /\ Water!Holders(r, previous)[b] = previous[b]
         /\ \A b \in DOMAIN previous \ DOMAIN Water!Holders(r, previous) :
              RigOf[b] \notin Water!Unavailable(r) /\ b \notin Water!Drawn(r)
  <1>1. PICK current : current = [b \in Water!Drawn(r) |-> Water!Pellet(Water!Items(r)[b], Water!Live(r))]
    OBVIOUS
  <1>2. PICK retained : retained = {b \in DOMAIN previous : RigOf[b] \in Water!Unavailable(r)}
    OBVIOUS
  <1>3. PICK rest : rest = [b \in retained |-> previous[b]]
    OBVIOUS
  <1>4. Water!Holders(r, previous) = Water!Over(current, rest)
    BY <1>1, <1>2, <1>3 DEF Water!Holders, Water!Restrict
  <1>5. DOMAIN current = Water!Drawn(r) /\ \A b \in Water!Drawn(r) : current[b] = Water!Pellet(Water!Items(r)[b], Water!Live(r))
    BY <1>1
  <1>6. DOMAIN rest = retained /\ \A b \in retained : rest[b] = previous[b]
    BY <1>3
  <1>7. DOMAIN previous \subseteq ReefBeads /\ \A b \in DOMAIN previous : previous[b] \in Water!Pellets
    BY WaterPartialIs
  <1>8. PICK h : h = Water!Over(current, rest)
    OBVIOUS
  <1>9. /\ DOMAIN h = Water!Drawn(r) \cup retained
        /\ \A b \in Water!Drawn(r) : h[b] = Water!Pellet(Water!Items(r)[b], Water!Live(r))
        /\ \A b \in retained \ Water!Drawn(r) : h[b] = previous[b]
    <2>1. /\ DOMAIN h = DOMAIN current \cup DOMAIN rest
          /\ \A x \in DOMAIN current : h[x] = current[x]
          /\ \A x \in DOMAIN rest \ DOMAIN current : h[x] = rest[x]
      BY <1>8 DEF Water!Over
    <2> QED
      BY <1>5, <1>6, <2>1
  <1>10. \A b \in DOMAIN h : h[b] \in Water!Pellets
    <2>1. \A b \in Water!Drawn(r) : Water!Pellet(Water!Items(r)[b], Water!Live(r)) \in Water!Pellets
      BY WaterReadIs, WaterPelletIs
    <2> QED
      BY <1>2, <1>7, <1>9, <2>1
  <1>11. h \in [DOMAIN h -> Water!Pellets]
    <2>1. h = [x \in DOMAIN h |-> h[x]]
      BY <1>8, WaterOverIsFunction
    <2> QED
      BY <1>10, <2>1
  <1>12. h \in Water!Partial(ReefBeads, Water!Pellets)
    BY <1>2, <1>7, <1>9, <1>11, WaterReadIs, WaterPartialIs
  <1> QED
    BY <1>2, <1>4, <1>8, <1>9, <1>12

LEMMA WaterSeenIs ==
  ASSUME Water!Assumptions, NEW r \in WaterReadsSet, NEW seen \in Water!Partial(Workers, 0 .. Window)
  PROVE  /\ Water!LastSeen(r, seen) \in Water!Partial(Workers, 0 .. Window)
         /\ \A s \in DOMAIN seen : seen[s] < Window => s \in DOMAIN Water!LastSeen(r, seen)
         /\ \A s \in DOMAIN seen : seen[s] \in 0 .. Window
  <1>1. PICK now : now = [s \in Water!Live(r) |-> 0]
    OBVIOUS
  <1>2. PICK some : some = {s \in DOMAIN seen : seen[s] < Window}
    OBVIOUS
  <1>3. PICK rest : rest = [s \in some |-> seen[s]]
    OBVIOUS
  <1>4. PICK f : f = Water!Over(now, rest)
    OBVIOUS
  <1>5. Water!LastSeen(r, seen) = f
    BY <1>1, <1>2, <1>3, <1>4 DEF Water!LastSeen, Water!Restrict
  <1>6. DOMAIN seen \subseteq Workers /\ \A s \in DOMAIN seen : seen[s] \in 0 .. Window
    <2>1. PICK part \in SUBSET Workers : seen \in [part -> 0 .. Window]
      BY DEF Water!Partial
    <2> QED
      BY <2>1
  <1>7. DOMAIN now = Water!Live(r) /\ (\A s \in Water!Live(r) : now[s] = 0) /\ DOMAIN rest = some /\ \A s \in some : rest[s] = seen[s]
    BY <1>1, <1>3
  <1>13. /\ DOMAIN f = DOMAIN now \cup DOMAIN rest
         /\ \A x \in DOMAIN now : f[x] = now[x]
         /\ \A x \in DOMAIN rest \ DOMAIN now : f[x] = rest[x]
    BY <1>4 DEF Water!Over
  <1>8. DOMAIN f = Water!Live(r) \cup some /\ (\A s \in Water!Live(r) : f[s] = 0) /\ \A s \in some \ Water!Live(r) : f[s] = seen[s]
    BY <1>7, <1>13
  <1>9. 0 \in 0 .. Window
    BY DEF Water!Assumptions
  <1>10. \A s \in DOMAIN f : f[s] \in 0 .. Window
    BY <1>2, <1>6, <1>8, <1>9
  <1>11. f \in [DOMAIN f -> 0 .. Window]
    <2>1. f = [x \in DOMAIN f |-> f[x]]
      BY <1>4, WaterOverIsFunction
    <2> QED
      BY <1>10, <2>1
  <1>12. f \in Water!Partial(Workers, 0 .. Window)
    BY <1>2, <1>6, <1>8, <1>11, WaterReadIs, WaterPartialIs
  <1> QED
    BY <1>2, <1>5, <1>6, <1>8, <1>12

\* A finite set has a part of each size up to its own.
LEMMA WaterPartOfSize ==
  ASSUME NEW S, Water!IsFiniteSet(S), NEW k \in 0 .. Water!Cardinality(S)
  PROVE  \E part \in SUBSET S : Water!Cardinality(part) = k
  <1>1. PICK f : f \in Bijection(1 .. Water!Cardinality(S), S)
    BY FS_CardinalityType, WaterSameSets DEF ExistsBijection
  <1>2. Water!Cardinality(S) \in Nat /\ k \in Nat
    BY FS_CardinalityType, WaterSameSets
  <1>3. PICK part : part = {f[i] : i \in 1 .. k}
    OBVIOUS
  <1>4. 1 .. k \subseteq 1 .. Water!Cardinality(S)
    BY <1>2
  <1>5. f \in [1 .. Water!Cardinality(S) -> S] /\ \A a, b \in 1 .. Water!Cardinality(S) : f[a] = f[b] => a = b
    BY <1>1 DEF Bijection, Injection, IsInjective
  <1>6. part \subseteq S
    BY <1>3, <1>4, <1>5
  <1>7. PICK g : g = [i \in 1 .. k |-> f[i]]
    OBVIOUS
  <1>8. g \in Bijection(1 .. k, part)
    BY <1>3, <1>4, <1>5, <1>7 DEF Bijection, Injection, Surjection, IsInjective
  <1>9. Water!IsFiniteSet(1 .. k) /\ Water!Cardinality(1 .. k) = k
    BY <1>2, FS_Interval, WaterSameSets
  <1>10. ExistsBijection(1 .. k, part)
    BY <1>8 DEF ExistsBijection
  <1>11. Water!Cardinality(part) = k
    BY <1>9, <1>10, FS_Bijection, WaterSameSets
  <1> QED
    BY <1>6, <1>11

\* What is drawn of a rig is of that rig, and leaves nothing urgent out.
LEMMA WaterRenderedIs ==
  ASSUME Water!Assumptions, NEW h, DOMAIN h \subseteq ReefBeads, NEW rg
  PROVE  /\ Water!Rendered(h, rg) \subseteq {b \in DOMAIN h : RigOf[b] = rg}
         /\ \A b \in DOMAIN h : RigOf[b] = rg /\ Water!HighSignal(b, h[b]) => b \in Water!Rendered(h, rg)
  <1>1. PICK mine : mine = {b \in DOMAIN h : RigOf[b] = rg}
    OBVIOUS
  <1>2. PICK required : required = {b \in mine : Water!HighSignal(b, h[b])}
    OBVIOUS
  <1>3. PICK budget : budget = IF Water!Cardinality(required) >= RenderCap THEN 0 ELSE RenderCap - Water!Cardinality(required)
    OBVIOUS
  <1>4. Water!Rendered(h, rg) = IF Water!Cardinality(mine) <= RenderCap THEN mine
          ELSE required \cup CHOOSE some \in SUBSET (mine \ required) : Water!Cardinality(some) = budget
    BY <1>1, <1>2, <1>3 DEF Water!Rendered
  <1>5. Water!IsFiniteSet(mine) /\ Water!IsFiniteSet(required) /\ Water!IsFiniteSet(mine \ required)
        /\ Water!Cardinality(mine \ required) = Water!Cardinality(mine) - Water!Cardinality(required)
    <2>1. Water!IsFiniteSet(mine) /\ required \subseteq mine
      BY <1>1, <1>2, FS_Subset, WaterSameSets DEF Water!Assumptions
    <2>2. mine \cap required = required
      BY <2>1
    <2>3. Water!Cardinality(mine \ required) = Water!Cardinality(mine) - Water!Cardinality(mine \cap required)
      BY <2>1, FS_Difference, WaterSameSets
    <2>4. Water!IsFiniteSet(required) /\ Water!IsFiniteSet(mine \ required)
      BY <2>1, FS_Subset, FS_Difference, WaterSameSets
    <2> QED
      BY <2>1, <2>2, <2>3, <2>4
  <1>6. Water!Cardinality(mine) \in Nat /\ Water!Cardinality(required) \in Nat /\ RenderCap \in Nat
    BY <1>5, FS_CardinalityType, WaterSameSets DEF Water!Assumptions
  <1>7. CASE Water!Cardinality(mine) <= RenderCap
    BY <1>1, <1>4, <1>7
  <1>8. CASE ~(Water!Cardinality(mine) <= RenderCap)
    <2>1. budget \in 0 .. Water!Cardinality(mine \ required)
      <3>1. CASE Water!Cardinality(required) >= RenderCap
        <4>1. budget = 0 /\ Water!Cardinality(mine \ required) \in Nat
          BY <1>3, <1>5, <3>1, FS_CardinalityType, WaterSameSets
        <4> QED
          BY <4>1
      <3>2. CASE ~(Water!Cardinality(required) >= RenderCap)
        <4>1. budget = RenderCap - Water!Cardinality(required)
          BY <1>3, <3>2
        <4> QED
          BY <1>5, <1>6, <1>8, <3>2, <4>1
      <3> QED
        BY <3>1, <3>2
    <2>2. \E some \in SUBSET (mine \ required) : Water!Cardinality(some) = budget
      BY <1>5, <2>1, WaterPartOfSize
    <2>3. (CHOOSE some \in SUBSET (mine \ required) : Water!Cardinality(some) = budget) \subseteq mine
      BY <2>2
    <2> QED
      BY <1>1, <1>2, <1>4, <1>8, <2>3
  <1> QED
    BY <1>7, <1>8

\* What is drawn from a read, and remembered of it.
LEMMA WaterDeriveIs ==
  ASSUME Water!Assumptions, Water!TypeOK, NEW r \in WaterReadsSet, v4' = r, Water!Derive(r)
  PROVE  /\ v6' \in WaterMemories /\ Water!SnapshotIsRead' /\ Water!HoldersAreRead'
         /\ {v7'.pellets, v7'.eaten, v7'.stranded} \subseteq SUBSET ReefBeads
         /\ v6'.holders = Water!Holders(r, v6.holders)
         /\ v6'.seen = Water!LastSeen(r, v6.seen)
         /\ v6'.events = v6.events \cup Water!Events(r, v6'.holders, v6.holders)
         /\ v7'.eaten = Water!Eaten(v6'.holders, v6.holders)
         /\ v9' = v9 \cup {RigOf[b] : b \in {x \in DOMAIN v7'.states : v7'.states[x] = "orphaned"}}
         /\ v11' = v11 \ {b \in Water!Drawn(r) : Water!Shown(v1[b])}
  <1>1. v6 \in WaterMemories
    BY DEF Water!TypeOK, WaterMemories
  <1>2. v6.holders \in Water!Partial(ReefBeads, Water!Pellets) /\ v6.seen \in Water!Partial(Workers, 0 .. Window) /\ v6.events \subseteq Rigs
    BY <1>1 DEF WaterMemories
  <1>3. PICK h : h = Water!Holders(r, v6.holders)
    OBVIOUS
  <1>4. PICK listed : listed = Water!Restrict(h, Water!Drawn(r))
    OBVIOUS
  <1>5. PICK seen : seen = Water!LastSeen(r, v6.seen)
    OBVIOUS
  <1>6. PICK noted : noted = v6.events \cup Water!Events(r, h, v6.holders)
    OBVIOUS
  <1>7. /\ v6' = [holders |-> h, seen |-> seen, events |-> noted]
        /\ v7'.fish = DOMAIN seen /\ v7'.states = listed
        /\ v7'.pellets = UNION {Water!Rendered(listed, rg) : rg \in Water!Asked(r)}
        /\ v7'.overflow = [rg \in Water!Asked(r) |->
             Water!Cardinality({b \in DOMAIN listed : RigOf[b] = rg}) - Water!Cardinality(Water!Rendered(listed, rg))]
        /\ v7'.eaten = Water!Eaten(h, v6.holders) /\ v7'.stranded = Water!Stranded(r)
        /\ v7'.p0Waiting = Water!Cardinality(Water!P0Waiting(r, h))
        /\ v7'.moving \subseteq noted
        /\ v9' = v9 \cup {RigOf[b] : b \in {x \in DOMAIN listed : listed[x] = "orphaned"}}
        /\ v11' = v11 \ {b \in DOMAIN listed : Water!Shown(v1[b])}
    BY <1>3, <1>4, <1>5, <1>6 DEF Water!Derive
  <1>8. v6'.holders = h /\ v6'.seen = seen /\ v6'.events = noted
    BY <1>7
  <1>9. /\ h \in Water!Partial(ReefBeads, Water!Pellets) /\ DOMAIN h \subseteq ReefBeads
        /\ Water!Drawn(r) \subseteq DOMAIN h
        /\ \A b \in Water!Drawn(r) : h[b] = Water!Pellet(Water!Items(r)[b], Water!Live(r))
        /\ \A b \in DOMAIN h \ Water!Drawn(r) : RigOf[b] \in Water!Unavailable(r)
    <2>1. h \in Water!Partial(ReefBeads, Water!Pellets)
      BY <1>2, <1>3, WaterHoldersIs
    <2>2. DOMAIN h \subseteq ReefBeads
      BY <2>1, WaterPartialIs
    <2> QED
      BY <1>2, <1>3, <2>1, <2>2, WaterHoldersIs
  <1>10. DOMAIN listed = Water!Drawn(r) /\ \A b \in Water!Drawn(r) : listed[b] = h[b]
    <2>1. PICK part : part = Water!Drawn(r)
      OBVIOUS
    <2>2. listed = [x \in part |-> h[x]]
      BY <1>4, <2>1 DEF Water!Restrict
    <2> QED
      BY <2>1, <2>2
  <1>11. v6' \in WaterMemories
    <2>1. seen \in Water!Partial(Workers, 0 .. Window)
      BY <1>2, <1>5, WaterSeenIs
    <2>2. noted \subseteq Rigs
      <3>1. DOMAIN v6.holders \subseteq ReefBeads
        BY <1>2, WaterPartialIs
      <3>2. Water!Events(r, h, v6.holders) \subseteq Rigs
        BY <3>1 DEF Water!Events, Water!Assumptions
      <3> QED
        BY <1>2, <1>6, <3>2
    <2> QED
      BY <1>7, <1>9, <2>1, <2>2 DEF WaterMemories
  <1>12. Water!SnapshotIsRead'
    <2>1. (/\ DOMAIN v7.states = Water!Drawn(v4)
           /\ \A b \in Water!Drawn(v4) : v7.states[b] = Water!Pellet(Water!Items(v4)[b], Water!Live(v4)))'
      BY <1>7, <1>9, <1>10
    <2>2. (/\ v7.fish = DOMAIN v6.seen
           /\ v7.pellets = UNION {Water!Rendered(v7.states, rg) : rg \in Water!Asked(v4)}
           /\ v7.overflow = [rg \in Water!Asked(v4) |->
                Water!Cardinality({b \in DOMAIN v7.states : RigOf[b] = rg})
                  - Water!Cardinality(Water!Rendered(v7.states, rg))]
           /\ v7.stranded = Water!Stranded(v4)
           /\ v7.p0Waiting = Water!Cardinality(Water!P0Waiting(v4, v6.holders))
           /\ v7.moving \subseteq v6.events)'
      BY <1>7, <1>8
    <2> QED
      BY <2>1, <2>2 DEF Water!SnapshotIsRead
  <1>13. Water!HoldersAreRead'
    <2>1. (/\ Water!Drawn(v4) \subseteq DOMAIN v6.holders
           /\ \A b \in Water!Drawn(v4) : v6.holders[b] = v7.states[b]
           /\ \A b \in DOMAIN v6.holders \ Water!Drawn(v4) : RigOf[b] \in Water!Unavailable(v4))'
      BY <1>7, <1>8, <1>9, <1>10
    <2> QED
      BY <2>1 DEF Water!HoldersAreRead
  <1>14. {v7'.pellets, v7'.eaten, v7'.stranded} \subseteq SUBSET ReefBeads
    <2>1. DOMAIN Water!Items(r) \subseteq ReefBeads /\ Water!Drawn(r) \subseteq ReefBeads
      BY WaterReadIs
    <2>2. \A rg \in Water!Asked(r) : Water!Rendered(listed, rg) \subseteq ReefBeads
      BY <1>10, <2>1, WaterRenderedIs
    <2>3. DOMAIN v6.holders \subseteq ReefBeads
      BY <1>2, WaterPartialIs
    <2>4. Water!Stranded(r) \subseteq ReefBeads /\ Water!Eaten(h, v6.holders) \subseteq ReefBeads
      BY <2>1, <2>3 DEF Water!Stranded, Water!Eaten
    <2> QED
      BY <1>7, <2>2, <2>4
  <1> QED
    BY <1>3, <1>5, <1>6, <1>7, <1>8, <1>10, <1>11, <1>12, <1>13, <1>14

\* A read that lands keeps what every step keeps, when what is no longer there
\* has left and what is now in progress was picked up.
LEMMA WaterLandsIInv ==
  ASSUME Water!Assumptions, Water!IInv, NEW r \in WaterReadsSet, v4' = r, Water!Derive(r), UNCHANGED Water!city,
         DOMAIN v5' \subseteq SUBSET Rigs, v5' \in [DOMAIN v5' -> Water!BeadReads],
         Water!ReadsAreKept', v10' \in BOOLEAN,
         Water!SameKey' =>
           /\ Water!SameKey
           /\ \A b \in DOMAIN v6.holders \ Water!Drawn(r) :
                RigOf[b] \in Water!Unavailable(r) \/ b \in v11
           /\ \A b \in ReefBeads \ v11 :
                RigOf[b] \in Water!Asked(r) \ Water!Unavailable(r) => b \in Water!Drawn(r)
           /\ \A b \in Water!Drawn(r) \cap v11 : Water!Shown(v1[b]) \/ RigOf[b] \in v9
           /\ \A b \in DOMAIN v6.holders \cap Water!Drawn(r) :
                Water!Items(r)[b].status = "in_progress" /\ v6.holders[b] # "held" => RigOf[b] \in v9
           /\ \A b \in Water!Drawn(r) :
                Water!Items(r)[b].status # "in_progress" /\ v1[b].status = "in_progress" => RigOf[b] \in v9
           /\ DOMAIN v5' \subseteq {{}, Water!RigNames(r)}
  PROVE  Water!IInv' /\ Water!FishStay
  <1>1. Water!TypeOK /\ Water!NothingIsMissed /\ Water!SnapshotIsRead /\ Water!HoldersAreRead /\ Water!WorkMoved
    BY DEF Water!IInv
  <1>2. UNCHANGED <<v1, v2, v3>>
    BY DEF Water!city
  <1>3. PICK h : h = v6'.holders
    OBVIOUS
  <1>4. /\ v6' \in WaterMemories /\ Water!SnapshotIsRead' /\ Water!HoldersAreRead'
        /\ {v7'.pellets, v7'.eaten, v7'.stranded} \subseteq SUBSET ReefBeads
        /\ v6'.holders = Water!Holders(r, v6.holders)
        /\ v6'.seen = Water!LastSeen(r, v6.seen)
        /\ v6'.events = v6.events \cup Water!Events(r, h, v6.holders)
        /\ v7'.eaten = Water!Eaten(h, v6.holders)
        /\ v9' = v9 \cup {RigOf[b] : b \in {x \in DOMAIN v7'.states : v7'.states[x] = "orphaned"}}
        /\ v11' = v11 \ {b \in Water!Drawn(r) : Water!Shown(v1[b])}
    BY <1>1, <1>3, WaterDeriveIs
  <1>5. /\ v6.holders \in Water!Partial(ReefBeads, Water!Pellets) /\ v6.seen \in Water!Partial(Workers, 0 .. Window)
        /\ DOMAIN v6.holders \subseteq ReefBeads
    <2>1. v6.holders \in Water!Partial(ReefBeads, Water!Pellets) /\ v6.seen \in Water!Partial(Workers, 0 .. Window)
      BY <1>1 DEF Water!TypeOK
    <2> QED
      BY <2>1, WaterPartialIs
  <1>6. /\ Water!Drawn(r) \subseteq DOMAIN h /\ Water!Drawn(r) \subseteq ReefBeads
        /\ \A b \in Water!Drawn(r) : h[b] = Water!Pellet(Water!Items(r)[b], Water!Live(r))
        /\ \A b \in DOMAIN h \ Water!Drawn(r) :
             RigOf[b] \in Water!Unavailable(r) /\ b \in DOMAIN v6.holders /\ h[b] = v6.holders[b]
        /\ \A b \in DOMAIN v6.holders \ DOMAIN h : RigOf[b] \notin Water!Unavailable(r) /\ b \notin Water!Drawn(r)
    BY <1>3, <1>4, <1>5, WaterHoldersIs, WaterReadIs
  <1>7. \A b \in Water!Drawn(r) :
          /\ h[b] = "held" => Water!Items(r)[b].status = "in_progress"
          /\ h[b] = "orphaned" <=> Water!Items(r)[b].status = "in_progress" /\ Water!Items(r)[b].owner \notin Water!Live(r)
          /\ h[b] # "held" /\ h[b] # "orphaned" => Water!Items(r)[b].status # "in_progress"
    BY <1>6, WaterReadIs, WaterPelletIs
  <1>8. /\ \A b \in Water!Drawn(r) : h[b] = "orphaned" => RigOf[b] \in v9'
        /\ v9 \subseteq v9' /\ v9' \subseteq Rigs
    <2>1. DOMAIN v7'.states = Water!Drawn(r) /\ \A b \in Water!Drawn(r) : v7'.states[b] = h[b]
      BY <1>3, <1>4 DEF Water!SnapshotIsRead, Water!HoldersAreRead
    <2>2. v9 \subseteq Rigs /\ RigOf \in [ReefBeads -> Rigs]
      BY <1>1 DEF Water!TypeOK, Water!Assumptions
    <2> QED
      BY <1>4, <1>6, <2>1, <2>2
  <1>9. Water!TypeOK'
    <2>1. (/\ v1 \in [ReefBeads -> Water!States] /\ v2 \subseteq Workers /\ v3 \subseteq Rigs)'
      BY <1>1, <1>2 DEF Water!TypeOK
    <2>2. v4' \in WaterReadsSet
      OBVIOUS
    <2>3. v11' \subseteq ReefBeads
      BY <1>1, <1>4 DEF Water!TypeOK
    <2> QED
      BY <1>4, <1>8, <2>1, <2>2, <2>3 DEF Water!TypeOK, WaterReadsSet, WaterMemories
  <1>10. Water!WorkMoved'
    <2>1. ASSUME Water!SameKey'
          PROVE  (/\ \A b \in v11 \cap DOMAIN v6.holders : RigOf[b] \in v9
                  /\ v6.events \subseteq v9
                  /\ \A b \in DOMAIN v6.holders :
                       v6.holders[b] = "orphaned"
                         \/ (v6.holders[b] # "held" /\ v1[b].status = "in_progress")
                         => RigOf[b] \in v9)'
      <3>1. /\ \A b \in v11 \cap DOMAIN v6.holders : RigOf[b] \in v9
            /\ v6.events \subseteq v9
            /\ \A b \in DOMAIN v6.holders :
                 v6.holders[b] = "orphaned"
                   \/ (v6.holders[b] # "held" /\ v1[b].status = "in_progress")
                   => RigOf[b] \in v9
        BY <1>1, <2>1 DEF Water!WorkMoved
      <3>2. ASSUME NEW b \in DOMAIN v6.holders, RigOf[b] \notin Water!Unavailable(r),
                   b \notin DOMAIN h \/ (v6.holders[b] # "held" /\ h[b] = "held")
            PROVE  RigOf[b] \in v9
        <4>1. CASE b \notin DOMAIN h
          <5>1. b \in v11
            BY <1>6, <2>1, <3>2, <4>1
          <5> QED
            BY <3>1, <5>1
        <4>2. CASE b \in DOMAIN h
          <5>1. b \in Water!Drawn(r)
            BY <1>6, <3>2, <4>2
          <5>2. Water!Items(r)[b].status = "in_progress"
            BY <1>7, <3>2, <4>2, <5>1
          <5> QED
            BY <2>1, <3>2, <4>2, <5>1, <5>2
        <4> QED
          BY <4>1, <4>2
      <3>3. Water!Events(r, h, v6.holders) \subseteq v9
        BY <3>2 DEF Water!Events
      <3>4. v6'.events \subseteq v9'
        BY <1>4, <1>8, <3>1, <3>3
      <3>5. ASSUME NEW b \in DOMAIN h, h[b] = "orphaned" \/ (h[b] # "held" /\ v1[b].status = "in_progress")
            PROVE  RigOf[b] \in v9'
        <4>1. CASE b \in Water!Drawn(r)
          <5>1. CASE h[b] = "orphaned"
            BY <1>8, <4>1, <5>1
          <5>2. CASE h[b] # "orphaned"
            <6>1. Water!Items(r)[b].status # "in_progress"
              BY <1>7, <3>5, <4>1, <5>2
            <6> QED
              BY <1>8, <2>1, <3>5, <4>1, <5>2, <6>1
          <5> QED
            BY <5>1, <5>2
        <4>2. CASE b \notin Water!Drawn(r)
          BY <1>6, <1>8, <3>1, <3>5, <4>2
        <4> QED
          BY <4>1, <4>2
      <3>6. ASSUME NEW b \in v11' \cap DOMAIN h PROVE RigOf[b] \in v9'
        <4>1. b \in v11 /\ (b \in Water!Drawn(r) => ~Water!Shown(v1[b]))
          BY <1>4, <3>6
        <4>2. CASE b \in Water!Drawn(r)
          BY <1>8, <2>1, <4>1, <4>2
        <4>3. CASE b \notin Water!Drawn(r)
          BY <1>6, <1>8, <3>1, <3>6, <4>1, <4>3
        <4> QED
          BY <4>2, <4>3
      <3> QED
        BY <1>2, <1>3, <2>1, <3>4, <3>5, <3>6
    <2> QED
      BY <2>1 DEF Water!WorkMoved
  <1>11. Water!EatenHasLeft'
    <2>1. ASSUME Water!SameKey', NEW b \in v7'.eaten PROVE b \in v11'
      <3>1. b \in DOMAIN v6.holders \ DOMAIN h
        BY <1>4, <2>1 DEF Water!Eaten
      <3> QED
        BY <1>4, <1>6, <2>1, <3>1
    <2> QED
      BY <2>1 DEF Water!EatenHasLeft
  <1>12. Water!MovingMeansMoved'
    BY <1>4, <1>10 DEF Water!MovingMeansMoved, Water!SnapshotIsRead, Water!WorkMoved
  <1>13. Water!FishStay
    <2>1. v7.fish = DOMAIN v6.seen /\ v7'.fish = DOMAIN v6'.seen
      BY <1>1, <1>4 DEF Water!SnapshotIsRead
    <2>2. \A s \in DOMAIN v6.seen : v6.seen[s] < Window => s \in DOMAIN v6'.seen
      BY <1>4, <1>5, WaterSeenIs
    <2>3. \A s \in DOMAIN v6.seen : v6.seen[s] \in 0 .. Window
      BY <1>5, WaterSeenIs
    <2>4. ASSUME NEW s \in DOMAIN v6.seen, s \notin DOMAIN v6'.seen PROVE v6.seen[s] >= Window
      <3>1. ~(v6.seen[s] < Window) /\ v6.seen[s] \in 0 .. Window /\ Window \in Nat
        BY <2>2, <2>3, <2>4 DEF Water!Assumptions
      <3> QED
        BY <3>1
    <2> QED
      BY <2>1, <2>4 DEF Water!FishStay
  <1>14. Water!NothingIsMissed'
    <2>1. \A b \in ReefBeads \ v11' : b \notin v11 \/ (b \in Water!Drawn(r) /\ Water!Shown(v1[b]))
      BY <1>4
    <2>2. (\A b \in ReefBeads \ v11 : Water!Shown(v1[b]))'
      BY <1>1, <1>2, <2>1 DEF Water!NothingIsMissed
    <2>3. ASSUME Water!SameKey'
          PROVE  (/\ DOMAIN v5 \subseteq {{}, Water!RigNames(v4)}
                  /\ \A b \in ReefBeads \ v11 :
                       RigOf[b] \in Water!Asked(v4) \ Water!Unavailable(v4) => b \in Water!Drawn(v4))'
      BY <2>1, <2>3
    <2> QED
      BY <2>2, <2>3 DEF Water!NothingIsMissed
  <1> QED
    BY <1>4, <1>9, <1>10, <1>11, <1>12, <1>13, <1>14 DEF Water!IInv

\* What the reads hold of an invariant state.
LEMMA WaterReadHolds ==
  ASSUME Water!Assumptions, Water!IInv
  PROVE  /\ v4 \in WaterReadsSet /\ Water!RigNames(v4) \subseteq Rigs
         /\ DOMAIN v6.holders \subseteq ReefBeads /\ DOMAIN Water!Items(v4) \subseteq ReefBeads
         /\ \A b \in DOMAIN Water!Items(v4) : RigOf[b] \in Water!Asked(v4)
         /\ Water!Unavailable(v4) \subseteq Water!Asked(v4) /\ Water!Asked(v4) \subseteq Water!RigNames(v4)
         /\ v4.beads # None => Water!Asked(v4) = Water!RigNames(v4) /\ Water!Answers(v4.beads)
         /\ \A b \in Water!Drawn(v4) : v6.holders[b] = Water!Pellet(Water!Items(v4)[b], Water!Live(v4))
  <1>1. v4 \in WaterReadsSet /\ v6.holders \in Water!Partial(ReefBeads, Water!Pellets)
    BY DEF Water!IInv, Water!TypeOK, WaterReadsSet
  <1>2. v4.beads # None => Water!RigNames(v4) \in DOMAIN v5 /\ v4.beads = v5[Water!RigNames(v4)]
    BY DEF Water!IInv, Water!ReadsAreKept
  <1>3. v4.beads # None => v4.beads.rigs = Water!RigNames(v4) /\ Water!Answers(v4.beads)
    BY <1>2 DEF Water!IInv, Water!ReadsAreKept
  <1>4. DOMAIN v6.holders \subseteq ReefBeads
    BY <1>1, WaterPartialIs
  <1>5. /\ Water!RigNames(v4) \subseteq Rigs /\ DOMAIN Water!Items(v4) \subseteq ReefBeads
        /\ v4.beads = None => DOMAIN Water!Items(v4) = {} /\ Water!Asked(v4) = {} /\ Water!Unavailable(v4) = {}
        /\ v4.beads # None => Water!Items(v4) = v4.beads.items /\ Water!Asked(v4) = v4.beads.rigs /\ Water!Unavailable(v4) = v4.beads.lost
    BY <1>1, WaterReadIs
  <1>6. \A b \in Water!Drawn(v4) : v6.holders[b] = Water!Pellet(Water!Items(v4)[b], Water!Live(v4))
    BY DEF Water!IInv, Water!SnapshotIsRead, Water!HoldersAreRead
  <1>7. CASE v4.beads = None
    BY <1>1, <1>4, <1>5, <1>6, <1>7
  <1>8. CASE v4.beads # None
    <2>1. /\ Water!Unavailable(v4) \subseteq Water!Asked(v4) /\ Water!Asked(v4) = Water!RigNames(v4)
          /\ \A b \in DOMAIN Water!Items(v4) : RigOf[b] \in Water!Asked(v4)
      BY <1>3, <1>5, <1>8 DEF Water!Answers
    <2> QED
      BY <1>1, <1>3, <1>4, <1>5, <1>6, <2>1
  <1> QED
    BY <1>7, <1>8

\* While the beads are those that were read, what is in progress and was not
\* held was picked up.
LEMMA WaterSameItems ==
  ASSUME Water!Assumptions, Water!IInv, Water!SameKey, NEW b \in Water!Drawn(v4)
  PROVE  /\ b \in DOMAIN v6.holders
         /\ Water!Items(v4)[b].status = "in_progress" /\ v6.holders[b] # "held" => RigOf[b] \in v9
         /\ Water!Items(v4)[b].status # "in_progress" /\ v1[b].status = "in_progress" => RigOf[b] \in v9
  <1>1. v6.holders[b] = Water!Pellet(Water!Items(v4)[b], Water!Live(v4)) /\ Water!Items(v4)[b].status \in Water!Listed
    BY WaterReadHolds, WaterReadIs
  <1>2. b \in DOMAIN v6.holders
    BY DEF Water!IInv, Water!HoldersAreRead
  <1>3. v6.holders[b] = "orphaned" \/ (v6.holders[b] # "held" /\ v1[b].status = "in_progress")
          => RigOf[b] \in v9
    BY <1>2 DEF Water!IInv, Water!WorkMoved
  <1>4. Water!Items(v4)[b].status = "in_progress" /\ v6.holders[b] # "held" => v6.holders[b] = "orphaned"
    BY <1>1, WaterPelletIs
  <1>5. Water!Items(v4)[b].status # "in_progress" => v6.holders[b] # "held"
    BY <1>1, WaterPelletIs
  <1> QED
    BY <1>2, <1>3, <1>4, <1>5

\* A list that lands names some of what there is.
LEMMA WaterSampleIs == ASSUME NEW S, NEW all \in SUBSET S, NEW answer \in Water!Sample(all) PROVE answer \in Water!Names(S)
  <1>1. PICK part \in SUBSET all : answer = [names |-> part, whole |-> part = all]
    BY DEF Water!Sample
  <1>2. PICK whole \in BOOLEAN : whole <=> part = all
    OBVIOUS
  <1>3. answer = [names |-> part, whole |-> whole]
    <2>1. (part = all) = whole
      BY <1>2
    <2> QED
      BY <1>1, <2>1, Zenon
  <1> QED
    BY <1>3 DEF Water!Names

LEMMA WaterSessionsLandIInv == ASSUME Water!Assumptions, Water!IInv, Water!SessionsLand PROVE Water!IInv' /\ Water!FishStay
  <1>1. PICK answer \in Water!Sample(v2) :
          /\ v4' = [v4 EXCEPT !.sessions = answer]
          /\ Water!Derive([v4 EXCEPT !.sessions = answer])
    BY DEF Water!SessionsLand
  <1>2. UNCHANGED <<v1, v2, v3, v8, v5, v10>> /\ UNCHANGED Water!city
    BY DEF Water!SessionsLand, Water!city
  <1>3. PICK r : r = [v4 EXCEPT !.sessions = answer]
    OBVIOUS
  <1>4. v4 \in WaterReadsSet /\ v2 \subseteq Workers /\ Water!TypeOK
    BY DEF Water!IInv, Water!TypeOK, WaterReadsSet
  <1>5. r \in WaterReadsSet /\ r.rigs = v4.rigs /\ r.beads = v4.beads
    <2>1. answer \in Water!Names(Workers)
      BY <1>4, WaterSampleIs
    <2> QED
      BY <1>3, <1>4, <2>1 DEF WaterReadsSet
  <1>6. Water!RigNames(r) = Water!RigNames(v4) /\ Water!Items(r) = Water!Items(v4) /\ Water!Unavailable(r) = Water!Unavailable(v4)
        /\ Water!Asked(r) = Water!Asked(v4) /\ Water!Drawn(r) = Water!Drawn(v4)
    BY <1>5 DEF Water!RigNames, Water!Items, Water!Unavailable, Water!Asked, Water!Drawn
  <1>7. Water!ReadsAreKept'
    <2>1. \A key \in DOMAIN v5 : v5[key].rigs = key /\ Water!Answers(v5[key])'
      BY <1>2 DEF Water!IInv, Water!ReadsAreKept, Water!Answers
    <2>2. v4'.beads = IF Water!RigNames(r) \in DOMAIN v5 THEN v5[Water!RigNames(r)] ELSE None
      BY <1>1, <1>3, <1>5, <1>6 DEF Water!IInv, Water!ReadsAreKept
    <2> QED
      BY <1>1, <1>2, <1>3, <2>1, <2>2 DEF Water!ReadsAreKept, Water!Answers
  <1>8. Water!SameKey' => Water!SameKey
    BY <1>2 DEF Water!SameKey
  <1>9. \A b \in DOMAIN v6.holders \ Water!Drawn(r) : RigOf[b] \in Water!Unavailable(r)
    BY <1>6 DEF Water!IInv, Water!HoldersAreRead
  <1>10. Water!SameKey' =>
           /\ DOMAIN v5' \subseteq {{}, Water!RigNames(r)}
           /\ \A b \in ReefBeads \ v11 :
                RigOf[b] \in Water!Asked(r) \ Water!Unavailable(r) => b \in Water!Drawn(r)
    BY <1>2, <1>6, <1>8 DEF Water!IInv, Water!NothingIsMissed
  <1>11. Water!SameKey' => \A b \in Water!Drawn(r) \cap v11 : RigOf[b] \in v9
    BY <1>6, <1>8 DEF Water!IInv, Water!HoldersAreRead, Water!WorkMoved
  <1>12. Water!SameKey' => \A b \in Water!Drawn(r) :
           /\ Water!Items(r)[b].status = "in_progress" /\ v6.holders[b] # "held" => RigOf[b] \in v9
           /\ Water!Items(r)[b].status # "in_progress" /\ v1[b].status = "in_progress" => RigOf[b] \in v9
    BY <1>6, <1>8, WaterSameItems
  <1>13. DOMAIN v5' \subseteq SUBSET Rigs /\ v5' \in [DOMAIN v5' -> Water!BeadReads] /\ v10' \in BOOLEAN
    BY <1>2, <1>4 DEF Water!TypeOK
  <1>14. v4' = r /\ Water!Derive(r)
    BY <1>1, <1>3
  <1> QED
    BY <1>2, <1>5, <1>7, <1>8, <1>9, <1>10, <1>11, <1>12, <1>13, <1>14, WaterLandsIInv

LEMMA WaterRigsLandIInv == ASSUME Water!Assumptions, Water!IInv, Water!RigsLand PROVE Water!IInv' /\ Water!FishStay
  <1>1. PICK answer \in Water!Sample(v3) :
          LET same == v4.rigs # None /\ answer.names = Water!RigNames(v4)
              beads == IF answer.names \in DOMAIN v5 THEN v5[answer.names] ELSE None
              r == IF same THEN [v4 EXCEPT !.rigs = answer]
                   ELSE [v4 EXCEPT !.rigs = answer, !.beads = beads]
          IN  /\ v4' = r /\ Water!Derive(r)
              /\ v10' = (v10 \/ (~same /\ \E key \in DOMAIN v5 : key # {}))
    BY DEF Water!RigsLand
  <1>2. UNCHANGED <<v1, v2, v3, v8, v5>> /\ UNCHANGED Water!city
    BY DEF Water!RigsLand, Water!city
  <1>3. v4 \in WaterReadsSet /\ v3 \subseteq Rigs /\ Water!TypeOK
    BY DEF Water!IInv, Water!TypeOK, WaterReadsSet
  <1>4. answer \in Water!Names(Rigs) /\ answer # None
    BY <1>3, WaterSampleIs DEF Water!Assumptions
  <1>5. PICK same \in BOOLEAN : same <=> v4.rigs # None /\ answer.names = Water!RigNames(v4)
    OBVIOUS
  <1>6. PICK beads : beads = IF answer.names \in DOMAIN v5 THEN v5[answer.names] ELSE None
    OBVIOUS
  <1>7. PICK r : r = IF same THEN [v4 EXCEPT !.rigs = answer] ELSE [v4 EXCEPT !.rigs = answer, !.beads = beads]
    OBVIOUS
  <1>8. v4' = r /\ Water!Derive(r) /\ (v10' <=> v10 \/ (~same /\ \E key \in DOMAIN v5 : key # {})) /\ v10' \in BOOLEAN
    BY <1>1, <1>3, <1>5, <1>6, <1>7 DEF Water!TypeOK
  <1>9. answer.names \in DOMAIN v5 => beads \in Water!BeadReads /\ beads = v5[answer.names]
    BY <1>3, <1>6 DEF Water!TypeOK
  <1>10. beads \in Water!BeadReads \cup {None}
    BY <1>6, <1>9
  <1>11. r.rigs = answer /\ (same => r.beads = v4.beads) /\ (~same => r.beads = beads) /\ r \in WaterReadsSet
    <2>1. CASE same
      BY <1>3, <1>4, <1>7, <2>1 DEF WaterReadsSet
    <2>2. CASE ~same
      BY <1>3, <1>4, <1>7, <1>10, <2>2 DEF WaterReadsSet
    <2> QED
      BY <2>1, <2>2
  <1>12. Water!RigNames(r) = answer.names
    BY <1>4, <1>11 DEF Water!RigNames
  <1>13. r.beads = IF Water!RigNames(r) \in DOMAIN v5 THEN v5[Water!RigNames(r)] ELSE None
    <2>1. CASE same
      BY <1>5, <1>11, <1>12, <2>1 DEF Water!IInv, Water!ReadsAreKept
    <2>2. CASE ~same
      BY <1>6, <1>11, <1>12, <2>2
    <2> QED
      BY <2>1, <2>2
  <1>14. Water!ReadsAreKept'
    <2>1. \A key \in DOMAIN v5 : v5[key].rigs = key /\ Water!Answers(v5[key])'
      BY <1>2 DEF Water!IInv, Water!ReadsAreKept, Water!Answers
    <2> QED
      BY <1>2, <1>8, <1>13, <2>1 DEF Water!ReadsAreKept, Water!Answers
  <1>15. DOMAIN v5' \subseteq SUBSET Rigs /\ v5' \in [DOMAIN v5' -> Water!BeadReads]
    BY <1>2, <1>3 DEF Water!TypeOK
  <1>16. ASSUME Water!SameKey'
         PROVE  /\ Water!SameKey
                /\ \A b \in DOMAIN v6.holders \ Water!Drawn(r) :
                     RigOf[b] \in Water!Unavailable(r) \/ b \in v11
                /\ \A b \in ReefBeads \ v11 :
                     RigOf[b] \in Water!Asked(r) \ Water!Unavailable(r) => b \in Water!Drawn(r)
                /\ \A b \in Water!Drawn(r) \cap v11 : Water!Shown(v1[b]) \/ RigOf[b] \in v9
                /\ \A b \in DOMAIN v6.holders \cap Water!Drawn(r) :
                     Water!Items(r)[b].status = "in_progress" /\ v6.holders[b] # "held" => RigOf[b] \in v9
                /\ \A b \in Water!Drawn(r) :
                     Water!Items(r)[b].status # "in_progress" /\ v1[b].status = "in_progress" => RigOf[b] \in v9
                /\ DOMAIN v5' \subseteq {{}, Water!RigNames(r)}
    <2>1. Water!SameKey /\ (same \/ DOMAIN v5 \subseteq {{}})
      BY <1>8, <1>16 DEF Water!SameKey
    <2>2. /\ DOMAIN v5 \subseteq {{}, Water!RigNames(v4)}
          /\ \A b \in ReefBeads \ v11 :
               RigOf[b] \in Water!Asked(v4) \ Water!Unavailable(v4) => b \in Water!Drawn(v4)
      BY <2>1 DEF Water!IInv, Water!NothingIsMissed
    <2>3. CASE same
      <3>1. Water!Items(r) = Water!Items(v4) /\ Water!Unavailable(r) = Water!Unavailable(v4) /\ Water!RigNames(r) = Water!RigNames(v4)
            /\ Water!Asked(r) = Water!Asked(v4) /\ Water!Drawn(r) = Water!Drawn(v4)
        BY <1>5, <1>11, <1>12, <2>3 DEF Water!Items, Water!Unavailable, Water!Asked, Water!Drawn
      <3>2. \A b \in DOMAIN v6.holders \ Water!Drawn(r) : RigOf[b] \in Water!Unavailable(r)
        BY <3>1 DEF Water!IInv, Water!HoldersAreRead
      <3>3. \A b \in Water!Drawn(r) :
              /\ Water!Items(r)[b].status = "in_progress" /\ v6.holders[b] # "held" => RigOf[b] \in v9
              /\ Water!Items(r)[b].status # "in_progress" /\ v1[b].status = "in_progress" => RigOf[b] \in v9
        BY <2>1, <3>1, WaterSameItems
      <3>4. \A b \in Water!Drawn(r) \cap v11 : RigOf[b] \in v9
        BY <2>1, <3>1 DEF Water!IInv, Water!HoldersAreRead, Water!WorkMoved
      <3> QED
        BY <1>2, <2>1, <2>2, <3>1, <3>2, <3>3, <3>4
    <2>4. CASE ~same
      <3>1. Water!Unavailable(v4) = {} /\ Water!Asked(v4) = {}
        <4>1. v4.beads # None => Water!RigNames(v4) = {}
          BY <2>1, <2>4 DEF Water!IInv, Water!ReadsAreKept
        <4> QED
          BY <4>1, <1>3, WaterReadHolds, WaterReadIs
      <3>2. DOMAIN v6.holders = {}
        <4>1. Water!Drawn(v4) = {}
          BY <1>3, <3>1, WaterReadHolds, WaterReadIs
        <4> QED
          BY <3>1, <4>1 DEF Water!IInv, Water!HoldersAreRead
      <3>3. Water!Asked(r) = {} /\ Water!Drawn(r) = {}
        <4>1. CASE r.beads = None
          BY <1>11, <4>1, WaterReadIs
        <4>2. CASE r.beads # None
          <5>1. Water!RigNames(r) = {} /\ Water!RigNames(r) \in DOMAIN v5 /\ r.beads = v5[Water!RigNames(r)]
            BY <1>13, <2>1, <2>4, <4>2
          <5>2. r.beads.rigs = {} /\ \A b \in DOMAIN r.beads.items : RigOf[b] \in r.beads.rigs
            BY <5>1 DEF Water!IInv, Water!ReadsAreKept, Water!Answers
          <5>3. Water!Asked(r) = {} /\ DOMAIN Water!Items(r) = {}
            BY <1>11, <4>2, <5>2, WaterReadIs
          <5> QED
            BY <1>11, <5>3, WaterReadIs
        <4> QED
          BY <4>1, <4>2
      <3> QED
        BY <1>2, <2>1, <2>4, <3>2, <3>3
    <2> QED
      BY <2>3, <2>4
  <1> QED
    BY <1>2, <1>8, <1>11, <1>14, <1>15, <1>16, WaterLandsIInv

LEMMA WaterBeadsLandIInv == ASSUME Water!Assumptions, Water!IInv, Water!BeadsLand PROVE Water!IInv' /\ Water!FishStay
  <1>0. PICK lost \in SUBSET Water!RigNames(v4) :
          \E missing \in SUBSET {b \in ReefBeads : RigOf[b] \in lost} :
            LET there == {b \in ReefBeads \ missing :
                            RigOf[b] \in Water!RigNames(v4) /\ Water!Fed(v1[b])}
                answer == [rigs |-> Water!RigNames(v4), lost |-> lost, items |-> Water!Restrict(v1, there)]
                r == [v4 EXCEPT !.beads = answer]
            IN  /\ v4' = r /\ Water!Derive(r)
                /\ v5' = Water!Over([key \in {Water!RigNames(v4)} |-> answer], v5)
    BY DEF Water!BeadsLand
  <1>1. PICK missing \in SUBSET {b \in ReefBeads : RigOf[b] \in lost} :
          LET there == {b \in ReefBeads \ missing :
                          RigOf[b] \in Water!RigNames(v4) /\ Water!Fed(v1[b])}
              answer == [rigs |-> Water!RigNames(v4), lost |-> lost, items |-> Water!Restrict(v1, there)]
              r == [v4 EXCEPT !.beads = answer]
          IN  /\ v4' = r /\ Water!Derive(r)
              /\ v5' = Water!Over([key \in {Water!RigNames(v4)} |-> answer], v5)
    BY <1>0
  <1>2. UNCHANGED <<v1, v2, v3, v8, v10>> /\ UNCHANGED Water!city
    BY DEF Water!BeadsLand, Water!city
  <1>3. PICK there : there = {b \in ReefBeads \ missing : RigOf[b] \in Water!RigNames(v4) /\ Water!Fed(v1[b])}
    OBVIOUS
  <1>4. PICK items : items = Water!Restrict(v1, there)
    OBVIOUS
  <1>5. PICK answer : answer = [rigs |-> Water!RigNames(v4), lost |-> lost, items |-> items]
    OBVIOUS
  <1>6. PICK r : r = [v4 EXCEPT !.beads = answer]
    OBVIOUS
  <1>7. PICK one : one = [key \in {Water!RigNames(v4)} |-> answer]
    OBVIOUS
  <1>8. v4' = r /\ Water!Derive(r) /\ v5' = Water!Over(one, v5)
    BY <1>1, <1>3, <1>4, <1>5, <1>6, <1>7
  <1>9. /\ v4 \in WaterReadsSet /\ Water!TypeOK /\ Water!RigNames(v4) \subseteq Rigs
        /\ DOMAIN v6.holders \subseteq ReefBeads
        /\ Water!Unavailable(v4) \subseteq Water!RigNames(v4)
        /\ \A b \in DOMAIN Water!Items(v4) : RigOf[b] \in Water!RigNames(v4)
    BY WaterReadHolds DEF Water!IInv
  <1>10. DOMAIN items = there /\ \A b \in there : items[b] = v1[b]
    BY <1>4 DEF Water!Restrict
  <1>11. v1 \in [ReefBeads -> Water!States] /\ there \subseteq ReefBeads
    BY <1>3, <1>9 DEF Water!TypeOK
  <1>12. answer \in Water!BeadReads /\ answer # None
    <2>1. items \in Water!Partial(ReefBeads, Water!States)
      <3>1. items \in [there -> Water!States]
        BY <1>4, <1>11 DEF Water!Restrict
      <3> QED
        BY <1>11, <3>1 DEF Water!Partial
    <2> QED
      BY <1>5, <1>9, <2>1 DEF Water!BeadReads, Water!Assumptions
  <1>13. answer.rigs = Water!RigNames(v4) /\ answer.lost = lost /\ answer.items = items
    BY <1>5
  <1>14. r \in WaterReadsSet /\ r.beads = answer /\ r.rigs = v4.rigs
    BY <1>6, <1>9, <1>12 DEF WaterReadsSet
  <1>15. Water!RigNames(r) = Water!RigNames(v4) /\ Water!Items(r) = items /\ Water!Unavailable(r) = lost
         /\ Water!Asked(r) = Water!RigNames(v4)
    BY <1>12, <1>13, <1>14 DEF Water!RigNames, Water!Items, Water!Unavailable, Water!Asked
  <1>16. Water!Answers(answer)
    BY <1>3, <1>10, <1>13 DEF Water!Answers
  <1>17. /\ DOMAIN v5' = DOMAIN v5 \cup {Water!RigNames(v4)}
         /\ v5'[Water!RigNames(v4)] = answer
         /\ \A key \in DOMAIN v5 \ {Water!RigNames(v4)} : v5'[key] = v5[key]
    BY <1>7, <1>8 DEF Water!Over
  <1>18. DOMAIN v5' \subseteq SUBSET Rigs /\ v5' \in [DOMAIN v5' -> Water!BeadReads]
    <2>1. DOMAIN v5 \subseteq SUBSET Rigs /\ v5 \in [DOMAIN v5 -> Water!BeadReads]
      BY <1>9 DEF Water!TypeOK
    <2>2. \A key \in DOMAIN v5' : v5'[key] \in Water!BeadReads
      BY <1>12, <1>17, <2>1
    <2>3. v5' = [key \in DOMAIN v5' |-> v5'[key]]
      BY <1>8, WaterOverIsFunction
    <2> QED
      BY <1>9, <1>17, <2>1, <2>2, <2>3
  <1>19. Water!ReadsAreKept'
    <2>1. \A key \in DOMAIN v5 : v5[key].rigs = key /\ Water!Answers(v5[key])
      BY DEF Water!IInv, Water!ReadsAreKept
    <2>2. \A key \in DOMAIN v5' : v5'[key].rigs = key /\ Water!Answers(v5'[key])
      BY <1>13, <1>16, <1>17, <2>1
    <2>3. (\A key \in DOMAIN v5 : v5[key].rigs = key /\ Water!Answers(v5[key]))'
      BY <1>2, <2>2 DEF Water!Answers
    <2>4. (v4.beads = IF Water!RigNames(v4) \in DOMAIN v5 THEN v5[Water!RigNames(v4)] ELSE None)'
      BY <1>8, <1>14, <1>15, <1>17
    <2> QED
      BY <2>3, <2>4 DEF Water!ReadsAreKept
  <1>20. Water!Drawn(r) = {b \in there : v1[b].status \in Water!Listed}
    BY <1>10, <1>15 DEF Water!Drawn
  <1>21. \A b \in Water!Drawn(r) : Water!Shown(v1[b]) /\ Water!Items(r)[b] = v1[b]
    BY <1>3, <1>10, <1>15, <1>20 DEF Water!Shown, Water!Fed
  <1>22. ASSUME NEW b \in ReefBeads \ v11, RigOf[b] \in Water!RigNames(v4) \ lost PROVE b \in Water!Drawn(r)
    <2>1. Water!Shown(v1[b])
      BY <1>22 DEF Water!IInv, Water!NothingIsMissed
    <2>2. Water!Fed(v1[b]) /\ v1[b].status \in Water!Listed
      BY <2>1 DEF Water!Shown, Water!Fed, Water!Listed
    <2>3. b \notin missing
      BY <1>1, <1>22
    <2> QED
      BY <1>3, <1>20, <1>22, <2>2, <2>3
  <1>23. \A b \in DOMAIN v6.holders \ Water!Drawn(r) : RigOf[b] \in lost \/ b \in v11
    <2>1. \A b \in DOMAIN v6.holders : RigOf[b] \in Water!RigNames(v4)
      BY <1>9, WaterReadIs DEF Water!IInv, Water!HoldersAreRead
    <2> QED
      BY <1>9, <1>22, <2>1
  <1>24. ASSUME Water!SameKey'
         PROVE  /\ Water!SameKey
                /\ \A b \in DOMAIN v6.holders \cap Water!Drawn(r) :
                     Water!Items(r)[b].status = "in_progress" /\ v6.holders[b] # "held" => RigOf[b] \in v9
                /\ DOMAIN v5' \subseteq {{}, Water!RigNames(r)}
    <2>1. Water!SameKey
      BY <1>2, <1>24 DEF Water!SameKey
    <2>2. \A b \in DOMAIN v6.holders :
            v6.holders[b] # "held" /\ v1[b].status = "in_progress" => RigOf[b] \in v9
      BY <2>1 DEF Water!IInv, Water!WorkMoved
    <2>3. DOMAIN v5 \subseteq {{}, Water!RigNames(v4)}
      BY <2>1 DEF Water!IInv, Water!NothingIsMissed
    <2> QED
      BY <1>15, <1>17, <1>21, <2>1, <2>2, <2>3
  <1>25. v10' \in BOOLEAN
    BY <1>2, <1>9 DEF Water!TypeOK
  <1> QED
    BY <1>2, <1>8, <1>14, <1>15, <1>18, <1>19, <1>21, <1>22, <1>23, <1>24, <1>25, WaterLandsIInv

\* The snapshot stays, while what it was drawn from does.
LEMMA WaterSnapshotStays ==
  ASSUME Water!SnapshotIsRead, v4' = v4, v7' = v7, v6'.holders = v6.holders,
         v6'.events = v6.events, DOMAIN v6'.seen = DOMAIN v6.seen
  PROVE  Water!SnapshotIsRead'
  <1>1. PICK s : s = v7
    OBVIOUS
  <1>2. PICK r : r = v4
    OBVIOUS
  <1>3. PICK h : h = v6.holders
    OBVIOUS
  <1>4. /\ DOMAIN s.states = Water!Drawn(r)
        /\ \A b \in Water!Drawn(r) : s.states[b] = Water!Pellet(Water!Items(r)[b], Water!Live(r))
        /\ s.fish = DOMAIN v6.seen
        /\ s.moving \subseteq v6.events
    BY <1>1, <1>2 DEF Water!SnapshotIsRead
  <1>5. s.pellets = UNION {Water!Rendered(s.states, rg) : rg \in Water!Asked(r)}
    BY <1>1, <1>2 DEF Water!SnapshotIsRead
  <1>6. s.overflow = [rg \in Water!Asked(r) |->
          Water!Cardinality({b \in DOMAIN s.states : RigOf[b] = rg}) - Water!Cardinality(Water!Rendered(s.states, rg))]
    BY <1>1, <1>2 DEF Water!SnapshotIsRead
  <1>7. s.stranded = Water!Stranded(r) /\ s.p0Waiting = Water!Cardinality(Water!P0Waiting(r, h))
    BY <1>1, <1>2, <1>3 DEF Water!SnapshotIsRead
  <1>8. v7' = s /\ v4' = r /\ v6'.holders = h
    BY <1>1, <1>2, <1>3
  <1>9. (/\ DOMAIN v7.states = Water!Drawn(v4)
         /\ \A b \in Water!Drawn(v4) : v7.states[b] = Water!Pellet(Water!Items(v4)[b], Water!Live(v4))
         /\ v7.fish = DOMAIN v6.seen
         /\ v7.moving \subseteq v6.events)'
    BY <1>4, <1>8
  <1>10. (v7.pellets = UNION {Water!Rendered(v7.states, rg) : rg \in Water!Asked(v4)})'
    BY <1>5, <1>8
  <1>11. (v7.overflow = [rg \in Water!Asked(v4) |->
          Water!Cardinality({b \in DOMAIN v7.states : RigOf[b] = rg}) - Water!Cardinality(Water!Rendered(v7.states, rg))])'
    BY <1>6, <1>8
  <1>12. (v7.stranded = Water!Stranded(v4) /\ v7.p0Waiting = Water!Cardinality(Water!P0Waiting(v4, v6.holders)))'
    BY <1>7, <1>8
  <1> QED
    BY <1>9, <1>10, <1>11, <1>12 DEF Water!SnapshotIsRead

\* A change of the city: what left or was taken up counts as moved.
LEMMA WaterCityIInv ==
  ASSUME Water!Assumptions, Water!IInv, UNCHANGED <<v4, v5, v6, v7, v10>>,
         v1' \in [ReefBeads -> Water!States], v2' \subseteq Workers, v3' \subseteq Rigs,
         v9 \subseteq v9', v9' \subseteq Rigs, v11 \subseteq v11', v11' \subseteq ReefBeads,
         \A b \in ReefBeads :
           /\ b \in v11' \/ Water!Shown(v1'[b])
           /\ b \in v11' => b \in v11 \/ RigOf[b] \in v9'
           /\ v1'[b].status = "in_progress" => v1[b].status = "in_progress" \/ RigOf[b] \in v9'
  PROVE  Water!IInv'
  <1>1. Water!TypeOK'
    BY DEF Water!IInv, Water!TypeOK
  <1>2. Water!ReadsAreKept'
    BY DEF Water!IInv, Water!ReadsAreKept
  <1>3. Water!SnapshotIsRead'
    BY WaterSnapshotStays DEF Water!IInv
  <1>4. Water!HoldersAreRead'
    BY DEF Water!IInv, Water!HoldersAreRead
  <1>5. DOMAIN v6.holders \subseteq ReefBeads
    BY WaterReadHolds
  <1>6. Water!SameKey' <=> Water!SameKey
    BY DEF Water!SameKey
  <1>7. Water!NothingIsMissed'
    <2>1. (\A b \in ReefBeads \ v11 : Water!Shown(v1[b]))'
      OBVIOUS
    <2>2. ASSUME Water!SameKey
          PROVE  (/\ DOMAIN v5 \subseteq {{}, Water!RigNames(v4)}
                  /\ \A b \in ReefBeads \ v11 :
                       RigOf[b] \in Water!Asked(v4) \ Water!Unavailable(v4) => b \in Water!Drawn(v4))'
      BY <2>2 DEF Water!IInv, Water!NothingIsMissed
    <2> QED
      BY <1>6, <2>1, <2>2 DEF Water!NothingIsMissed
  <1>8. Water!WorkMoved'
    BY <1>5, <1>6 DEF Water!IInv, Water!WorkMoved
  <1>9. Water!EatenHasLeft' /\ Water!MovingMeansMoved'
    BY <1>6 DEF Water!IInv, Water!EatenHasLeft, Water!MovingMeansMoved
  <1> QED
    BY <1>1, <1>2, <1>3, <1>4, <1>7, <1>8, <1>9 DEF Water!IInv

\* A bead changes, and no other.
LEMMA WaterBeadChanges ==
  ASSUME Water!Assumptions, Water!IInv, NEW b \in ReefBeads, NEW item \in Water!States, v1' = [v1 EXCEPT ![b] = item],
         UNCHANGED <<v4, v5, v6, v7, v10, v2, v3>>,
         v11' = v11 \cup {b} \/ (v11' = v11 /\ (b \in v11 \/ Water!Shown(item))),
         \/ v9' = v9 \cup {RigOf[b]}
         \/ v9' = v9 /\ v11' = v11 /\ (item.status = "in_progress" => v1[b].status = "in_progress")
  PROVE  Water!IInv'
  <1>1. v1 \in [ReefBeads -> Water!States] /\ v2 \subseteq Workers /\ v3 \subseteq Rigs /\ v9 \subseteq Rigs
        /\ v11 \subseteq ReefBeads /\ RigOf \in [ReefBeads -> Rigs]
    BY DEF Water!IInv, Water!TypeOK, Water!Assumptions
  <1>2. v1' \in [ReefBeads -> Water!States] /\ v1'[b] = item /\ \A c \in ReefBeads \ {b} : v1'[c] = v1[c]
    BY <1>1
  <1>3. v9 \subseteq v9' /\ v9' \subseteq Rigs /\ v11 \subseteq v11' /\ v11' \subseteq ReefBeads /\ v11' \subseteq v11 \cup {b}
    BY <1>1
  <1>4. \A c \in ReefBeads \ v11 : Water!Shown(v1[c])
    BY DEF Water!IInv, Water!NothingIsMissed
  <1>5. ASSUME NEW c \in ReefBeads
        PROVE  /\ c \in v11' \/ Water!Shown(v1'[c])
               /\ c \in v11' => c \in v11 \/ RigOf[c] \in v9'
               /\ v1'[c].status = "in_progress" => v1[c].status = "in_progress" \/ RigOf[c] \in v9'
    <2>1. CASE c = b
      BY <1>2, <2>1
    <2>2. CASE c # b
      <3>1. c \in v11 \/ Water!Shown(v1'[c])
        BY <1>2, <1>4, <2>2
      <3> QED
        BY <1>2, <1>3, <2>2, <3>1
    <2> QED
      BY <2>1, <2>2
  <1>6. v2' \subseteq Workers /\ v3' \subseteq Rigs
    BY <1>1
  <1> QED
    BY <1>2, <1>3, <1>5, <1>6, WaterCityIInv

LEMMA WaterChangeIInv ==
  ASSUME Water!Assumptions, Water!IInv,
         \/ \E b \in ReefBeads :
              \/ Water!Shelve(b) \/ Water!Close(b) \/ Water!Defer(b) \/ Water!Refile(b) \/ Water!Return(b)
              \/ \E s \in Workers : Water!Claim(b, s)
         \/ \E s \in Workers : Water!Dies(s)
         \/ \E rg \in Rigs : Water!Unregister(rg)
  PROVE  Water!IInv' /\ Water!FishStay
  <1>1. UNCHANGED <<v4, v5, v6, v7, v10>>
    BY DEF Water!Shelve, Water!Close, Water!Defer, Water!Refile, Water!Return, Water!Leaves, Water!Claim,
           Water!Dies, Water!Unregister, Water!Change
  <1>2. Water!FishStay
    BY <1>1 DEF Water!FishStay
  <1>3. /\ v1 \in [ReefBeads -> Water!States] /\ v2 \subseteq Workers /\ v3 \subseteq Rigs
        /\ v9 \subseteq Rigs /\ v11 \subseteq ReefBeads
        /\ \A b \in ReefBeads \ v11 : Water!Shown(v1[b])
    BY DEF Water!IInv, Water!TypeOK, Water!NothingIsMissed
  <1>4. ASSUME NEW b \in ReefBeads, Water!Shelve(b) PROVE Water!IInv'
    <2>1. PICK item : item = [v1[b] EXCEPT !.status = "blocked"]
      OBVIOUS
    <2>2. item \in Water!States /\ item.status = "blocked" /\ item.kept = v1[b].kept
      BY <1>3, <2>1 DEF Water!States, Water!Listed
    <2>3. v1' = [v1 EXCEPT ![b] = item] /\ UNCHANGED <<v2, v3, v9, v11>>
      BY <1>4, <2>1 DEF Water!Shelve
    <2>4. b \in v11 \/ Water!Shown(item)
      BY <1>3, <2>2 DEF Water!Shown, Water!Listed
    <2> QED
      BY <1>1, <2>2, <2>3, <2>4, WaterBeadChanges
  <1>5. ASSUME NEW b \in ReefBeads, NEW item \in Water!States, v1' = [v1 EXCEPT ![b] = item], Water!Leaves(b)
        PROVE  Water!IInv'
    <2>1. v11' = v11 \cup {b} /\ v9' = v9 \cup {RigOf[b]} /\ UNCHANGED <<v2, v3, v4, v5, v6, v7, v10>>
      BY <1>5 DEF Water!Leaves, Water!Change
    <2> QED
      BY <1>5, <2>1, WaterBeadChanges
  <1>6. ASSUME NEW b \in ReefBeads, Water!Close(b) \/ Water!Defer(b) \/ Water!Refile(b) PROVE Water!IInv'
    <2>1. CASE Water!Refile(b)
      <3>1. PICK item : item = [v1[b] EXCEPT !.kept = FALSE]
        OBVIOUS
      <3>2. item \in Water!States
        BY <1>3, <3>1 DEF Water!States
      <3> QED
        BY <1>5, <2>1, <3>1, <3>2 DEF Water!Refile
    <2>2. CASE Water!Defer(b)
      <3>1. PICK item : item = [v1[b] EXCEPT !.status = "deferred"]
        OBVIOUS
      <3>2. item \in Water!States
        BY <1>3, <3>1 DEF Water!States
      <3> QED
        BY <1>5, <2>2, <3>1, <3>2 DEF Water!Defer
    <2>3. CASE Water!Close(b)
      <3>1. PICK item : item = [v1[b] EXCEPT !.status = "closed"]
        OBVIOUS
      <3>2. item \in Water!States
        BY <1>3, <3>1 DEF Water!States
      <3> QED
        BY <1>5, <2>3, <3>1, <3>2 DEF Water!Close
    <2> QED
      BY <1>6, <2>1, <2>2, <2>3
  <1>7. ASSUME NEW b \in ReefBeads, Water!Return(b) PROVE Water!IInv'
    <2>1. PICK status : status = IF v1[b].status \in Water!Listed THEN v1[b].status ELSE "open"
      OBVIOUS
    <2>2. PICK item : item = [v1[b] EXCEPT !.kept = TRUE, !.status = status]
      OBVIOUS
    <2>3. status \in Water!Listed /\ (status = "in_progress" => v1[b].status = "in_progress")
      BY <2>1 DEF Water!Listed
    <2>4. item \in Water!States /\ item.status = status /\ item.kept = TRUE
      BY <1>3, <2>2, <2>3 DEF Water!States, Water!Listed
    <2>5. v1' = [v1 EXCEPT ![b] = item] /\ UNCHANGED <<v2, v3, v9, v11>>
      BY <1>3, <1>7, <2>1, <2>2 DEF Water!Return, Water!States
    <2>6. Water!Shown(item)
      BY <2>3, <2>4 DEF Water!Shown
    <2> QED
      BY <1>1, <2>3, <2>4, <2>5, <2>6, WaterBeadChanges
  <1>8. ASSUME NEW b \in ReefBeads, NEW s \in Workers, Water!Claim(b, s) PROVE Water!IInv'
    <2>1. PICK item : item = [v1[b] EXCEPT !.status = "in_progress", !.owner = s]
      OBVIOUS
    <2>2. item \in Water!States /\ item.status = "in_progress" /\ item.kept = v1[b].kept
      BY <1>3, <2>1 DEF Water!States, Water!Listed
    <2>3. v1' = [v1 EXCEPT ![b] = item] /\ UNCHANGED <<v2, v3, v11>> /\ v9' = v9 \cup {RigOf[b]}
      BY <1>3, <1>8, <2>1 DEF Water!Claim, Water!States
    <2>4. b \in v11 \/ Water!Shown(item)
      BY <1>3, <2>2 DEF Water!Shown, Water!Listed
    <2> QED
      BY <1>1, <2>2, <2>3, <2>4, WaterBeadChanges
  <1>9. \A b \in ReefBeads : b \in v11 \/ Water!Shown(v1[b])
    BY <1>3
  <1>10. ASSUME NEW s \in Workers, Water!Dies(s) PROVE Water!IInv'
    <2>1. v2' \subseteq Workers /\ UNCHANGED <<v1, v3, v9, v11>>
      BY <1>3, <1>10 DEF Water!Dies
    <2> QED
      BY <1>1, <1>3, <1>9, <2>1, WaterCityIInv
  <1>11. ASSUME NEW rg \in Rigs, Water!Unregister(rg) PROVE Water!IInv'
    <2>1. v3' \subseteq Rigs /\ UNCHANGED <<v1, v2, v9, v11>>
      BY <1>3, <1>11 DEF Water!Unregister
    <2> QED
      BY <1>1, <1>3, <1>9, <2>1, WaterCityIInv
  <1> QED
    BY <1>2, <1>4, <1>6, <1>7, <1>8, <1>10, <1>11

LEMMA WaterTickIInv == ASSUME Water!Assumptions, Water!IInv, Water!Tick PROVE Water!IInv' /\ Water!FishStay
  <1>1. UNCHANGED <<v1, v2, v3, v8, v4, v5, v7, v9, v10, v11>>
    BY DEF Water!Tick, Water!city
  <1>2. PICK seen : seen = [s \in DOMAIN v6.seen |-> IF v6.seen[s] = Window THEN Window ELSE v6.seen[s] + 1]
    OBVIOUS
  <1>3. v6 \in WaterMemories /\ v6.seen \in Water!Partial(Workers, 0 .. Window)
    BY DEF Water!IInv, Water!TypeOK, WaterMemories
  <1>4. v6' = [v6 EXCEPT !.seen = seen]
    BY <1>2 DEF Water!Tick
  <1>5. v6'.holders = v6.holders /\ v6'.events = v6.events /\ v6'.seen = seen
    BY <1>3, <1>4 DEF WaterMemories
  <1>6. DOMAIN seen = DOMAIN v6.seen /\ seen \in Water!Partial(Workers, 0 .. Window)
    <2>1. PICK part \in SUBSET Workers : v6.seen \in [part -> 0 .. Window]
      BY <1>3 DEF Water!Partial
    <2>2. DOMAIN v6.seen = part /\ Window \in Nat
      BY <2>1 DEF Water!Assumptions
    <2>3. ASSUME NEW s \in part
          PROVE  (IF v6.seen[s] = Window THEN Window ELSE v6.seen[s] + 1) \in 0 .. Window
      <3>1. v6.seen[s] \in 0 .. Window
        BY <2>1
      <3> QED
        BY <2>2, <3>1
    <2>4. seen \in [part -> 0 .. Window]
      BY <1>2, <2>2, <2>3
    <2> QED
      BY <2>1, <2>2, <2>4 DEF Water!Partial
  <1>7. v6' \in WaterMemories
    BY <1>3, <1>4, <1>6 DEF WaterMemories
  <1>8. Water!TypeOK'
    BY <1>1, <1>7 DEF Water!IInv, Water!TypeOK, WaterMemories
  <1>9. Water!ReadsAreKept'
    BY <1>1 DEF Water!IInv, Water!ReadsAreKept
  <1>10. Water!SnapshotIsRead'
    BY <1>1, <1>5, <1>6, WaterSnapshotStays DEF Water!IInv
  <1>11. Water!HoldersAreRead'
    BY <1>1, <1>5 DEF Water!IInv, Water!HoldersAreRead
  <1>12. Water!WorkMoved'
    BY <1>1, <1>5 DEF Water!IInv, Water!WorkMoved, Water!SameKey
  <1>13. Water!EatenHasLeft' /\ Water!MovingMeansMoved'
    BY <1>1 DEF Water!IInv, Water!EatenHasLeft, Water!MovingMeansMoved, Water!SameKey
  <1>14. Water!FishStay
    BY <1>1 DEF Water!FishStay
  <1>15. Water!NothingIsMissed'
    BY <1>1 DEF Water!IInv, Water!NothingIsMissed, Water!SameKey
  <1> QED
    BY <1>8, <1>9, <1>10, <1>11, <1>12, <1>13, <1>14, <1>15 DEF Water!IInv

LEMMA WaterInitIInv == ASSUME Water!Assumptions, Water!Init PROVE Water!IInv
  <1>1. v4 = [sessions |-> None, rigs |-> None, beads |-> None] /\ v5 = Water!Nothing
        /\ v6 = [holders |-> Water!Nothing, seen |-> Water!Nothing, events |-> {}]
        /\ v7 = [fish |-> {}, states |-> Water!Nothing, pellets |-> {}, overflow |-> Water!Nothing,
                       eaten |-> {}, stranded |-> {}, p0Waiting |-> 0, moving |-> {}]
        /\ v9 = {} /\ v10 = FALSE /\ v2 = Workers /\ v3 = Rigs
        /\ v11 = {b \in ReefBeads : ~Water!Shown(v1[b])}
    BY DEF Water!Init
  <1>2. DOMAIN Water!Nothing = {} /\ Water!Nothing \in [{} -> Water!BeadReads] /\ Water!Nothing \in [{} -> Water!Pellets] /\ Water!Nothing \in [{} -> 0 .. Window]
    BY DEF Water!Nothing
  <1>3. v1 \in [ReefBeads -> Water!States]
    <2>1. [status : {"open", "deferred"}, owner : {None}, kept : {TRUE}]
            \cup [status : {"in_progress"}, owner : Workers, kept : {TRUE}] \subseteq Water!States
      BY DEF Water!States, Water!Listed
    <2> QED
      BY <2>1 DEF Water!Init
  <1>4. /\ Water!Live(v4) = {} /\ Water!RigNames(v4) = {} /\ Water!Items(v4) = Water!Nothing
        /\ Water!Unavailable(v4) = {} /\ Water!Asked(v4) = {}
    BY <1>1 DEF Water!Live, Water!RigNames, Water!Items, Water!Unavailable, Water!Asked
  <1>5. v6.holders = Water!Nothing /\ v6.seen = Water!Nothing /\ v6.events = {}
    BY <1>1
  <1>6. Water!TypeOK
    <2>1. Water!Nothing \in Water!Partial(ReefBeads, Water!Pellets) /\ Water!Nothing \in Water!Partial(Workers, 0 .. Window)
      BY <1>2 DEF Water!Partial
    <2>2. v6 \in [holders : Water!Partial(ReefBeads, Water!Pellets), seen : Water!Partial(Workers, 0 .. Window), events : SUBSET Rigs]
      BY <1>1, <2>1
    <2> QED
      BY <1>1, <1>2, <1>3, <2>2 DEF Water!TypeOK
  <1>7. Water!ReadsAreKept
    BY <1>1, <1>2, <1>4 DEF Water!ReadsAreKept
  <1>8. Water!Drawn(v4) = {}
    BY <1>2, <1>4 DEF Water!Drawn
  <1>9. Water!SnapshotIsRead
    <2>1. DOMAIN v7.states = {} /\ v7.fish = {} /\ v7.pellets = {} /\ v7.moving = {}
          /\ v7.overflow = Water!Nothing /\ v7.stranded = {} /\ v7.p0Waiting = 0
      BY <1>1, <1>2
    <2>2. Water!Stranded(v4) = {} /\ Water!P0Waiting(v4, v6.holders) = {}
      BY <1>2, <1>4, <1>5 DEF Water!Stranded, Water!P0Waiting
    <2>3. v7.overflow = [rg \in Water!Asked(v4) |->
            Water!Cardinality({b \in DOMAIN v7.states : RigOf[b] = rg})
              - Water!Cardinality(Water!Rendered(v7.states, rg))]
      BY <1>4, <2>1 DEF Water!Nothing
    <2>4. Water!Cardinality({}) = 0
      BY FS_EmptySet, WaterSameSets
    <2> QED
      BY <1>2, <1>4, <1>5, <1>8, <2>1, <2>2, <2>3, <2>4 DEF Water!SnapshotIsRead
  <1>10. Water!HoldersAreRead
    BY <1>2, <1>4, <1>5, <1>8 DEF Water!HoldersAreRead
  <1>11. Water!WorkMoved
    BY <1>1, <1>2, <1>5 DEF Water!WorkMoved
  <1>12. Water!EatenHasLeft /\ Water!MovingMeansMoved
    BY <1>1 DEF Water!EatenHasLeft, Water!MovingMeansMoved
  <1>13. Water!NothingIsMissed
    BY <1>1, <1>2, <1>4 DEF Water!NothingIsMissed
  <1> QED
    BY <1>6, <1>7, <1>9, <1>10, <1>11, <1>12, <1>13 DEF Water!IInv

LEMMA WaterNextIInv == ASSUME Water!Assumptions, Water!IInv, [Water!Next]_(Water!vars) PROVE Water!IInv' /\ Water!FishStay
  <1>1. CASE Water!SessionsLand
    BY <1>1, WaterSessionsLandIInv
  <1>2. CASE Water!RigsLand
    BY <1>2, WaterRigsLandIInv
  <1>3. CASE Water!BeadsLand
    BY <1>3, WaterBeadsLandIInv
  <1>4. CASE Water!Tick
    BY <1>4, WaterTickIInv
  <1>5. CASE \/ \E b \in ReefBeads :
                  \/ Water!Shelve(b) \/ Water!Close(b) \/ Water!Defer(b) \/ Water!Refile(b) \/ Water!Return(b)
                  \/ \E s \in Workers : Water!Claim(b, s)
             \/ \E s \in Workers : Water!Dies(s)
             \/ \E rg \in Rigs : Water!Unregister(rg)
    BY <1>5, WaterChangeIInv
  <1>6. CASE UNCHANGED Water!vars
    <2>1. UNCHANGED <<v1, v2, v3, v4, v5, v6, v7, v9, v10, v11>>
      BY <1>6 DEF Water!vars
    <2>2. Water!FishStay
      BY <2>1 DEF Water!FishStay
    <2>3. v1' \in [ReefBeads -> Water!States] /\ v2' \subseteq Workers /\ v3' \subseteq Rigs /\ v9' \subseteq Rigs
          /\ v11' \subseteq ReefBeads /\ \A b \in ReefBeads : b \in v11' \/ Water!Shown(v1'[b])
      BY <2>1 DEF Water!IInv, Water!TypeOK, Water!NothingIsMissed
    <2> QED
      BY <2>1, <2>2, <2>3, WaterCityIInv
  <1> QED
    BY <1>1, <1>2, <1>3, <1>4, <1>5, <1>6 DEF Water!Next

\* What is drawn of the beads that were read: the urgent ones, each in its rig.
LEMMA WaterDrawnIs ==
  ASSUME Water!Assumptions, Water!IInv
  PROVE  /\ DOMAIN v7.states = Water!Drawn(v4)
         /\ \A b \in DOMAIN v7.states : Water!HighSignal(b, v7.states[b]) => b \in v7.pellets
         /\ v7.pellets \subseteq DOMAIN v7.states
         /\ \A rg \in Water!Asked(v4) :
              /\ Water!Rendered(v7.states, rg) \subseteq {b \in DOMAIN v7.states : RigOf[b] = rg}
              /\ \A b \in v7.pellets : RigOf[b] = rg => b \in Water!Rendered(v7.states, rg)
  <1>1. DOMAIN v7.states = Water!Drawn(v4) /\ Water!Drawn(v4) \subseteq ReefBeads
        /\ v7.pellets = UNION {Water!Rendered(v7.states, rg) : rg \in Water!Asked(v4)}
        /\ \A b \in Water!Drawn(v4) : RigOf[b] \in Water!Asked(v4)
    BY WaterReadHolds, WaterReadIs DEF Water!IInv, Water!SnapshotIsRead
  <1>2. \A rg \in Water!Asked(v4) :
          /\ Water!Rendered(v7.states, rg) \subseteq {b \in DOMAIN v7.states : RigOf[b] = rg}
          /\ \A b \in DOMAIN v7.states :
               RigOf[b] = rg /\ Water!HighSignal(b, v7.states[b]) => b \in Water!Rendered(v7.states, rg)
    BY <1>1, WaterRenderedIs
  <1>3. ASSUME NEW b \in v7.pellets, NEW rg \in Water!Asked(v4), RigOf[b] = rg PROVE b \in Water!Rendered(v7.states, rg)
    <2>1. PICK other \in Water!Asked(v4) : b \in Water!Rendered(v7.states, other)
      BY <1>1
    <2>2. RigOf[b] = other
      BY <1>2, <2>1
    <2> QED
      BY <1>3, <2>1, <2>2
  <1> QED
    BY <1>1, <1>2, <1>3

LEMMA WaterCountsAreRight == ASSUME Water!Assumptions, Water!IInv PROVE Water!CountsAgree
  <1>1. /\ Water!SnapshotIsRead /\ Water!HoldersAreRead /\ P0 \subseteq ReefBeads /\ Water!IsFiniteSet(ReefBeads)
        /\ Water!Drawn(v4) \subseteq ReefBeads
        /\ \A b \in Water!Drawn(v4) : RigOf[b] \in Water!Asked(v4)
    BY WaterReadHolds, WaterReadIs DEF Water!IInv, Water!Assumptions
  <1>2. Water!P0Waiting(v4, v6.holders) = Water!P0Rows
    <2>1. ASSUME NEW b \in Water!P0Waiting(v4, v6.holders) PROVE b \in Water!P0Rows
      <3>1. b \in DOMAIN v6.holders /\ b \in P0 /\ v6.holders[b] # "held" /\ RigOf[b] \notin Water!Unavailable(v4)
        BY <2>1 DEF Water!P0Waiting
      <3>2. b \in Water!Drawn(v4) /\ v6.holders[b] = v7.states[b]
        BY <1>1, <3>1 DEF Water!HoldersAreRead
      <3>3. b \in v7.pellets
        BY <3>1, <3>2, WaterDrawnIs DEF Water!HighSignal
      <3> QED
        BY <3>1, <3>2, <3>3 DEF Water!P0Rows
    <2>2. ASSUME NEW b \in Water!P0Rows PROVE b \in Water!P0Waiting(v4, v6.holders)
      <3>1. b \in v7.pellets /\ b \in P0 /\ v7.states[b] # "held" /\ RigOf[b] \notin Water!Unavailable(v4)
        BY <2>2 DEF Water!P0Rows
      <3>2. b \in Water!Drawn(v4)
        BY <3>1, WaterDrawnIs
      <3>3. b \in DOMAIN v6.holders /\ v6.holders[b] = v7.states[b]
        BY <1>1, <3>2 DEF Water!HoldersAreRead
      <3> QED
        BY <3>1, <3>3 DEF Water!P0Waiting
    <2> QED
      BY <2>1, <2>2
  <1>3. v7.p0Waiting = Water!Cardinality(Water!P0Rows)
    BY <1>1, <1>2 DEF Water!SnapshotIsRead
  <1>4. DOMAIN v7.overflow = Water!Asked(v4) /\ DOMAIN v7.states = Water!Drawn(v4)
        /\ \A rg \in Water!Asked(v4) : v7.overflow[rg] =
             Water!Cardinality({b \in DOMAIN v7.states : RigOf[b] = rg}) - Water!Cardinality(Water!Rendered(v7.states, rg))
    BY <1>1 DEF Water!SnapshotIsRead
  <1>5. ASSUME NEW rg \in Water!Asked(v4)
        PROVE  v7.overflow[rg] = Water!Cardinality({b \in DOMAIN v7.states \ v7.pellets : RigOf[b] = rg})
    <2>1. PICK mine : mine = {b \in DOMAIN v7.states : RigOf[b] = rg}
      OBVIOUS
    <2>2. PICK drawn : drawn = Water!Rendered(v7.states, rg)
      OBVIOUS
    <2>3. drawn \subseteq mine /\ Water!IsFiniteSet(mine)
      <3>1. mine \subseteq ReefBeads
        BY <1>1, <1>4, <2>1
      <3> QED
        BY <1>1, <2>1, <2>2, <3>1, WaterDrawnIs, FS_Subset, WaterSameSets
    <2>4. {b \in DOMAIN v7.states \ v7.pellets : RigOf[b] = rg} = mine \ drawn
      <3>1. \A b \in drawn : b \in v7.pellets
        BY <1>1, <2>2 DEF Water!SnapshotIsRead
      <3>2. \A b \in v7.pellets : RigOf[b] = rg => b \in drawn
        BY <2>2, WaterDrawnIs
      <3> QED
        BY <2>1, <2>3, <3>1, <3>2
    <2>5. mine \cap drawn = drawn
      BY <2>3
    <2>6. Water!Cardinality(mine \ drawn) = Water!Cardinality(mine) - Water!Cardinality(mine \cap drawn)
      BY <2>3, FS_Difference, WaterSameSets
    <2> QED
      BY <1>4, <2>1, <2>2, <2>4, <2>5, <2>6
  <1> QED
    BY <1>1, <1>3, <1>4, <1>5 DEF Water!CountsAgree

LEMMA WaterCompleteIsTrue == ASSUME Water!Assumptions, Water!IInv PROVE Water!CompleteMeansTrue
  <1> SUFFICES ASSUME Water!DataState = "complete", Water!UpToDate
      PROVE  LET there == Water!There
                 visible == {b \in there : Water!Shown(v1[b])}
                 held == {b \in there : v1[b].status = "in_progress" /\ v1[b].owner \in v2}
             IN  /\ DOMAIN v7.states = visible
                 /\ {b \in visible : v7.states[b] = "held"} = held
                 /\ v7.p0Waiting = Water!Cardinality((visible \cap P0) \ held)
                 /\ v7.stranded =
                      {b \in there : v1[b].owner \notin v2 \cup {None} /\ Needs[b] \cap there = {}}
    BY DEF Water!CompleteMeansTrue
  <1>1. v4.beads # None /\ v4.beads.lost = {}
    <2>1. \A k \in Water!Reads : v4[k] # None
      BY DEF Water!DataState
    <2>2. ~(~v4.sessions.whole \/ ~v4.rigs.whole \/ v4.beads.lost # {})
      BY <2>1 DEF Water!DataState
    <2> QED
      BY <2>1, <2>2 DEF Water!Reads
  <1>2. /\ Water!Live(v4) = v2 /\ Water!RigNames(v4) = v3 /\ Water!Unavailable(v4) = {} /\ Water!Asked(v4) = v3
    BY <1>1, WaterReadHolds DEF Water!UpToDate, Water!Unavailable
  <1>3. DOMAIN Water!Items(v4) = Water!There /\ \A b \in Water!There : Water!Items(v4)[b] = v1[b]
    <2>1. \A b \in Water!There : b \in DOMAIN Water!Items(v4)
      BY <1>2 DEF Water!UpToDate, Water!There
    <2> QED
      BY <2>1 DEF Water!UpToDate
  <1>4. PICK there : there = Water!There
    OBVIOUS
  <1>5. PICK held : held = {b \in there : v1[b].status = "in_progress" /\ v1[b].owner \in v2}
    OBVIOUS
  <1>6. PICK visible : visible = {b \in there : Water!Shown(v1[b])}
    OBVIOUS
  <1>7. Water!Drawn(v4) = visible /\ \A b \in visible : v1[b].status \in Water!Listed
    <2>1. \A b \in there : Water!Shown(v1[b]) <=> v1[b].status \in Water!Listed
      BY <1>4 DEF Water!There, Water!Shown, Water!Fed
    <2>2. Water!Drawn(v4) = {b \in there : v1[b].status \in Water!Listed}
      BY <1>3, <1>4 DEF Water!Drawn
    <2> QED
      BY <1>6, <2>1, <2>2
  <1>8. DOMAIN v7.states = visible
        /\ \A b \in visible : v7.states[b] = Water!Pellet(v1[b], v2) /\ v1[b].status \in Water!Listed
    BY <1>2, <1>3, <1>4, <1>6, <1>7 DEF Water!IInv, Water!SnapshotIsRead
  <1>9. \A b \in held : b \in visible
    BY <1>4, <1>5, <1>6 DEF Water!There, Water!Shown, Water!Fed, Water!Listed
  <1>10. {b \in visible : v7.states[b] = "held"} = held
    <2>1. \A b \in visible : b \in there /\ (v7.states[b] = "held" <=> v1[b].status = "in_progress" /\ v1[b].owner \in v2)
      BY <1>8, <1>6, WaterPelletIs
    <2> QED
      BY <1>5, <1>9, <2>1
  <1>11. DOMAIN v6.holders = visible /\ \A b \in visible : v6.holders[b] = v7.states[b]
    BY <1>2, <1>7 DEF Water!IInv, Water!HoldersAreRead
  <1>12. Water!P0Waiting(v4, v6.holders) = (visible \cap P0) \ held
    BY <1>2, <1>10, <1>11 DEF Water!P0Waiting
  <1>13. v7.p0Waiting = Water!Cardinality((visible \cap P0) \ held)
    BY <1>12 DEF Water!IInv, Water!SnapshotIsRead
  <1>14. Water!Stranded(v4) = {b \in there : v1[b].owner \notin v2 \cup {None} /\ Needs[b] \cap there = {}}
    BY <1>2, <1>3, <1>4 DEF Water!Stranded
  <1>15. v7.stranded = {b \in there : v1[b].owner \notin v2 \cup {None} /\ Needs[b] \cap there = {}}
    BY <1>14 DEF Water!IInv, Water!SnapshotIsRead
  <1> QED
    BY <1>4, <1>5, <1>8, <1>10, <1>13, <1>15, <1>6

LEMMA WaterReefHolds == ASSUME Water!Assumptions, Water!IInv PROVE Water!ReefIsTrue
  BY WaterCountsAreRight, WaterCompleteIsTrue DEF Water!IInv, Water!ReefIsTrue
=============================================================================
