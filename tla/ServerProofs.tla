---------------------------- MODULE ServerProofs ----------------------------
(***************************************************************************)
(* Theorems about the samplers, for every capacity of the ring, every set  *)
(* of reads and any number of samples on one of them; and about the other  *)
(* subjects of the backend's bench, whose steps are each the steps of one  *)
(* component, or which are the rules of the maintainer's page, proved of   *)
(* any list of issues and pull requests.                                   *)
(***************************************************************************)
EXTENDS MCServer, FiniteSetTheorems, WellFoundedInduction, TLAPS

\* Whoever awaits a read awaits the one in flight, and only that has an answer.
OneRead ==
    \A x \in Reads : /\ Awaited(x) => inflight = x
                     /\ observed[x] > 0 => Awaited(x)

\* What was sampled is no newer than the answer that is due.
ReportsAreBehind ==
    /\ \A x \in Reads : observed[x] <= version
    /\ \A i \in 1 .. Len(ring) : ring[i] <= version
    /\ status.version <= version
    /\ \A x \in Reads : observed[x] > 0 =>
         /\ \A i \in 1 .. Len(ring) : ring[i] <= observed[x]
         /\ status.version <= observed[x]

\* The inductive invariant: samples land in order because they share one read.
IInv == TypeOK /\ OneRead /\ ReportsAreBehind /\ TrendIsChronological
-----------------------------------------------------------------------------
\* What a push makes of the ring.
LEMMA PushedIs ==
    ASSUME Assumptions, NEW r \in Seq(Versions), Len(r) <= SlotCount, NEW v \in Versions, NEW n \in Nat,
           \A i, j \in 1 .. Len(r) : i < j => r[i] <= r[j],
           \A i \in 1 .. Len(r) : r[i] <= v
    PROVE  /\ Pushed(r, v, n) \in Seq(Versions) /\ Len(Pushed(r, v, n)) <= SlotCount
           /\ \A i \in 1 .. Len(Pushed(r, v, n)) : Pushed(r, v, n)[i] <= v
           /\ \A i, j \in 1 .. Len(Pushed(r, v, n)) :
                i < j => Pushed(r, v, n)[i] <= Pushed(r, v, n)[j]
  <1> DEFINE q == r \o Repeated(v, n)
             over == IF Len(q) > SlotCount THEN Len(q) - SlotCount ELSE 0
  <1>1. Repeated(v, n) \in Seq(Versions) /\ Len(Repeated(v, n)) = n
        /\ \A i \in 1 .. n : Repeated(v, n)[i] = v
    BY DEF Repeated
  <1>2. /\ q \in Seq(Versions) /\ Len(q) = Len(r) + n
        /\ \A i \in 1 .. Len(q) : q[i] = IF i <= Len(r) THEN r[i] ELSE v
    BY <1>1
  <1>3. Versions \subseteq Nat
    BY DEF Versions, Assumptions
  <1>4. /\ \A i \in 1 .. Len(q) : q[i] \in Nat /\ q[i] <= v
        /\ \A i, j \in 1 .. Len(q) : i < j => q[i] <= q[j]
    <2>1. v \in Nat /\ Len(r) \in Nat /\ \A i \in 1 .. Len(r) : r[i] \in Nat
      <3>1. Len(r) \in Nat /\ \A i \in 1 .. Len(r) : r[i] \in Versions
        OBVIOUS
      <3> QED
        BY <1>3, <3>1
    <2> HIDE DEF q
    <2>2. \A i \in 1 .. Len(q) : q[i] \in Nat /\ q[i] <= v
      BY <1>2, <2>1
    <2>3. ASSUME NEW i \in 1 .. Len(q), NEW j \in 1 .. Len(q), i < j PROVE q[i] <= q[j]
      <3>1. CASE j <= Len(r)
        <4>1. i \in 1 .. Len(r) /\ j \in 1 .. Len(r) /\ q[i] = r[i] /\ q[j] = r[j]
          BY <1>2, <2>1, <2>3, <3>1
        <4> QED
          BY <2>3, <4>1
      <3>2. CASE ~(j <= Len(r))
        <4>1. q[j] = v
          BY <1>2, <3>2
        <4> QED
          BY <2>2, <4>1
      <3> QED
        BY <3>1, <3>2
    <2> QED
      BY <2>2, <2>3
  <1> HIDE DEF q
  <1>5. over \in 0 .. Len(q) /\ Len(q) - over <= SlotCount
    BY <1>2 DEF Assumptions
  <1>6. Pushed(r, v, n) = SubSeq(q, over + 1, Len(q))
    BY DEF Pushed, q
  <1> HIDE DEF over
  <1> DEFINE p == SubSeq(q, over + 1, Len(q))
  <1>7. /\ p \in Seq(Versions) /\ Len(p) = Len(q) - over
        /\ \A i \in 1 .. Len(p) : p[i] = q[over + i] /\ over + i \in 1 .. Len(q)
    BY <1>2, <1>5
  <1> HIDE DEF p
  <1>8. /\ \A i \in 1 .. Len(p) : p[i] <= v
        /\ \A i, j \in 1 .. Len(p) : i < j => p[i] <= p[j]
    <2>1. \A i, j \in 1 .. Len(p) : i < j => over + i < over + j
      BY <1>5, <1>7
    <2> QED
      BY <1>4, <1>7, <2>1
  <1> QED
    BY <1>5, <1>6, <1>7, <1>8 DEF p

\* Nothing was sampled.
LEMMA InitIInv == ASSUME Assumptions, Init PROVE IInv
  <1>1. TypeOK
    <2>1. version \in Versions /\ observed \in [Reads -> 0 .. MaxVersion]
      BY DEF Init, Versions, Assumptions
    <2>2. timers \in [Samplers -> 0 .. 2] /\ \A s \in Samplers : timers[s] = IF s \in scheduled THEN 1 ELSE 0
      BY DEF Init
    <2>3. awaiting \in [Samplers -> [Reads -> 0 .. MaxSamples]] /\ probing \in [Versions -> Nat]
      BY DEF Init, Assumptions
    <2>4. ring \in Seq(Versions) /\ Len(ring) <= SlotCount
      BY DEF Init, Assumptions
    <2>5. status \in Reports /\ rigs \in Reports
      BY DEF Init, Unsampled, Reports, Assumptions
    <2> QED
      BY <2>1, <2>2, <2>3, <2>4, <2>5 DEF Init, TypeOK
  <1>2. OneRead /\ ReportsAreBehind /\ TrendIsChronological
    BY DEF Init, OneRead, ReportsAreBehind, TrendIsChronological, Awaited, Unsampled
  <1> QED
    BY <1>1, <1>2 DEF IInv

\* A sample joins the one read, or begins it.
LEMMA SampleOneRead ==
    ASSUME Assumptions, IInv, NEW s \in Samplers, Sample(s), observed' = observed
    PROVE  /\ OneRead' /\ inflight' \in Reads
           /\ awaiting' \in [Samplers -> [Reads -> 0 .. MaxSamples]]
  <1>1. PICK x \in Reads : /\ Joinable(x) /\ awaiting[s][x] < MaxSamples
                           /\ awaiting' = [awaiting EXCEPT ![s] = [awaiting[s] EXCEPT ![x] = awaiting[s][x] + 1]]
                           /\ inflight' = x
    BY DEF Sample
  <1>2. awaiting[s][x] + 1 \in 0 .. MaxSamples /\ awaiting[s][x] + 1 > 0
    BY <1>1 DEF IInv, TypeOK, Assumptions
  <1>3. /\ awaiting' \in [Samplers -> [Reads -> 0 .. MaxSamples]]
        /\ \A t \in Samplers, y \in Reads :
             awaiting'[t][y] = IF t = s /\ y = x THEN awaiting[s][x] + 1 ELSE awaiting[t][y]
    BY <1>1, <1>2 DEF IInv, TypeOK
  <1>4. \A y \in Reads : y # x => ~Awaited(y)
    BY <1>1 DEF IInv, OneRead, Joinable, Assumptions
  <1>5. \A y \in Reads : y # x => ~Awaited(y)'
    BY <1>3, <1>4 DEF Awaited
  <1>6. Awaited(x)'
    BY <1>2, <1>3 DEF Awaited
  <1> QED
    BY <1>1, <1>3, <1>4, <1>5, <1>6 DEF IInv, OneRead

\* The timers of the samplers.
LEMMA TimerIInv ==
    ASSUME Assumptions, IInv, NEW s \in Samplers, Start(s) \/ Interval(s) \/ Stop(s)
    PROVE  IInv' /\ Retains
  <1>1. UNCHANGED <<version, observed, probing, ring, dolt, status, rigs>>
    BY DEF Start, Interval, Stop
  <1>2. /\ OneRead' /\ inflight' \in Reads \cup {NoRead}
        /\ awaiting' \in [Samplers -> [Reads -> 0 .. MaxSamples]]
    BY <1>1, SampleOneRead DEF Start, Interval, Stop, IInv, TypeOK, OneRead, Awaited
  <1>3. /\ scheduled' \in SUBSET Samplers /\ timers' \in [Samplers -> 0 .. 2]
        /\ \A t \in Samplers : timers'[t] = IF t \in scheduled' THEN 1 ELSE 0
    <2>1. timers[s] \in {0, 1} /\ (timers[s] = 1 <=> s \in scheduled)
      BY DEF IInv, TypeOK
    <2>2. CASE Start(s)
      BY <2>1, <2>2 DEF Start, AlreadyStarted, IInv, TypeOK
    <2>3. CASE Interval(s)
      BY <2>3 DEF Interval, IInv, TypeOK
    <2>4. CASE Stop(s)
      BY <2>1, <2>4 DEF Stop, IInv, TypeOK
    <2> QED
      BY <2>2, <2>3, <2>4
  <1>4. TypeOK'
    BY <1>1, <1>2, <1>3 DEF IInv, TypeOK
  <1>5. ReportsAreBehind' /\ TrendIsChronological' /\ Retains
    BY <1>1 DEF IInv, ReportsAreBehind, TrendIsChronological, Retains, TypeOK, Reports
  <1> QED
    BY <1>2, <1>4, <1>5 DEF IInv

\* The supervisor answers with the newest there is.
LEMMA ObserveIInv == ASSUME Assumptions, IInv, NEW x \in Reads, Observe(x) PROVE IInv' /\ Retains
  <1> USE DEF Observe
  <1>1. version \in 1 .. MaxVersion /\ observed' = [observed EXCEPT ![x] = version]
    BY DEF IInv, TypeOK, Versions
  <1>2. TypeOK'
    BY <1>1 DEF IInv, TypeOK
  <1>3. OneRead'
    BY <1>1 DEF IInv, TypeOK, OneRead, Awaited
  <1>4. ReportsAreBehind' /\ TrendIsChronological' /\ Retains
    BY <1>1 DEF IInv, TypeOK, ReportsAreBehind, TrendIsChronological, Retains, Reports
  <1> QED
    BY <1>2, <1>3, <1>4 DEF IInv

\* What a read leaves when it settles: nobody awaits anything.
LEMMA SettledIs ==
    ASSUME Assumptions, IInv, NEW x \in Reads, Settled(x)
    PROVE  /\ awaiting' \in [Samplers -> [Reads -> 0 .. MaxSamples]]
           /\ inflight' \in Reads \cup {NoRead}
           /\ observed' \in [Reads -> 0 .. MaxVersion] /\ \A y \in Reads : observed'[y] = 0
           /\ OneRead'
  <1>1. /\ awaiting' = [s \in Samplers |-> [awaiting[s] EXCEPT ![x] = 0]]
        /\ observed' = [observed EXCEPT ![x] = 0]
        /\ inflight' = (IF inflight = x THEN NoRead ELSE inflight)
    BY DEF Settled, Landed
  <1>2. awaiting' \in [Samplers -> [Reads -> 0 .. MaxSamples]]
        /\ \A s \in Samplers, y \in Reads : awaiting'[s][y] = IF y = x THEN 0 ELSE awaiting[s][y]
    BY <1>1 DEF IInv, TypeOK, Assumptions
  <1>3. \A y \in Reads : y # x => ~Awaited(y) /\ observed[y] = 0
    BY DEF Settled, IInv, TypeOK, OneRead
  <1>4. observed' \in [Reads -> 0 .. MaxVersion] /\ \A y \in Reads : observed'[y] = 0
    BY <1>1, <1>3 DEF IInv, TypeOK, Assumptions
  <1>5. \A y \in Reads : ~Awaited(y)'
    BY <1>2, <1>3 DEF Awaited
  <1>6. inflight' \in Reads \cup {NoRead}
    BY <1>1 DEF IInv, TypeOK
  <1> QED
    BY <1>2, <1>4, <1>5, <1>6 DEF OneRead

\* The answer lands every sample on the read.
LEMMA ReadOkIInv ==
    ASSUME Assumptions, IInv, NEW x \in Reads, NEW sized \in BOOLEAN, ReadOk(x, sized)
    PROVE  IInv' /\ Retains
  <1> DEFINE v == observed[x]
             n == awaiting["dolt"][x]
  <1>1. v \in Versions /\ v > 0 /\ v <= version /\ n \in Nat /\ version \in Versions
    BY DEF ReadOk, IInv, TypeOK, ReportsAreBehind, Versions, Samplers, Assumptions
  <1>2. Settled(x) /\ UNCHANGED <<version, scheduled, timers, rigs>>
    BY DEF ReadOk, Settled
  <1>3. ring' = ring \/ ring' = Pushed(ring, v, n)
    BY DEF ReadOk
  <1>4. ring \in Seq(Versions) /\ Len(ring) <= SlotCount /\ \A i \in 1 .. Len(ring) : ring[i] <= v
    BY <1>1 DEF IInv, TypeOK, ReportsAreBehind
  <1>5. /\ ring' \in Seq(Versions) /\ Len(ring') <= SlotCount
        /\ \A i \in 1 .. Len(ring') : ring'[i] <= v
        /\ TrendIsChronological'
    BY <1>1, <1>3, <1>4, PushedIs DEF IInv, TrendIsChronological
  <1>6. /\ status' \in Reports /\ status'.version <= version /\ status'.version >= status.version
    <2>1. status \in Reports /\ status.version <= v
      BY <1>1 DEF IInv, TypeOK, ReportsAreBehind
    <2>2. status' = status \/ status' = [[status EXCEPT !.available = TRUE] EXCEPT !.version = v]
      BY DEF ReadOk
    <2>3. v \in 0 .. MaxVersion /\ status.version \in 0 .. MaxVersion /\ version \in Nat
      BY <1>1, <2>1 DEF Versions, Reports, Assumptions
    <2> HIDE DEF v
    <2>4. CASE status' = status
      BY <1>1, <2>1, <2>3, <2>4
    <2>5. CASE status' = [[status EXCEPT !.available = TRUE] EXCEPT !.version = v]
      <3>1. status' \in Reports /\ status'.version = v
        BY <2>1, <2>3, <2>5 DEF Reports
      <3> QED
        BY <1>1, <2>1, <2>3, <3>1
    <2> QED
      BY <2>2, <2>4, <2>5
  <1>7. probing' \in [Versions -> Nat] /\ dolt' \in {"available", "store_health_absent", "sample_failed"}
    <2>1. awaiting["rigs"][x] \in Nat
      BY DEF IInv, TypeOK, Samplers, Assumptions
    <2> QED
      BY <1>1, <2>1 DEF ReadOk, IInv, TypeOK
  <1>8. TypeOK'
    BY <1>2, <1>5, <1>6, <1>7, SettledIs DEF IInv, TypeOK
  <1>9. ReportsAreBehind'
    <2>1. \A i \in 1 .. Len(ring') : ring'[i] <= version
      <3>1. v \in Nat /\ version \in Nat /\ Versions \subseteq Nat
        BY <1>1 DEF Versions, Assumptions
      <3>2. \A i \in 1 .. Len(ring') : ring'[i] \in Nat
        <4>1. \A i \in 1 .. Len(ring') : ring'[i] \in Versions
          BY <1>5
        <4> QED
          BY <3>1, <4>1
      <3> HIDE DEF v
      <3> QED
        BY <1>1, <1>5, <3>1, <3>2
    <2> QED
      BY <1>1, <1>2, <1>6, <2>1, SettledIs DEF ReportsAreBehind, Versions
  <1>10. Retains
    BY <1>2, <1>6 DEF Retains
  <1> QED
    BY <1>2, <1>5, <1>8, <1>9, <1>10, SettledIs DEF IInv

\* A read that fails takes nothing away.
LEMMA ReadFailsIInv == ASSUME Assumptions, IInv, NEW x \in Reads, ReadFails(x) PROVE IInv' /\ Retains
  <1>1. Settled(x) /\ UNCHANGED <<version, scheduled, timers, probing, ring>>
    BY DEF ReadFails, Settled
  <1>2. /\ status' \in Reports /\ status'.version = status.version
        /\ rigs' \in Reports /\ rigs'.version = rigs.version
    BY DEF ReadFails, Degraded, IInv, TypeOK, Reports
  <1>3. dolt' \in {"available", "store_health_absent", "sample_failed"}
    BY DEF ReadFails, IInv, TypeOK
  <1>4. TypeOK'
    BY <1>1, <1>2, <1>3, SettledIs DEF IInv, TypeOK
  <1>5. ReportsAreBehind'
    BY <1>1, <1>2, SettledIs DEF IInv, TypeOK, ReportsAreBehind, Versions
  <1>6. TrendIsChronological' /\ Retains
    BY <1>1, <1>2 DEF IInv, TypeOK, TrendIsChronological, Retains, Reports
  <1> QED
    BY <1>1, <1>4, <1>5, <1>6, SettledIs DEF IInv

\* The probes of a rig sample are done.
LEMMA ProbesIInv == ASSUME Assumptions, IInv, NEW v \in Versions, ProbesDone(v) PROVE IInv' /\ Retains
  <1> USE DEF ProbesDone
  <1>1. v \in 0 .. MaxVersion /\ v > 0 /\ probing[v] - 1 \in Nat
    BY DEF IInv, TypeOK, Versions, Assumptions
  <1>2. rigs' \in Reports /\ rigs'.version = v /\ probing' \in [Versions -> Nat]
    BY <1>1 DEF IInv, TypeOK, Reports
  <1>3. TypeOK'
    BY <1>2 DEF IInv, TypeOK
  <1>4. OneRead' /\ ReportsAreBehind' /\ TrendIsChronological'
    BY DEF IInv, OneRead, Awaited, ReportsAreBehind, TrendIsChronological
  <1>5. Retains
    BY <1>1, <1>2 DEF Retains, IInv, TypeOK, Reports
  <1> QED
    BY <1>3, <1>4, <1>5 DEF IInv

\* A newer version makes nothing older.
LEMMA SupervisorIInv == ASSUME Assumptions, IInv, Supervisor PROVE IInv' /\ Retains
  <1>1. version' = version + 1 /\ version' \in Versions /\ version \in Nat
    BY DEF Supervisor, IInv, TypeOK, Versions, Assumptions
  <1>2. UNCHANGED <<inflight, observed, scheduled, timers, awaiting, probing, ring, dolt, status, rigs>>
    BY DEF Supervisor
  <1>3. TypeOK' /\ OneRead' /\ TrendIsChronological'
    BY <1>1, <1>2 DEF IInv, TypeOK, OneRead, Awaited, TrendIsChronological
  <1>4. ReportsAreBehind'
    <2>1. /\ \A x \in Reads : observed[x] \in Nat
          /\ status.version \in Nat /\ \A i \in 1 .. Len(ring) : ring[i] \in Nat
      BY DEF IInv, TypeOK, Reports, Versions, Assumptions
    <2> QED
      BY <1>1, <1>2, <2>1 DEF IInv, ReportsAreBehind
  <1>5. Retains
    BY <1>2 DEF IInv, TypeOK, Retains, Reports, Assumptions
  <1> QED
    BY <1>3, <1>4, <1>5 DEF IInv

\* No step breaks it, or takes a snapshot back.
LEMMA NextIInv == ASSUME Assumptions, IInv, [Next]_vars PROVE IInv' /\ [Retains]_vars
  <1>1. CASE UNCHANGED vars
    BY <1>1 DEF vars, IInv, TypeOK, OneRead, Awaited, ReportsAreBehind, TrendIsChronological
  <1>2. ASSUME Next PROVE IInv' /\ Retains
    BY <1>2, TimerIInv, ObserveIInv, ReadOkIInv, ReadFailsIInv, ProbesIInv, SupervisorIInv
    DEF Next, Settle
  <1> QED
    BY <1>1, <1>2

\* The invariant holds of every behaviour.
LEMMA Invariant == ASSUME Assumptions PROVE Spec => []IInv
  <1>1. Init => IInv
    BY InitIInv
  <1>2. IInv /\ [Next]_vars => IInv'
    BY NextIInv
  <1> QED
    BY <1>1, <1>2, PTL DEF Spec
-----------------------------------------------------------------------------
\* Every variable keeps its type, and a scheduled sampler has one timer
\* (dolt.ts, supervisor-status.ts, rig-store-health.ts).
THEOREM TypeCorrect == ASSUME Assumptions PROVE Spec => []TypeOK
  <1>1. IInv => TypeOK
    BY DEF IInv
  <1> QED
    BY <1>1, Invariant, PTL

\* Overlapping samples never land out of order (dolt.ts, its ring).
THEOREM TrendIsInOrder == ASSUME Assumptions PROVE Spec => []TrendIsChronological
  <1>1. IInv => TrendIsChronological
    BY DEF IInv
  <1> QED
    BY <1>1, Invariant, PTL

\* No read, late or failed, takes a snapshot back (supervisor-status.ts,
\* rig-store-health.ts).
THEOREM SnapshotsStay == ASSUME Assumptions PROVE Spec => SnapshotsAreRetained
  <1>1. ASSUME Assumptions PROVE IInv /\ [Next]_vars => [Retains]_vars
    BY <1>1, NextIInv
  <1> QED
    BY <1>1, Invariant, PTL DEF Spec, SnapshotsAreRetained
-----------------------------------------------------------------------------
\* The diff of a run.  The places hold, in this order, the tree, status, untracked,
\* comparison, tracked, names, queue, parts, remaining, truncated, response,
\* moves and quiet.
\*
\* What fits in the list is all of them, and any list is a part.
LEMMA ListingIs ==
    ASSUME NEW files, NEW list \in Diff!Listing(files)
    PROVE  list.files \subseteq files /\ (~list.cut => list.files = files) /\ list.cut \in BOOLEAN
  <1>1. CASE list = [files |-> files, cut |-> FALSE]
    BY <1>1
  <1>2. ASSUME NEW some \in SUBSET files, list = [files |-> some, cut |-> TRUE]
        PROVE  list.files \subseteq files /\ list.cut
    BY <1>2
  <1> QED
    BY <1>1, <1>2 DEF Diff!Listing, Diff!kSubset

\* What is finite, and how many, is the same in the instance as outside.
LEMMA SameFiniteSets ==
    ASSUME NEW S
    PROVE  (Diff!IsFiniteSet(S) <=> IsFiniteSet(S)) /\ Diff!Cardinality(S) = Cardinality(S)
  <1>1. Diff!IsFiniteSet(S) <=> IsFiniteSet(S)
    BY DEF Diff!IsFiniteSet, IsFiniteSet
  <1>2. Diff!Cardinality(S) = Cardinality(S)
    BY DEF Diff!Cardinality, Cardinality
  <1> QED
    BY <1>1, <1>2

\* The first of the paths are paths, and all of them when they are not too many.
LEMMA FirstOfIs ==
    ASSUME NEW n \in Nat, NEW paths \in SUBSET Files, Diff!Assumptions
    PROVE  /\ Diff!FirstOf(n, paths) \subseteq paths
           /\ Cardinality(paths) <= n => Diff!FirstOf(n, paths) = paths
  <1>1. IsFiniteSet(paths)
    BY FS_Subset, SameFiniteSets DEF Diff!Assumptions
  <1>2. ASSUME NEW f \in paths, Cardinality(paths) <= n
        PROVE  Cardinality(Diff!Before(f, paths)) < n
    <2>1. Diff!Before(f, paths) \in SUBSET paths /\ f \notin Diff!Before(f, paths)
      BY DEF Diff!Before, Diff!Assumptions
    <2>2. /\ IsFiniteSet(Diff!Before(f, paths))
          /\ Cardinality(Diff!Before(f, paths)) <= Cardinality(paths)
          /\ Cardinality(Diff!Before(f, paths)) # Cardinality(paths)
      BY <1>1, <2>1, FS_Subset
    <2>3. Cardinality(Diff!Before(f, paths)) \in Nat /\ Cardinality(paths) \in Nat
      BY <1>1, <2>2, FS_CardinalityType
    <2> QED
      BY <1>2, <2>2, <2>3
  <1> QED
    BY <1>2, SameFiniteSets DEF Diff!FirstOf

\* A diff begins with nothing read.
LEMMA DiffInitIInv == ASSUME Diff!Assumptions, Diff!Init PROVE Diff!IInv
  <1>1. Budget \in Nat /\ MaxMoves \in Nat
    BY DEF Diff!Assumptions
  <1>2. Diff!TypeOK
    <2>1. {v2, v3, v6} \subseteq (SUBSET Diff!Reviewable) \cup {None}
      BY DEF Diff!Init
    <2>2. v9 \in 0 .. Budget /\ v12 \in 0 .. MaxMoves
      BY <1>1 DEF Diff!Init
    <2> QED
      BY <2>1, <2>2 DEF Diff!Init, Diff!TypeOK
  <1> QED
    BY <1>2 DEF Diff!Init, Diff!IInv, Diff!ReadsWereTrue, Diff!LoopIsFair, Diff!DiffIsHonest

\* Nothing that the answer is made of moves once it is there.
LEMMA DiffAnswered == ASSUME [Diff!Next]_(Diff!vars) PROVE v11 = None \/ UNCHANGED Diff!vars
  BY DEF Diff!Next, Diff!Refuses, Diff!Fails, Diff!ReadStatus, Diff!ReadUntracked, Diff!ResolveComparison, Diff!ReadPatch, Diff!PatchFails,
    Diff!ReadNames, Diff!Compared, Diff!StartLoop, Diff!Exhausted, Diff!ReadFile, Diff!FileFails, Diff!Looping, Diff!Answer, Diff!Move, Diff!vars

\* The loop starts with files that are not in the patch, and the room it left.
LEMMA DiffStart ==
    ASSUME Diff!Assumptions, Diff!TypeOK, Diff!LoopIsFair, Diff!StartLoop
    PROVE  Diff!TypeOK' /\ Diff!LoopIsFair'
  <1> USE DEF Diff!StartLoop, Diff!Compared, Diff!reads, Diff!patches
  <1>1. v3 \in SUBSET Diff!Reviewable /\ v3 \in SUBSET Files
    BY DEF Diff!TypeOK, Diff!Reviewable
  <1>2. v5 \in [files : SUBSET Files, bytes : 0 .. Budget] /\ Budget \in Nat /\ MaxFiles \in Nat
    BY DEF Diff!TypeOK, Diff!Assumptions
  <1>3. v7' \subseteq v3 /\ v7' \in SUBSET Files
    BY <1>1, <1>2, FirstOfIs
  <1>4. v8 = {} /\ v8' = {} /\ Bytes[v8] = 0
    BY DEF Diff!LoopIsFair, Diff!Assumptions
  <1>5. v9' \in 0 .. Budget /\ v9' + v5.bytes + Bytes[v8] <= Budget
    BY <1>2, <1>4
  <1>6. v10' \in BOOLEAN
    BY <1>2 DEF Diff!TypeOK, Diff!TooMany
  <1>7. Diff!TypeOK'
    BY <1>3, <1>4, <1>5, <1>6 DEF Diff!TypeOK, Diff!Reviewable
  <1>8. Diff!LoopIsFair'
    BY <1>3, <1>4, <1>5 DEF Diff!LoopIsFair
  <1> QED
    BY <1>7, <1>8

\* A file that is read fits in what is left, and is not read again.
LEMMA DiffReadFile ==
    ASSUME Diff!Assumptions, Diff!TypeOK, Diff!LoopIsFair, Diff!ReadFile
    PROVE  Diff!TypeOK' /\ Diff!LoopIsFair'
  <1>1. /\ v7 # None /\ v7 \in SUBSET Files /\ v3 \in SUBSET Diff!Reviewable
        /\ v8 \in SUBSET Diff!Reviewable /\ v10 \in BOOLEAN /\ v9 \in Nat
    BY DEF Diff!ReadFile, Diff!Looping, Diff!TypeOK, Diff!LoopIsFair
  <1>2. Budget \in Nat /\ FileCap \in Nat /\ Diff!Reviewable \in SUBSET Files
    BY DEF Diff!Assumptions, Diff!Reviewable
  <1>3. /\ v5 \in [files : SUBSET Files, bytes : 0 .. Budget]
        /\ v8 \cap v7 = {} /\ v8 \cup v7 \subseteq v3
        /\ v9 + v5.bytes + Bytes[v8] <= Budget
    BY <1>1 DEF Diff!TypeOK, Diff!LoopIsFair
  <1>4. PICK f \in v7 :
          \/ /\ Bytes[{f}] <= v9
             /\ v8' = v8 \cup {f} /\ v9' = v9 - Bytes[{f}]
             /\ v7' = v7 \ {f} /\ v10' = v10
          \/ /\ v9' \in 0 .. v9 /\ v10' = TRUE
             /\ v7' = {} /\ v8' = v8
    <2> DEFINE limit == IF v9 < FileCap THEN v9 ELSE FileCap
    <2>1. PICK f \in v7 :
            IF Bytes[{f}] <= limit
            THEN /\ v8' = v8 \cup {f} /\ v9' = v9 - Bytes[{f}]
                 /\ v7' = v7 \ {f} /\ UNCHANGED v10
            ELSE /\ v9' = v9 - limit /\ v10' = TRUE
                 /\ v7' = {} /\ UNCHANGED v8
      BY DEF Diff!ReadFile
    <2>2. Bytes[{f}] \in Nat
      BY <1>1 DEF Diff!Assumptions
    <2>3. limit \in Nat /\ limit <= v9
      BY <1>1, <1>2
    <2> HIDE DEF limit
    <2>4. CASE Bytes[{f}] <= limit
      <3>1. Bytes[{f}] <= v9
        BY <1>1, <2>2, <2>3, <2>4
      <3> QED
        BY <2>1, <2>4, <3>1
    <2>5. CASE ~(Bytes[{f}] <= limit)
      <3>1. v9 - limit \in 0 .. v9
        BY <1>1, <2>3
      <3> QED
        BY <2>1, <2>5, <3>1
    <2> QED
      BY <2>4, <2>5
  <1>5. f \in Files \ v8 /\ v8 \in SUBSET Files
    BY <1>1, <1>2, <1>3
  <1>6. Bytes[v8 \cup {f}] = Bytes[v8] + Bytes[{f}] /\ Bytes[{f}] \in Nat /\ Bytes[v8] \in Nat
    BY <1>5 DEF Diff!Assumptions
  <1>7. /\ v8' \subseteq Diff!Reviewable /\ v7' \in SUBSET Files /\ v10' \in BOOLEAN
        /\ v8' \cap v7' = {} /\ v8' \cup v7' \subseteq v3
    BY <1>1, <1>3, <1>4
  <1>8. v9' \in 0 .. Budget /\ v9' + v5.bytes + Bytes[v8'] <= Budget
    <2>1. CASE Bytes[{f}] <= v9 /\ v8' = v8 \cup {f} /\ v9' = v9 - Bytes[{f}]
      BY <1>1, <1>2, <1>3, <1>6, <2>1
    <2>2. CASE v9' \in 0 .. v9 /\ v8' = v8
      BY <1>1, <1>2, <1>3, <1>6, <2>2
    <2> QED
      BY <1>4, <2>1, <2>2
  <1>9. v7' # None /\ UNCHANGED <<v1, Diff!reads, Diff!patches, v11, v12, v13>>
    BY <1>7 DEF Diff!ReadFile, Diff!Assumptions
  <1>10. Diff!TypeOK'
    BY <1>7, <1>8, <1>9 DEF Diff!TypeOK, Diff!Reviewable, Diff!reads, Diff!patches
  <1>11. Diff!LoopIsFair'
    BY <1>1, <1>7, <1>8, <1>9 DEF Diff!LoopIsFair, Diff!reads, Diff!patches
  <1> QED
    BY <1>10, <1>11

\* The types, and that the loop takes each file once from what the patch left.
LEMMA DiffLoop ==
    ASSUME Diff!Assumptions, Diff!IInv, Diff!Next, v11 = None
    PROVE  Diff!TypeOK' /\ Diff!LoopIsFair'
  <1> USE DEF Diff!Assumptions, Diff!IInv, Diff!TypeOK, Diff!LoopIsFair, Diff!Answers, Diff!reads, Diff!patches, Diff!loop, Diff!Compared
  <1>1. CASE Diff!Refuses
    BY <1>1 DEF Diff!Refuses, Diff!Reviewable
  <1>2. CASE Diff!Fails
    BY <1>2 DEF Diff!Fails, Diff!Reviewable
  <1>3. CASE Diff!ReadStatus
    <2>1. PICK list \in Diff!Listing({f \in Diff!Reviewable : v1[f] \in {"edited", "new"}}) :
            v2' = list.files /\ v10' = (v10 \/ list.cut)
      BY <1>3 DEF Diff!ReadStatus
    <2>2. v2' \subseteq Diff!Reviewable /\ v10' \in BOOLEAN /\ v2' # None
      BY <2>1, ListingIs DEF Diff!Reviewable
    <2> QED
      BY <1>3, <2>2 DEF Diff!ReadStatus, Diff!Reviewable
  <1>4. CASE Diff!ReadUntracked
    <2>1. PICK list \in Diff!Listing(Diff!New) :
            v3' = list.files \ Control /\ v10' = (v10 \/ list.cut)
      BY <1>4 DEF Diff!ReadUntracked
    <2>2. v3' \subseteq Diff!Reviewable /\ v10' \in BOOLEAN /\ v3' # None
      BY <2>1, ListingIs DEF Diff!Reviewable, Diff!New
    <2> QED
      BY <1>4, <2>2 DEF Diff!ReadUntracked, Diff!Reviewable
  <1>5. CASE Diff!ResolveComparison
    BY <1>5 DEF Diff!ResolveComparison, Diff!Reviewable
  <1>6. CASE Diff!ReadPatch
    <2>1. v5' \in [files : SUBSET Diff!Reviewable, bytes : 0 .. Budget] /\ v10' \in BOOLEAN
      <3>1. Diff!Tracked(v4) \subseteq Diff!Reviewable /\ Diff!Tracked(v4) \in SUBSET Files
        BY DEF Diff!Tracked, Diff!Reviewable
      <3>2. Bytes[Diff!Tracked(v4)] \in Nat
        BY <3>1
      <3>3. CASE Bytes[Diff!Tracked(v4)] <= Budget
        <4>1. v5' = [files |-> Diff!Tracked(v4), bytes |-> Bytes[Diff!Tracked(v4)]]
              /\ v10' = v10
          BY <1>6, <3>3 DEF Diff!ReadPatch
        <4> QED
          BY <3>1, <3>2, <3>3, <4>1
      <3>4. CASE ~(Bytes[Diff!Tracked(v4)] <= Budget)
        <4>1. PICK whole \in {some \in SUBSET Diff!Tracked(v4) : Bytes[some] <= Budget} :
                v5' = [files |-> whole, bytes |-> Budget] /\ v10' = TRUE
          BY <1>6, <3>4 DEF Diff!ReadPatch
        <4> QED
          BY <3>1, <4>1
      <3> QED
        BY <3>3, <3>4
    <2> QED
      BY <1>6, <2>1 DEF Diff!ReadPatch, Diff!Reviewable
  <1>7. CASE Diff!PatchFails
    BY <1>7 DEF Diff!PatchFails, Diff!Reviewable
  <1>8. CASE Diff!ReadNames
    <2>1. PICK list \in Diff!Listing(Diff!Tracked(v4)) \cup {[files |-> {}, cut |-> TRUE]} :
            v6' = list.files /\ v13' = (v13 \/ list.cut)
      BY <1>8 DEF Diff!ReadNames
    <2>2. v6' \subseteq Diff!Reviewable /\ v13' \in BOOLEAN
      BY <2>1, ListingIs DEF Diff!Tracked
    <2> QED
      BY <1>8, <2>2 DEF Diff!ReadNames, Diff!Reviewable
  <1>9. CASE Diff!StartLoop
    BY <1>9, DiffStart
  <1>10. CASE Diff!Exhausted
    BY <1>10 DEF Diff!Exhausted, Diff!Looping, Diff!Reviewable
  <1>11. CASE Diff!ReadFile
    BY <1>11, DiffReadFile
  <1>12. CASE Diff!FileFails
    BY <1>12 DEF Diff!FileFails, Diff!Looping, Diff!Reviewable
  <1>13. CASE Diff!Answer
    BY <1>13 DEF Diff!Answer, Diff!Reviewable
  <1>14. CASE Diff!Move
    BY <1>14 DEF Diff!Move, Diff!Reviewable
  <1> QED
    BY <1>1, <1>2, <1>3, <1>4, <1>5, <1>6, <1>7, <1>8, <1>9, <1>10, <1>11, <1>12, <1>13, <1>14 DEF Diff!Next

\* Each read was true of the tree that rests.
LEMMA DiffReads ==
    ASSUME Diff!Assumptions, Diff!IInv, Diff!Next, v11 = None
    PROVE  Diff!ReadsWereTrue'
  <1> SUFFICES ASSUME v12' = 0, ~v13' PROVE Diff!ReadsWereTrue'
    BY DEF Diff!ReadsWereTrue
  <1> USE DEF Diff!Assumptions, Diff!IInv, Diff!TypeOK, Diff!LoopIsFair, Diff!ReadsWereTrue, Diff!Answers, Diff!reads, Diff!patches, Diff!loop, Diff!Compared
  <1>1. CASE Diff!Refuses
    BY <1>1 DEF Diff!Refuses, Diff!New, Diff!Tracked
  <1>2. CASE Diff!Fails
    BY <1>2 DEF Diff!Fails, Diff!New, Diff!Tracked
  <1>3. CASE Diff!ReadStatus
    <2>1. PICK list \in Diff!Listing({f \in Diff!Reviewable : v1[f] \in {"edited", "new"}}) :
            v2' = list.files /\ v10' = (v10 \/ list.cut)
      BY <1>3 DEF Diff!ReadStatus
    <2>2. v2' \subseteq {f \in Diff!Reviewable : v1[f] \in {"edited", "new"}}
      BY <2>1, ListingIs
    <2> QED
      BY <1>3, <2>1, <2>2 DEF Diff!ReadStatus, Diff!New, Diff!Tracked
  <1>4. CASE Diff!ReadUntracked
    <2>1. PICK list \in Diff!Listing(Diff!New) :
            v3' = list.files \ Control /\ v10' = (v10 \/ list.cut)
      BY <1>4 DEF Diff!ReadUntracked
    <2>2. v3' \subseteq Diff!New \ Control /\ (~v10' => v3' = Diff!New \ Control)
      BY <2>1, ListingIs
    <2> QED
      BY <1>4, <2>1, <2>2 DEF Diff!ReadUntracked, Diff!New, Diff!Tracked
  <1>5. CASE Diff!ResolveComparison
    BY <1>5 DEF Diff!ResolveComparison, Diff!New, Diff!Tracked
  <1>6. CASE Diff!ReadPatch
    <2>1. v5'.files \subseteq Diff!Tracked(v4) /\ (~v10' => v5'.files = Diff!Tracked(v4))
          /\ (v10 => v10')
      BY <1>6 DEF Diff!ReadPatch
    <2> QED
      BY <1>6, <2>1 DEF Diff!ReadPatch, Diff!New, Diff!Tracked
  <1>7. CASE Diff!PatchFails
    BY <1>7 DEF Diff!PatchFails
  <1>8. CASE Diff!ReadNames
    <2>1. PICK list \in Diff!Listing(Diff!Tracked(v4)) \cup {[files |-> {}, cut |-> TRUE]} :
            v6' = list.files /\ v13' = (v13 \/ list.cut)
      BY <1>8 DEF Diff!ReadNames
    <2>2. v6' = Diff!Tracked(v4)
      <3>1. ~list.cut
        BY <2>1
      <3> QED
        BY <2>1, <3>1, ListingIs
    <2> QED
      BY <1>8, <2>1, <2>2 DEF Diff!ReadNames, Diff!New, Diff!Tracked
  <1>9. CASE Diff!StartLoop
    <2>1. v3 \in SUBSET Files
      BY <1>9 DEF Diff!StartLoop, Diff!Reviewable
    <2>2. ~v10' => v7' = v3
      <3>1. MaxFiles \in Nat /\ Cardinality(v3) \in Nat
        BY <2>1, FS_Subset, FS_CardinalityType, SameFiniteSets
      <3>2. Diff!TooMany(v3) \/ Cardinality(v3) <= MaxFiles
        BY <3>1, SameFiniteSets DEF Diff!TooMany
      <3>3. v7' = Diff!FirstOf(MaxFiles, v3) /\ (Diff!TooMany(v3) => v10')
        BY <1>9 DEF Diff!StartLoop
      <3>4. Cardinality(v3) <= MaxFiles => Diff!FirstOf(MaxFiles, v3) = v3
        BY <2>1, <3>1, FirstOfIs
      <3> QED
        BY <3>2, <3>3, <3>4
    <2>3. (v10 => v10') /\ v7 = None
      BY <1>9 DEF Diff!StartLoop
    <2> QED
      BY <1>9, <2>2, <2>3 DEF Diff!StartLoop, Diff!New, Diff!Tracked
  <1>10. CASE Diff!Exhausted
    BY <1>10 DEF Diff!Exhausted, Diff!Looping, Diff!New, Diff!Tracked
  <1>11. CASE Diff!ReadFile
    <2>1. PICK f \in v7 :
            \/ /\ v8' = v8 \cup {f}
               /\ v7' = v7 \ {f} /\ v10' = v10
            \/ v10' = TRUE
      BY <1>11 DEF Diff!ReadFile, Diff!Looping
    <2>2. ~v10' => ~v10 /\ v8' \cup v7' = v8 \cup v7
      BY <2>1
    <2> QED
      BY <1>11, <2>2 DEF Diff!ReadFile, Diff!Looping, Diff!New, Diff!Tracked
  <1>12. CASE Diff!FileFails
    BY <1>12 DEF Diff!FileFails
  <1>13. CASE Diff!Answer
    BY <1>13 DEF Diff!Answer, Diff!New, Diff!Tracked
  <1>14. CASE Diff!Move
    BY <1>14 DEF Diff!Move, Diff!Reviewable
  <1> QED
    BY <1>1, <1>2, <1>3, <1>4, <1>5, <1>6, <1>7, <1>8, <1>9, <1>10, <1>11, <1>12, <1>13, <1>14 DEF Diff!Next

\* So the answer is honest when it is made, and nothing touches it after.
LEMMA DiffNextIInv == ASSUME Diff!Assumptions, Diff!IInv, [Diff!Next]_(Diff!vars) PROVE Diff!IInv'
  <1>1. CASE UNCHANGED Diff!vars
    BY <1>1 DEF Diff!IInv, Diff!TypeOK, Diff!ReadsWereTrue, Diff!LoopIsFair, Diff!DiffIsHonest, Diff!vars, Diff!New, Diff!Tracked
  <1>2. CASE Diff!Next /\ v11 = None
    <2>1. Diff!TypeOK' /\ Diff!LoopIsFair' /\ Diff!ReadsWereTrue'
      BY <1>2, DiffLoop, DiffReads
    <2>2. Diff!DiffIsHonest'
      <3>1. CASE Diff!Answer
        <4> DEFINE truth == Diff!Tracked(v4) \cup (Diff!New \cap Diff!Reviewable)
        <4>1. v11' = [kind |-> "ok", base |-> v4, status |-> v2,
                changed |-> v6 \cup v3, patch |-> v5.files \cup v8,
                truncated |-> v10]
              /\ UNCHANGED <<v1, Diff!reads, Diff!patches, Diff!loop, v10, v12, v13>>
              /\ v7 = {} /\ v7 # None
          BY <3>1 DEF Diff!Answer, Diff!Answers, Diff!Assumptions
        <4>2. /\ v5 # None /\ v6 # None /\ v3 # None /\ v2 # None
              /\ v8 \subseteq v3
          BY <4>1 DEF Diff!IInv, Diff!LoopIsFair
        <4>3. ASSUME v12 = 0, ~v13
              PROVE  /\ v2 \cup v6 \cup v3 \cup v5.files \cup v8 \subseteq truth
                     /\ ~v10 => v6 \cup v3 = truth /\ v5.files \cup v8 = truth
          <5>1. Diff!New \ Control = Diff!New \cap Diff!Reviewable
            BY DEF Diff!New, Diff!Reviewable
          <5>2. v2 \subseteq truth
            BY <4>2, <4>3 DEF Diff!IInv, Diff!ReadsWereTrue, Diff!New, Diff!Tracked, Diff!Reviewable
          <5> QED
            BY <4>1, <4>2, <4>3, <5>1, <5>2 DEF Diff!IInv, Diff!ReadsWereTrue
        <4>4. v6 \cup v3 \cup v5.files \cup v8 \subseteq Diff!Reviewable
          BY <4>2 DEF Diff!IInv, Diff!TypeOK, Diff!LoopIsFair
        <4>5. v5.bytes + Bytes[v8] <= Budget
          <5>1. /\ v5.bytes \in Nat /\ Bytes[v8] \in Nat /\ v9 \in Nat /\ Budget \in Nat
                /\ v9 + v5.bytes + Bytes[v8] <= Budget
            BY <4>1, <4>2 DEF Diff!IInv, Diff!TypeOK, Diff!LoopIsFair, Diff!Assumptions, Diff!Reviewable
          <5> QED
            BY <5>1
        <4> QED
          BY <4>1, <4>3, <4>4, <4>5 DEF Diff!DiffIsHonest, Diff!New, Diff!Tracked, Diff!reads, Diff!patches, Diff!loop
      <3>2. CASE ~Diff!Answer
        <4>1. v11' = None \/ v11'.kind \in {"path_unknown", "not_git", "error"}
          BY <1>2, <3>2 DEF Diff!Next, Diff!Refuses, Diff!Fails, Diff!Answers, Diff!ReadStatus, Diff!ReadUntracked, Diff!ResolveComparison,
            Diff!ReadPatch, Diff!PatchFails, Diff!ReadNames, Diff!StartLoop, Diff!Exhausted, Diff!ReadFile, Diff!FileFails, Diff!Move
        <4> QED
          BY <4>1 DEF Diff!DiffIsHonest
      <3> QED
        BY <3>1, <3>2
    <2> QED
      BY <2>1, <2>2 DEF Diff!IInv
  <1> QED
    BY <1>1, <1>2, DiffAnswered
-----------------------------------------------------------------------------
\* The probe of a store.  The places hold the machine, step, port, checks, note,
\* report, seen and moves.
\*
\* The store is looked at for the first time.
LEMMA StoreInitIInv == ASSUME Store!Assumptions, Store!Init PROVE Store!IInv
  BY DEF Store!Assumptions, Store!Init, Store!IInv, Store!TypeOK, Store!DoctorWasRight, Store!GreenWasGood, Store!Checks

\* No look at it, and no change of the machine, breaks that.
LEMMA StoreNextIInv == ASSUME Store!Assumptions, Store!IInv, [Store!Next]_(Store!vars) PROVE Store!IInv'
  <1> USE DEF Store!Assumptions, Store!IInv
  <1>1. CASE Store!Move
    BY <1>1 DEF Store!Move, Store!TypeOK, Store!DoctorWasRight, Store!GreenWasGood
  <1>2. CASE Store!Stat
    <2>1. [rollup |-> "down", connected |-> None] \in Store!Reports
      BY DEF Store!Reports
    <2> QED
      BY <1>2, <2>1 DEF Store!Stat, Store!Looks, Store!TypeOK, Store!DoctorWasRight, Store!GreenWasGood
  <1>3. CASE Store!ReadPort
    BY <1>3 DEF Store!ReadPort, Store!Looks, Store!Machines, Store!TypeOK, Store!DoctorWasRight, Store!GreenWasGood
  <1>4. CASE Store!Doctor
    <2>1. v1.worst \in Store!Statuses
      BY DEF Store!TypeOK, Store!Machines
    <2>2. v1 \in v7 /\ v1' = v1 /\ v7' = v7 /\ v6' = v6 /\ v3' = v3
          /\ v2 = "doctor" /\ v2' = "connect"
      BY <1>4 DEF Store!Doctor, Store!Looks, Store!DoctorWasRight
    <2>3. CASE /\ v1.server /\ v1.directory
               /\ \E connection \in {"ok", None} :
                    v4' = [worst |-> v1.worst, connection |-> connection]
               /\ UNCHANGED v5
      <3>1. v4' \in Store!Checks /\ (v4'.worst = "ok" => v1.worst = "ok")
        BY <2>1, <2>3 DEF Store!Checks
      <3> QED
        BY <2>2, <2>3, <3>1 DEF Store!TypeOK, Store!DoctorWasRight, Store!GreenWasGood
    <2>4. CASE v4' = [worst |-> "error", connection |-> "error"] /\ UNCHANGED v5
      <3>1. v4' \in Store!Checks /\ v4'.worst # "ok"
        BY <2>4 DEF Store!Checks, Store!Statuses
      <3> QED
        BY <2>2, <2>4, <3>1 DEF Store!TypeOK, Store!DoctorWasRight, Store!GreenWasGood
    <2>5. CASE v4' = None /\ v5' = TRUE
      BY <2>2, <2>5 DEF Store!TypeOK, Store!DoctorWasRight, Store!GreenWasGood
    <2> QED
      BY <1>4, <2>3, <2>4, <2>5 DEF Store!Doctor
  <1>5. CASE Store!Connect
    <2> DEFINE said == IF v4 = None \/ v4.connection = None THEN None
                       ELSE v4.connection = "ok"
               connected == IF v3 # None THEN Store!Answers(v3) ELSE said
               worst == IF v4 = None THEN "ok" ELSE v4.worst
               verdict == Store!rollupFor(connected, worst, v5)
    <2>1. v6' = [rollup |-> verdict, connected |-> connected]
      BY <1>5 DEF Store!Connect
    <2>2. Store!Answers(v3) \in BOOLEAN
      BY DEF Store!Answers, Store!TypeOK, Store!Machines
    <2>3. said \in BOOLEAN \cup {None}
      OBVIOUS
    <2>4. connected \in BOOLEAN \cup {None}
      BY <2>2, <2>3
    <2>5. worst \in Store!Statuses /\ v5 \in BOOLEAN
      BY DEF Store!TypeOK, Store!Checks, Store!Statuses
    <2> HIDE DEF connected, said
    <2>6. verdict \in {"ok", "warn", "down"}
      BY <2>4, <2>5 DEF Store!rollupFor, Store!Statuses
    <2>7. verdict = "ok" => worst = "ok" /\ ~v5
      BY <2>4, <2>5 DEF Store!rollupFor, Store!Statuses
    <2> HIDE DEF verdict
    <2>8. v6' \in Store!Reports /\ v6'.rollup = verdict
      BY <2>1, <2>4, <2>6 DEF Store!Reports
    <2>9. verdict = "ok" => \E m \in v7 : m.directory /\ m.server /\ m.worst = "ok"
      BY <1>5, <2>7 DEF Store!Connect, Store!DoctorWasRight
    <2> QED
      BY <1>5, <2>8, <2>9 DEF Store!Connect, Store!Looks, Store!TypeOK, Store!DoctorWasRight, Store!GreenWasGood
  <1>6. CASE Store!Throws
    <2>1. [rollup |-> "down", connected |-> None] \in Store!Reports
      BY DEF Store!Reports
    <2> QED
      BY <1>6, <2>1 DEF Store!Throws, Store!Looks, Store!TypeOK, Store!DoctorWasRight, Store!GreenWasGood
  <1>7. CASE UNCHANGED Store!vars
    BY <1>7 DEF Store!vars, Store!TypeOK, Store!DoctorWasRight, Store!GreenWasGood
  <1> QED
    BY <1>1, <1>2, <1>3, <1>4, <1>5, <1>6, <1>7 DEF Store!Next
-----------------------------------------------------------------------------
\* The rules of the maintainer's page, for any list of issues and pull requests
\* and any slings.
\*
\* A set of numbers has a least one, and a finite one a greatest of any score.
LEMMA LeastExists ==
    ASSUME NEW T \in SUBSET Nat, T # {}
    PROVE  \E x \in T : \A y \in T : x <= y
  <1>1. IsWellFoundedOn({ss \in Nat \X Nat : ss[1] < ss[2]}, Nat)
    BY NatLessThanWellFounded DEF OpToRel
  <1>2. PICK x \in T : \A y \in T : ~ (<<y, x>> \in {ss \in Nat \X Nat : ss[1] < ss[2]})
    BY <1>1, WFMin
  <1>3. \A y \in T : ~(y < x) /\ x \in Nat /\ y \in Nat
    BY <1>2
  <1> QED
    BY <1>3

LEMMA HighestExists ==
    ASSUME NEW T, IsFiniteSet(T), T # {}, NEW score, \A x \in T : score[x] \in Int
    PROVE  \E x \in T : \A y \in T : score[y] <= score[x]
  <1> DEFINE Topped(S) == \E x \in S : \A y \in S : score[y] <= score[x]
  <1>1. SUFFICES ASSUME ~Topped(T) PROVE FALSE
    OBVIOUS
  <1>2. PICK Bad : Bad = {S \in SUBSET T : S # {} /\ ~Topped(S)}
    OBVIOUS
  <1>3. PICK sizes : sizes = {Cardinality(S) : S \in Bad}
    OBVIOUS
  <1>4. \A S \in Bad : S \subseteq T /\ IsFiniteSet(S) /\ Cardinality(S) \in Nat
    BY <1>2, FS_Subset, FS_CardinalityType
  <1>5. sizes \in SUBSET Nat /\ sizes # {}
    BY <1>1, <1>2, <1>3, <1>4
  <1>6. PICK S \in Bad : \A n \in sizes : Cardinality(S) <= n
    BY <1>3, <1>5, LeastExists
  <1>7. S \subseteq T /\ S # {} /\ ~Topped(S) /\ IsFiniteSet(S)
    BY <1>2, <1>4
  <1>8. PICK x \in S : TRUE
    BY <1>7
  <1>9. IsFiniteSet(S \ {x}) /\ Cardinality(S \ {x}) = Cardinality(S) - 1
    BY <1>7, <1>8, FS_RemoveElement
  <1>10. S \ {x} \notin Bad
    BY <1>3, <1>4, <1>6, <1>9
  <1>11. S \ {x} = {} \/ Topped(S \ {x})
    BY <1>2, <1>7, <1>10
  <1>12. CASE S \ {x} = {}
    BY <1>7, <1>8, <1>12
  <1>13. CASE Topped(S \ {x})
    <2>1. PICK z \in S \ {x} : \A y \in S \ {x} : score[y] <= score[z]
      BY <1>13
    <2>2. score[x] \in Int /\ score[z] \in Int /\ \A y \in S : score[y] \in Int
      BY <1>7
    <2>3. CASE score[x] <= score[z]
      BY <1>7, <2>1, <2>2, <2>3
    <2>4. CASE score[z] <= score[x]
      BY <1>7, <2>1, <2>2, <2>4
    <2> QED
      BY <2>2, <2>3, <2>4
  <1> QED
    BY <1>11, <1>12, <1>13

\* The finite sets of the instance are those of the module.
LEMMA RulesSameSets == ASSUME NEW S
    PROVE  (Rules!IsFiniteSet(S) <=> IsFiniteSet(S)) /\ Rules!Cardinality(S) = Cardinality(S)
  <1>1. Rules!IsFiniteSet(S) <=> IsFiniteSet(S)
    BY DEF Rules!IsFiniteSet, IsFiniteSet
  <1>2. Rules!Cardinality(S) = Cardinality(S)
    BY DEF Rules!Cardinality, Cardinality
  <1> QED
    BY <1>1, <1>2

\* A pull request has a score, whatever its labels, and an assessment is a number.
LEMMA ScoreIs ==
    ASSUME NEW it, it.lines \in Nat, NEW item, item.kind = "pr"
    PROVE  Rules!computeTriageScore(it, item) \in Int
  <1>1. Rules!severityBase(Rules!classifyTier(it)) \in Nat
    BY DEF Rules!severityBase
  <1>2. Rules!sizeBonus(it.lines) \in Nat
    BY DEF Rules!sizeBonus
  <1>3. Rules!statusBonus(item.status) \in Nat
    BY DEF Rules!statusBonus
  <1>4. Rules!simplicityBonus(it, item) \in Nat
    BY <1>2, <1>3 DEF Rules!simplicityBonus
  <1> QED
    BY <1>1, <1>4 DEF Rules!computeTriageScore

LEMMA AssessmentIs ==
    ASSUME NEW it, it.severity \in (0 .. 4) \cup {None}
    PROVE  Rules!parseTriageAssessment(it) \in Int \cup {None}
  <1> DEFINE bonus == CASE it.simplicity = "low" -> 10 [] it.simplicity = "medium" -> 30 [] OTHER -> 50
  <1>1. bonus \in Int
    OBVIOUS
  <1>2. ASSUME it.severity \in 0 .. 4 PROVE (300 - 50 * it.severity) + bonus \in Int
    BY <1>1, <1>2
  <1> QED
    BY <1>2 DEF Rules!parseTriageAssessment

\* What is made of a number of the list.
LEMMA ItemIs ==
    ASSUME NEW gh, Rules!Open(gh), NEW n \in DOMAIN gh
    PROVE  LET item == Rules!composeEnvelope(gh).items[n]
           IN  /\ item.kind = gh[n].kind /\ item.slung = None
               /\ item.topic = gh[n].topic /\ item.tier = Rules!classifyTier(gh[n])
               /\ item.kind = "pr" => /\ item.linked = gh[n].closes /\ item.files = gh[n].files
                                      /\ item.status = Rules!derivePrStatus(gh[n])
                                      /\ item.score \in Int
               /\ item.kind = "issue" => item.files = {}
               /\ item.assessment \in Int \cup {None}
  <1> DEFINE first == Rules!mapped(gh)
             second == Rules!inheritIssueFiles(first)
             fetched == Rules!fetchTriage(gh)
             item == Rules!composeEnvelope(gh).items[n]
  <1>1. DOMAIN first = DOMAIN gh /\ first[n] = IF gh[n].kind = "pr" THEN Rules!mapPr(gh[n]) ELSE Rules!mapIssue(gh[n])
    BY DEF Rules!mapped
  <1>2. second[n] = first[n] /\ DOMAIN second = DOMAIN gh
    <2>1. gh[n].kind = "pr" => first[n].kind = "pr"
      BY <1>1 DEF Rules!mapPr
    <2>2. gh[n].kind # "pr" => first[n].linked = {}
      BY <1>1 DEF Rules!mapIssue
    <2> QED
      BY <1>1, <2>1, <2>2 DEF Rules!inheritIssueFiles
  <1>3. fetched[n] = IF second[n].kind = "pr" THEN second[n]
                     ELSE [second[n] EXCEPT !.linked = {p \in DOMAIN second : second[p].kind = "pr" /\ n \in second[p].linked}]
    BY <1>2 DEF Rules!fetchTriage, Rules!prsByFixedIssue
  <1>4. item = Rules!classifyItem(gh[n], fetched[n])
    BY DEF Rules!composeEnvelope
  <1>5. gh[n].kind \in {"issue", "pr"} /\ gh[n].lines \in Nat /\ gh[n].severity \in (0 .. 4) \cup {None}
    BY DEF Rules!Open
  <1>6. CASE gh[n].kind = "pr"
    <2>1. fetched[n] = Rules!mapPr(gh[n])
      BY <1>1, <1>2, <1>3, <1>6 DEF Rules!mapPr
    <2>2. fetched[n].kind = "pr" /\ fetched[n].status = Rules!derivePrStatus(gh[n])
          /\ fetched[n].blast_files = gh[n].files /\ fetched[n].linked = gh[n].closes
      BY <2>1 DEF Rules!mapPr
    <2>3. item.score \in Int /\ item.assessment \in Int \cup {None}
      BY <1>4, <1>5, <2>2, ScoreIs, AssessmentIs DEF Rules!classifyItem
    <2> QED
      BY <1>4, <1>6, <2>2, <2>3 DEF Rules!classifyItem
  <1>7. CASE gh[n].kind = "issue"
    <2>1. second[n] = Rules!mapIssue(gh[n])
      BY <1>1, <1>2, <1>7
    <2>2. fetched[n].kind = "issue" /\ fetched[n].blast_files = {}
      BY <1>3, <2>1 DEF Rules!mapIssue
    <2>3. item.assessment \in Int \cup {None}
      BY <1>4, <1>5, AssessmentIs DEF Rules!classifyItem
    <2> QED
      BY <1>4, <1>7, <2>2, <2>3 DEF Rules!classifyItem
  <1> QED
    BY <1>5, <1>6, <1>7

\* What is served of a list and its slings.
Served(gh, slings) == Rules!applySlungOverlay(Rules!composeEnvelope(gh), slings)

LEMMA ServedIs ==
    ASSUME NEW gh, Rules!Open(gh), NEW slings
    PROVE  /\ DOMAIN Served(gh, slings).items = DOMAIN gh
           /\ Served(gh, slings).marked = Rules!selectMarkWinner(Served(gh, slings).items)
           /\ \A n \in DOMAIN gh :
                LET item == Served(gh, slings).items[n]
                    was == Rules!composeEnvelope(gh).items[n]
                IN  /\ item.kind = was.kind /\ item.tier = was.tier /\ item.status = was.status
                    /\ item.linked = was.linked /\ item.files = was.files
                    /\ item.score = was.score /\ item.assessment = was.assessment
                    /\ item.slung = IF was.assessment = None THEN slings[n] ELSE None
                    /\ n \in Served(gh, slings).slung_section <=> item.slung # None
  <1> DEFINE envelope == Rules!composeEnvelope(gh)
             fetched == Rules!fetchTriage(gh)
             items == [n \in DOMAIN envelope.items |->
                  [envelope.items[n] EXCEPT !.slung = Rules!activeSling(envelope.items[n], slings[n])]]
  <1>1. envelope.items = [n \in DOMAIN gh |-> Rules!classifyItem(gh[n], fetched[n])]
    BY DEF Rules!composeEnvelope
  <1>2. /\ Served(gh, slings).items = items
        /\ Served(gh, slings).marked = Rules!selectMarkWinner(items)
        /\ Served(gh, slings).slung_section = {n \in DOMAIN items : items[n].slung # None}
    <2> HIDE DEF envelope
    <2> QED
      BY DEF Served, Rules!applySlungOverlay, envelope
  <1>3. ASSUME NEW n \in DOMAIN gh
        PROVE  LET item == items[n]
                   was == envelope.items[n]
                IN  /\ item.kind = was.kind /\ item.tier = was.tier /\ item.status = was.status
                    /\ item.linked = was.linked /\ item.files = was.files
                    /\ item.score = was.score /\ item.assessment = was.assessment
                    /\ item.slung = IF was.assessment = None THEN slings[n] ELSE None
    <2> HIDE DEF envelope, fetched
    <2>1. envelope.items[n] = Rules!classifyItem(gh[n], fetched[n]) /\ n \in DOMAIN envelope.items
      BY <1>1
    <2>2. items[n] = [Rules!classifyItem(gh[n], fetched[n]) EXCEPT !.slung = Rules!activeSling(envelope.items[n], slings[n])]
      BY <2>1
    <2> HIDE DEF items
    <2> QED
      BY <2>1, <2>2 DEF Rules!classifyItem, Rules!activeSling
  <1>4. DOMAIN items = DOMAIN gh
    <2> HIDE DEF envelope, fetched
    <2> QED
      BY <1>1
  <1> HIDE DEF items
  <1> QED
    BY <1>2, <1>3, <1>4

\* The mark goes to a candidate that no other is before, as the issues it closes
\* have a pull request in flight: itself.
LEMMA WinnerIs ==
    ASSUME NEW items, DOMAIN items \subseteq Nat, IsFiniteSet(DOMAIN items), None \notin DOMAIN items,
           \A n \in DOMAIN items : items[n].kind = "pr" =>
             Rules!sortScore(items[n]) \in Int /\ items[n].status \notin {"merged", "closed"},
           NEW candidates, candidates = {n \in DOMAIN items : Rules!isMarkCandidate(items[n])}
    PROVE  /\ Rules!selectMarkWinner(items) = None <=> candidates = {}
           /\ candidates # {} =>
                /\ Rules!selectMarkWinner(items) \in candidates
                /\ \A m \in candidates :
                     Rules!sortScore(items[m]) <= Rules!sortScore(items[Rules!selectMarkWinner(items)])
  <1> DEFINE busy == Rules!issueNumbersWithInFlightPr(items)
             ready == {n \in DOMAIN items : Rules!isMarkCandidate(items[n]) /\ ~Rules!computeHasInFlightPr(items, n)}
             highest == {n \in ready : \A m \in ready : Rules!sortScore(items[m]) <= Rules!sortScore(items[n])}
             top == Rules!Min(highest)
             parents == {i \in items[top].linked \cap DOMAIN items : items[i].kind = "issue" /\ i \notin busy}
  <1>1. \A n \in candidates : n \in DOMAIN items /\ items[n].kind = "pr" /\ Rules!sortScore(items[n]) \in Int
    BY DEF Rules!isMarkCandidate
  <1>2. ready = candidates
    BY <1>1 DEF Rules!computeHasInFlightPr
  <1>3. Rules!selectMarkWinner(items) = IF ready = {} THEN None ELSE IF parents = {} THEN top ELSE Rules!Min(parents)
    BY DEF Rules!selectMarkWinner
  <1>4. CASE candidates = {}
    BY <1>2, <1>3, <1>4
  <1>5. CASE candidates # {}
    <2>1. PICK score : score = [n \in candidates |-> Rules!sortScore(items[n])]
      OBVIOUS
    <2>2. IsFiniteSet(candidates)
      BY FS_Subset
    <2>3. \A n \in candidates : score[n] \in Int /\ score[n] = Rules!sortScore(items[n])
      BY <1>1, <2>1
    <2>4. \E x \in candidates : \A y \in candidates : score[y] <= score[x]
      BY <1>5, <2>2, <2>3, HighestExists
    <2>5. highest # {} /\ highest \in SUBSET Nat
      BY <1>1, <1>2, <2>3, <2>4
    <2>6. \E x \in highest : \A y \in highest : x <= y
      <3> HIDE DEF highest
      <3> QED
        BY <2>5, LeastExists
    <2>7. top \in highest
      <3> HIDE DEF highest
      <3> QED
        BY <2>6 DEF Rules!Min
    <2>8. top \in candidates /\ \A m \in candidates : Rules!sortScore(items[m]) <= Rules!sortScore(items[top])
      <3> HIDE DEF top
      <3> QED
        BY <1>2, <2>7
    <2>9. items[top].linked \subseteq busy
      <3> HIDE DEF top
      <3> QED
        BY <1>1, <2>8 DEF Rules!issueNumbersWithInFlightPr
    <2>10. parents = {}
      <3> HIDE DEF top, busy
      <3> QED
        BY <2>9
    <2>11. Rules!selectMarkWinner(items) = top
      BY <1>2, <1>3, <1>5, <2>10
    <2> HIDE DEF top
    <2> QED
      BY <1>1, <1>5, <2>8, <2>11
  <1> QED
    BY <1>4, <1>5

\* The mark is the next thing to do.
LEMMA MarkHolds ==
    ASSUME NEW gh, Rules!Open(gh), NEW slings
    PROVE  Rules!MarkIsNext(gh, slings)
  <1> DEFINE item == Served(gh, slings).items
             ready == {n \in DOMAIN gh :
                  /\ gh[n].kind = "pr" /\ "bug" \in gh[n].labels /\ {"p0", "p1"} \cap gh[n].labels # {}
                  /\ ~gh[n].draft /\ gh[n].review # "changes_requested"
                  /\ n \notin Served(gh, slings).slung_section}
             candidates == {n \in DOMAIN item : Rules!isMarkCandidate(item[n])}
  <1>0. DOMAIN item = DOMAIN gh
    BY ServedIs
  <1>1. DOMAIN gh \subseteq Nat /\ IsFiniteSet(DOMAIN gh) /\ None \notin DOMAIN gh
    BY RulesSameSets DEF Rules!Open
  <1>2. ASSUME NEW n \in DOMAIN gh
        PROVE  /\ item[n].kind = gh[n].kind
               /\ item[n].tier = Rules!classifyTier(gh[n])
               /\ n \in Served(gh, slings).slung_section <=> item[n].slung # None
               /\ item[n].kind = "pr" =>
                    /\ item[n].linked = gh[n].closes
                    /\ item[n].status = Rules!derivePrStatus(gh[n])
                    /\ Rules!sortScore(item[n]) \in Int
    BY ServedIs, ItemIs DEF Rules!sortScore
  <1>3. ASSUME NEW n \in DOMAIN gh
        PROVE  /\ Rules!derivePrStatus(gh[n]) \notin {"merged", "closed"}
               /\ Rules!derivePrStatus(gh[n]) \notin {"draft", "changes_requested"}
                    <=> ~gh[n].draft /\ gh[n].review # "changes_requested"
               /\ Rules!classifyTier(gh[n]) = "regression_breaking"
                    <=> "bug" \in gh[n].labels /\ {"p0", "p1"} \cap gh[n].labels # {}
    BY DEF Rules!derivePrStatus, Rules!classifyTier
  <1> HIDE DEF item
  <1>4. ready = candidates
    BY <1>0, <1>2, <1>3 DEF Rules!isMarkCandidate
  <1>5. /\ Rules!selectMarkWinner(item) = None <=> candidates = {}
        /\ candidates # {} =>
             /\ Rules!selectMarkWinner(item) \in candidates
             /\ \A m \in candidates :
                  Rules!sortScore(item[m]) <= Rules!sortScore(item[Rules!selectMarkWinner(item)])
    <2>1. \A n \in DOMAIN item : item[n].kind = "pr" =>
             Rules!sortScore(item[n]) \in Int /\ item[n].status \notin {"merged", "closed"}
      BY <1>0, <1>2, <1>3
    <2> QED
      BY <1>0, <1>1, <2>1, WinnerIs
  <1>6. Served(gh, slings).marked = Rules!selectMarkWinner(item)
    BY ServedIs DEF item
  <1> DEFINE mark == Served(gh, slings).marked
  <1>7. mark = None <=> ready = {}
    BY <1>4, <1>5, <1>6
  <1>8. mark # None => mark \in ready /\ \A n \in ready : Rules!sortScore(item[n]) <= Rules!sortScore(item[mark])
    BY <1>4, <1>5, <1>6
  <1>9. ASSUME NEW n \in DOMAIN gh, gh[n].kind = "issue", NEW p \in DOMAIN gh, n \in gh[p].closes
        PROVE  Rules!computeHasInFlightPr(item, n) /\ mark # n
    <2>1. gh[p].kind = "pr"
      BY <1>9 DEF Rules!Open
    <2>2. p \in DOMAIN item /\ item[p].kind = "pr" /\ item[p].status \notin {"merged", "closed"} /\ n \in item[p].linked
      BY <1>0, <1>2, <1>3, <1>9, <2>1
    <2>3. n \in Rules!issueNumbersWithInFlightPr(item)
      BY <2>2 DEF Rules!issueNumbersWithInFlightPr
    <2>4. mark # n
      BY <1>1, <1>7, <1>8, <1>9
    <2> QED
      BY <1>2, <1>9, <2>3, <2>4 DEF Rules!computeHasInFlightPr
  <1> HIDE DEF ready, mark
  <1>10. ASSUME TRUE PROVE
       /\ mark = None <=> ready = {}
       /\ mark # None =>
           /\ mark \in ready
           /\ \A n \in ready : Rules!sortScore(item[n]) <= Rules!sortScore(item[mark])
       /\ \A n \in DOMAIN gh : gh[n].kind = "issue" /\ (\E p \in DOMAIN gh : n \in gh[p].closes) =>
           Rules!computeHasInFlightPr(item, n) /\ mark # n
    BY <1>7, <1>8, <1>9
  <1> QED
    BY <1>10 DEF Rules!MarkIsNext, Served, ready, mark, item

\* What is made step by step exists for any number of steps.
Steps(k, U, X, F) == {f \in [0 .. k -> U] : f[0] = X /\ \A n \in 1 .. k : f[n] = F[f[n - 1]]}

LEMMA RecursionExists ==
    ASSUME NEW k \in Nat, NEW U, NEW X \in U, NEW F \in [U -> U]
    PROVE  Steps(k, U, X, F) # {}
  <1> DEFINE Made(j) == \E f \in [0 .. j -> U] : f[0] = X /\ \A n \in 1 .. j : f[n] = F[f[n - 1]]
  <1>1. SUFFICES ASSUME ~Made(k) PROVE FALSE
    BY DEF Steps
  <1>2. PICK bad : bad = {j \in Nat : ~Made(j)}
    OBVIOUS
  <1>3. PICK j \in bad : \A i \in bad : j <= i
    BY <1>1, <1>2, LeastExists
  <1>4. j \in Nat
    BY <1>2
  <1>5. CASE j = 0
    <2>1. PICK g : g = [n \in 0 .. 0 |-> X]
      OBVIOUS
    <2>2. g \in [0 .. 0 -> U] /\ g[0] = X
      BY <2>1
    <2>3. Made(0)
      BY <2>2
    <2> QED
      BY <1>2, <1>5, <2>3
  <1>6. CASE j # 0
    <2>1. j - 1 \in Nat /\ j - 1 \notin bad
      BY <1>3, <1>4, <1>6
    <2>2. Made(j - 1)
      BY <1>2, <2>1
    <2>3. PICK g \in [0 .. j - 1 -> U] : g[0] = X /\ \A n \in 1 .. j - 1 : g[n] = F[g[n - 1]]
      BY <2>2
    <2>4. PICK h : h = [n \in 0 .. j |-> IF n = j THEN F[g[j - 1]] ELSE g[n]]
      OBVIOUS
    <2>5. \A n \in 0 .. j - 1 : n \in 0 .. j /\ n # j /\ h[n] = g[n] /\ g[n] \in U
      BY <1>4, <2>4, <2>3
    <2>6. j \in 0 .. j /\ h[j] = F[g[j - 1]] /\ h[j] \in U
      BY <1>4, <2>1, <2>3, <2>4
    <2>7. \A n \in 0 .. j : n = j \/ n \in 0 .. j - 1
      BY <1>4
    <2>8. h \in [0 .. j -> U]
      BY <2>4, <2>5, <2>6, <2>7
    <2>9. ASSUME NEW n \in 1 .. j PROVE h[n] = F[h[n - 1]]
      <3>1. n - 1 \in 0 .. j - 1 /\ (n = j \/ n \in 1 .. j - 1)
        BY <1>4
      <3> QED
        BY <2>3, <2>5, <2>6, <3>1
    <2>10. h[0] = X
      BY <2>1, <2>3, <2>5
    <2>11. Made(j)
      BY <2>8, <2>9, <2>10
    <2> QED
      BY <1>2, <2>11
  <1> QED
    BY <1>5, <1>6

\* What holds at the beginning and after every step that it holds before, holds.
LEMMA StepsKeep ==
    ASSUME NEW k \in Nat, NEW made, NEW Good,
           made[0] \in Good, \A n \in 1 .. k : made[n - 1] \in Good => made[n] \in Good
    PROVE  made[k] \in Good
  <1>1. SUFFICES ASSUME made[k] \notin Good PROVE FALSE
    OBVIOUS
  <1>2. PICK bad : bad = {n \in 0 .. k : made[n] \notin Good}
    OBVIOUS
  <1>3. k \in bad /\ bad \in SUBSET Nat
    BY <1>1, <1>2
  <1>4. PICK n \in bad : \A i \in bad : n <= i
    BY <1>3, LeastExists
  <1>5. n \in 0 .. k /\ made[n] \notin Good
    BY <1>2
  <1>6. n \in 1 .. k /\ n - 1 \in 0 .. k /\ n - 1 \notin bad
    BY <1>4, <1>5
  <1> QED
    BY <1>2, <1>5, <1>6

\* The members of a cluster by file have the file, and no item is in two,
\* whichever file is the next to claim what is left.
Apart(clusters) == \A c, d \in clusters : c = d \/ c.items \cap d.items = {}
ByFile(items, tier, clusters) ==
    /\ \A c \in clusters : /\ c.by[1] = "file" /\ c.items \subseteq tier
                           /\ \A n \in c.items : c.by[2] \in items[n].files
    /\ Apart(clusters)

LEMMA FileClustersAre ==
    ASSUME NEW items, NEW tier, IsFiniteSet(UNION {items[n].files : n \in tier})
    PROVE  ByFile(items, tier, Rules!buildClusters(items, tier))
  <1> DEFINE size(f) == Rules!Cardinality(Rules!Members(items, tier, f))
             shared == {f \in UNION {items[n].files : n \in tier} : size(f) >= 2}
             first(left) == CHOOSE f \in left : \A g \in left : size(f) > size(g) \/ (size(f) = size(g) /\ f <= g)
             eligible(m) == Rules!Members(items, tier, first(m.left)) \ UNION {c.items : c \in m.clusters}
             claim(m) == [left |-> m.left \ {first(m.left)},
                          clusters |-> IF Rules!Cardinality(eligible(m)) < 2 THEN m.clusters
                                       ELSE m.clusters \cup {Rules!Cluster(<<"file", first(m.left)>>, eligible(m))}]
  <1>1. PICK n \in Nat : n = Rules!Cardinality(shared)
    <2>1. IsFiniteSet(shared)
      <3> HIDE DEF size
      <3> QED
        BY FS_Subset
    <2> HIDE DEF shared
    <2> QED
      BY <2>1, FS_CardinalityType, RulesSameSets
  <1> HIDE DEF first
  <1>2a. PICK Names : Names = {<<"file", first(left)>> : left \in SUBSET shared}
    OBVIOUS
  <1>2. PICK C : C = [by : Names, items : SUBSET tier]
    OBVIOUS
  <1>3. PICK U : U = [left : SUBSET shared, clusters : SUBSET C]
    OBVIOUS
  <1>4. PICK F : F = [m \in U |-> claim(m)]
    OBVIOUS
  <1>5. PICK X : X = [left |-> shared, clusters |-> {}]
    OBVIOUS
  <1>6. ASSUME NEW m \in U PROVE claim(m) \in U
    <2>1. m.left \in SUBSET shared /\ m.clusters \in SUBSET C
      BY <1>3
    <2>2. eligible(m) \in SUBSET tier
      BY DEF Rules!Members
    <2> HIDE DEF eligible, shared
    <2>3. Rules!Cluster(<<"file", first(m.left)>>, eligible(m)) \in C
      BY <1>2a, <1>2, <2>1, <2>2 DEF Rules!Cluster
    <2>4. claim(m).left \in SUBSET shared /\ claim(m).clusters \in SUBSET C
      BY <2>1, <2>3
    <2> QED
      BY <1>3, <2>4
  <1>7. X \in U /\ F \in [U -> U] /\ \A m \in U : F[m] = claim(m)
    BY <1>3, <1>4, <1>5, <1>6
  <1>8. Steps(n, U, X, F) # {}
    BY <1>7, RecursionExists
  <1>9. PICK steps \in [0 .. n -> U] : steps[0] = X /\ \A i \in 1 .. n : steps[i] = F[steps[i - 1]]
    BY <1>8 DEF Steps
  <1> DEFINE Is(f) == f = [i \in 0 .. n |-> IF i = 0 THEN [left |-> shared, clusters |-> {}] ELSE claim(f[i - 1])]
  <1>10. Is(steps)
    <2>1. ASSUME NEW i \in 0 .. n PROVE steps[i] = IF i = 0 THEN X ELSE claim(steps[i - 1])
      <3>1. CASE i = 0
        BY <1>9, <3>1
      <3>2. CASE i # 0
        <4>1. i \in 1 .. n /\ i - 1 \in 0 .. n
          BY <3>2
        <4>2. steps[i - 1] \in U /\ steps[i] = F[steps[i - 1]]
          BY <1>9, <4>1
        <4> HIDE DEF claim
        <4> QED
          BY <1>7, <3>2, <4>2
      <3> QED
        BY <3>1, <3>2
    <2> HIDE DEF claim, shared
    <2> QED
      BY <1>5, <1>9, <2>1
  <1> DEFINE made == CHOOSE f : Is(f)
  <1>11. Is(made)
    BY <1>10
  <1>12. Rules!buildClusters(items, tier) = made[n].clusters
    BY <1>1 DEF Rules!buildClusters, first
  <1> HIDE DEF made
  <1>13. made[0] = X /\ \A i \in 1 .. n : made[i] = claim(made[i - 1])
    <2>1. \A i \in 1 .. n : i \in 0 .. n /\ i # 0
      OBVIOUS
    <2>2. 0 \in 0 .. n
      OBVIOUS
    <2> HIDE DEF claim, shared
    <2> QED
      BY <1>5, <1>11, <2>1, <2>2
  <1>14. \A i \in 0 .. n : made[i] \in U
    <2>1. \A i \in 1 .. n : made[i - 1] \in U => made[i] \in U
      <3> HIDE DEF claim
      <3> QED
        BY <1>6, <1>13
    <2>2. made[0] \in U
      BY <1>7, <1>13
    <2>3. ASSUME NEW i \in 0 .. n PROVE made[i] \in U
      <3>1. i \in Nat /\ \A j \in 1 .. i : made[j - 1] \in U => made[j] \in U
        BY <2>1
      <3> QED
        BY <2>2, <3>1, StepsKeep
    <2> QED
      BY <2>3
  <1>15. PICK Good : Good = {m \in U : ByFile(items, tier, m.clusters)}
    OBVIOUS
  <1>16. ASSUME NEW m \in Good PROVE claim(m) \in Good
    <2>1. m \in U /\ ByFile(items, tier, m.clusters) /\ claim(m) \in U
      BY <1>6, <1>15
    <2> DEFINE new == Rules!Cluster(<<"file", first(m.left)>>, eligible(m))
    <2>2. CASE claim(m).clusters = m.clusters
      <3> HIDE DEF claim
      <3> QED
        BY <1>15, <2>1, <2>2
    <2>3. CASE claim(m).clusters = m.clusters \cup {new}
      <3>1. new.by[1] = "file" /\ new.by[2] = first(m.left) /\ new.items = eligible(m)
        BY DEF Rules!Cluster
      <3>2. eligible(m) \subseteq tier /\ \A k \in eligible(m) : first(m.left) \in items[k].files
        BY DEF Rules!Members
      <3>3. \A c \in m.clusters : c.items \cap eligible(m) = {}
        OBVIOUS
      <3> HIDE DEF claim, new, eligible
      <3>4. ByFile(items, tier, m.clusters \cup {new})
        BY <2>1, <3>1, <3>2, <3>3 DEF ByFile, Apart
      <3> QED
        BY <1>15, <2>1, <2>3, <3>4
    <2>4. claim(m).clusters = m.clusters \/ claim(m).clusters = m.clusters \cup {new}
      <3> HIDE DEF new, eligible
      <3> QED
        BY DEF new
    <2> QED
      BY <2>2, <2>3, <2>4
  <1>17. made[0] \in Good
    BY <1>5, <1>7, <1>13, <1>15 DEF ByFile, Apart
  <1>18. \A i \in 1 .. n : made[i - 1] \in Good => made[i] \in Good
    <2> HIDE DEF claim
    <2> QED
      BY <1>13, <1>16
  <1>19. made[n] \in Good
    BY <1>17, <1>18, StepsKeep
  <1> QED
    BY <1>12, <1>15, <1>19

\* What a cluster is named for, its members have.
Named(items, c) ==
    \A n \in c.items : \/ c.by = <<"topic", items[n].topic>>
                       \/ c.by[1] = "file" /\ c.by[2] \in items[n].files

\* Nobody is in two clusters of a tier, whose members are of it and are alike.
TierIs(items, in, tier) ==
    /\ Apart(tier.clusters)
    /\ \A c \in tier.clusters : c.items \subseteq in /\ Named(items, c)
    /\ tier.unclustered = in \ UNION {c.items : c \in tier.clusters}

LEMMA ComposedIs ==
    ASSUME NEW items, NEW tier,
           IsFiniteSet(UNION {items[n].files : n \in {m \in DOMAIN items : items[m].tier = tier}})
    PROVE  TierIs(items, {n \in DOMAIN items : items[n].tier = tier}, Rules!composeTier(items, tier))
  <1> DEFINE in == {n \in DOMAIN items : items[n].tier = tier}
             byFile == Rules!buildClusters(items, in)
             rest == in \ UNION {c.items : c \in byFile}
             byTopic == Rules!buildTopicClusters(items, rest)
             about(t) == {n \in rest : items[n].topic = t}
  <1>1. Rules!composeTier(items, tier) =
          [clusters |-> byFile \cup byTopic,
           unclustered |-> in \ UNION {c.items : c \in byFile \cup byTopic}]
    BY DEF Rules!composeTier
  <1>2. ByFile(items, in, byFile)
    BY FileClustersAre
  <1>3. \A c \in byTopic : \E t : c = Rules!Cluster(<<"topic", t>>, about(t))
    BY DEF Rules!buildTopicClusters
  <1>4. ASSUME NEW c \in byTopic
        PROVE  \E t : c.by = <<"topic", t>> /\ c.items = about(t) /\ c = Rules!Cluster(<<"topic", t>>, about(t))
    BY <1>3 DEF Rules!Cluster
  <1> HIDE DEF byTopic, byFile
  <1>5. \A c \in byTopic : c.items \subseteq rest /\ Named(items, c)
    BY <1>4 DEF Named
  <1>6. ASSUME NEW c \in byTopic, NEW d \in byTopic PROVE c = d \/ c.items \cap d.items = {}
    <2>1. PICK t : c.items = about(t) /\ c = Rules!Cluster(<<"topic", t>>, about(t))
      BY <1>4
    <2>2. PICK u : d.items = about(u) /\ d = Rules!Cluster(<<"topic", u>>, about(u))
      BY <1>4
    <2>3. CASE t = u
      BY <2>1, <2>2, <2>3
    <2>4. CASE t # u
      BY <2>1, <2>2, <2>4
    <2> QED
      BY <2>3, <2>4
  <1>7. ASSUME NEW c \in byFile PROVE c.items \subseteq in /\ Named(items, c) /\ c.items \cap rest = {}
    BY <1>2 DEF ByFile, Named
  <1> DEFINE clusters == byFile \cup byTopic
  <1>8. Apart(clusters)
    <2>1. ASSUME NEW c \in clusters, NEW d \in clusters PROVE c = d \/ c.items \cap d.items = {}
      <3>1. CASE c \in byFile /\ d \in byFile
        BY <1>2, <3>1 DEF ByFile, Apart
      <3>2. CASE c \in byTopic /\ d \in byTopic
        BY <1>6, <3>2
      <3>3. CASE c \in byFile /\ d \in byTopic
        <4> HIDE DEF rest
        <4> QED
          BY <1>5, <1>7, <3>3
      <3>4. CASE c \in byTopic /\ d \in byFile
        <4> HIDE DEF rest
        <4> QED
          BY <1>5, <1>7, <3>4
      <3> QED
        BY <2>1, <3>1, <3>2, <3>3, <3>4
    <2> QED
      BY <2>1 DEF Apart
  <1>9. rest \subseteq in
    OBVIOUS
  <1>10. \A c \in clusters : c.items \subseteq in /\ Named(items, c)
    <2> HIDE DEF rest, in
    <2> QED
      BY <1>5, <1>7, <1>9
  <1> HIDE DEF clusters
  <1>11. TierIs(items, in, [clusters |-> clusters, unclustered |-> in \ UNION {c.items : c \in clusters}])
    BY <1>8, <1>10 DEF TierIs
  <1> QED
    BY <1>1, <1>11 DEF clusters

\* An item taken from its tier leaves the rest as they are.
LEMMA RemovedIs ==
    ASSUME NEW items, NEW tiers, NEW gone, NEW t \in Rules!Tiers, NEW in, TierIs(items, in, tiers[t])
    PROVE  TierIs(items, in \ gone, Rules!removeItemsFromTiers(tiers, gone)[t])
  <1> DEFINE old == tiers[t].clusters
             cut(c) == Rules!Cluster(c.by, c.items \ gone)
             new == {c \in {cut(c) : c \in old} : c.items # {}}
             left == Rules!removeItemsFromTiers(tiers, gone)[t]
  <1>1. left.clusters = new /\ left.unclustered = tiers[t].unclustered \ gone
    BY DEF Rules!removeItemsFromTiers
  <1>2. ASSUME NEW c \in new PROVE \E d \in old : c = cut(d) /\ c.by = d.by /\ c.items = d.items \ gone
    BY DEF Rules!Cluster
  <1>3. ASSUME NEW d \in old, d.items \ gone # {}
        PROVE  cut(d) \in new /\ cut(d).items = d.items \ gone
    BY <1>3 DEF Rules!Cluster
  <1> HIDE DEF new
  <1>4. Apart(new)
    <2>1. ASSUME NEW c \in new, NEW d \in new PROVE c = d \/ c.items \cap d.items = {}
      <3>1. PICK x \in old : c = cut(x) /\ c.items = x.items \ gone
        BY <1>2
      <3>2. PICK y \in old : d = cut(y) /\ d.items = y.items \ gone
        BY <1>2
      <3>3. x = y \/ x.items \cap y.items = {}
        BY DEF TierIs, Apart
      <3> HIDE DEF cut
      <3> QED
        BY <3>1, <3>2, <3>3
    <2> QED
      BY <2>1 DEF Apart
  <1>5. ASSUME NEW c \in new PROVE c.items \subseteq in \ gone /\ Named(items, c)
    <2>1. PICK x \in old : c.by = x.by /\ c.items = x.items \ gone
      BY <1>2
    <2>2. x.items \subseteq in /\ Named(items, x)
      BY DEF TierIs
    <2> QED
      BY <2>1, <2>2 DEF Named
  <1>6. UNION {c.items : c \in new} = (UNION {c.items : c \in old}) \ gone
    <2>1. ASSUME NEW c \in new PROVE c.items \subseteq (UNION {d.items : d \in old}) \ gone
      BY <1>2
    <2>2. ASSUME NEW d \in old PROVE d.items \ gone \subseteq UNION {c.items : c \in new}
      <3>1. CASE d.items \ gone = {}
        BY <3>1
      <3>2. CASE d.items \ gone # {}
        <4> HIDE DEF cut, old
        <4> QED
          BY <1>3, <3>2
      <3> QED
        BY <3>1, <3>2
    <2> HIDE DEF old
    <2> QED
      BY <2>1, <2>2
  <1>7. left.unclustered = (in \ gone) \ UNION {c.items : c \in new}
    BY <1>1, <1>6 DEF TierIs
  <1> QED
    BY <1>1, <1>4, <1>5, <1>7 DEF TierIs

\* Every item of the list is in one place.
LEMMA OnceHolds ==
    ASSUME NEW gh, Rules!Open(gh), NEW slings
    PROVE  Rules!EveryItemOnce(gh, slings)
  <1> DEFINE envelope == Rules!composeEnvelope(gh)
             items == envelope.items
             served == Served(gh, slings)
             away == served.slung_section
             in(t) == {n \in DOMAIN items : items[n].tier = t}
  <1>1. DOMAIN items = DOMAIN gh
    BY DEF Rules!composeEnvelope
  <1>2. served.tiers = Rules!removeItemsFromTiers(envelope.tiers, away)
    <2> HIDE DEF envelope
    <2> QED
      BY DEF Served, Rules!applySlungOverlay, envelope
  <1>3. \A t \in Rules!Tiers : envelope.tiers[t] = Rules!composeTier(items, t)
    BY DEF Rules!composeEnvelope
  <1>4. ASSUME NEW t PROVE IsFiniteSet(UNION {items[n].files : n \in in(t)})
    <2>1. \A n \in DOMAIN gh : items[n].files \subseteq gh[n].files
      <3>1. \A n \in DOMAIN gh : gh[n].kind \in {"issue", "pr"}
        BY DEF Rules!Open
      <3> QED
        BY <3>1, ItemIs
    <2>2. IsFiniteSet(UNION {gh[n].files : n \in DOMAIN gh})
      BY RulesSameSets DEF Rules!Open
    <2> HIDE DEF items
    <2>3. UNION {items[n].files : n \in in(t)} \subseteq UNION {gh[n].files : n \in DOMAIN gh}
      BY <1>1, <2>1
    <2> QED
      BY <2>2, <2>3, FS_Subset
  <1>5. ASSUME NEW t \in Rules!Tiers PROVE TierIs(items, in(t) \ away, served.tiers[t])
    <2>1. TierIs(items, in(t), envelope.tiers[t])
      <3> HIDE DEF envelope
      <3> QED
        BY <1>3, <1>4, ComposedIs
    <2> QED
      BY <1>2, <2>1, RemovedIs
  <1>6. \A n \in DOMAIN gh : items[n].tier \in Rules!Tiers /\ items[n].topic = gh[n].topic
    BY ItemIs DEF Rules!classifyTier, Rules!Tiers
  <1>7. \A n \in DOMAIN gh : served.items[n].files = items[n].files
    BY ServedIs
  <1>8. \A n \in DOMAIN gh : n \in away <=> slings[n] # None /\ served.items[n].assessment = None
    BY ServedIs
  <1> HIDE DEF envelope, served
  <1>9. \A t \in Rules!Tiers : \A c \in served.tiers[t].clusters : \A n \in c.items :
           \/ c.by = <<"topic", gh[n].topic>>
           \/ c.by[1] = "file" /\ c.by[2] \in served.items[n].files
    <2>1. ASSUME NEW t \in Rules!Tiers, NEW c \in served.tiers[t].clusters, NEW n \in c.items
          PROVE  c.by = <<"topic", gh[n].topic>> \/ (c.by[1] = "file" /\ c.by[2] \in served.items[n].files)
      <3>1. n \in DOMAIN gh /\ Named(items, c)
        BY <1>1, <1>5, <2>1 DEF TierIs
      <3> QED
        BY <1>6, <1>7, <3>1 DEF Named
    <2> QED
      BY <2>1
  <1>10. ASSUME NEW n \in DOMAIN gh PROVE Rules!Cardinality(Rules!Places(served, n)) = 1
    <2> DEFINE alone == {<<t, "alone">> : t \in {u \in Rules!Tiers : n \in served.tiers[u].unclustered}}
               here(t) == {d \in served.tiers[t].clusters : n \in d.items}
               together == UNION {{<<t, c.by>> : c \in here(t)} : t \in Rules!Tiers}
    <2>1. Rules!Places(served, n) = (IF n \in away THEN {"slung"} ELSE {}) \cup alone \cup together
      BY DEF Rules!Places
    <2>2. PICK u \in Rules!Tiers : u = items[n].tier
      BY <1>6
    <2>3. ASSUME NEW t \in Rules!Tiers, n \in away \/ t # u
          PROVE  n \notin served.tiers[t].unclustered /\ here(t) = {}
      BY <1>5, <2>2, <2>3 DEF TierIs
    <2>3a. \A x : Rules!Cardinality({x}) = 1
      BY FS_Singleton, RulesSameSets
    <2>4. CASE n \in away
      <3>1. alone = {} /\ together = {}
        BY <2>3, <2>4
      <3>2. Rules!Places(served, n) = {"slung"}
        <4> HIDE DEF alone, together, away
        <4> QED
          BY <2>1, <2>4, <3>1
      <3> QED
        BY <2>3a, <3>2
    <2>5. CASE n \notin away
      <3>1. n \in in(u) \ away
        BY <1>1, <2>2, <2>5
      <3>2. CASE here(u) = {}
        <4>1. n \in served.tiers[u].unclustered
          BY <1>5, <3>1, <3>2 DEF TierIs
        <4>2. alone = {<<u, "alone">>} /\ together = {}
          BY <2>3, <3>2, <4>1
        <4> QED
          BY <2>1, <2>3a, <2>5, <4>2
      <3>3. CASE here(u) # {}
        <4>1. PICK c \in here(u) : TRUE
          BY <3>3
        <4>2. n \notin served.tiers[u].unclustered
          BY <1>5, <4>1 DEF TierIs
        <4>3. here(u) = {c}
          BY <1>5, <4>1 DEF TierIs, Apart
        <4>4. alone = {}
          BY <2>3, <4>2
        <4>5. together = {<<u, c.by>>}
          <5>1. \A t \in Rules!Tiers : here(t) = IF t = u THEN {c} ELSE {}
            BY <2>3, <4>3
          <5> HIDE DEF here
          <5> QED
            BY <5>1
        <4> QED
          BY <2>1, <2>3a, <2>5, <4>4, <4>5
      <3> QED
        BY <3>2, <3>3
    <2> QED
      BY <2>4, <2>5
  <1> QED
    BY <1>8, <1>9, <1>10 DEF Rules!EveryItemOnce, Served, served

\* Any list that GitHub may give is sorted: every item in one place, whatever it
\* shares with others, and the mark on what comes next (triage.ts,
\* serve-overlay.ts).
THEOREM AnyListIsSorted ==
    ASSUME NEW gh, Rules!Open(gh), NEW slings
    PROVE  Rules!EveryItemOnce(gh, slings) /\ Rules!MarkIsNext(gh, slings)
  BY OnceHolds, MarkHolds
-----------------------------------------------------------------------------
\* The subject of a behaviour stays, and its steps are steps of its component.
LEMMA OneSubject ==
    ASSUME [ServerNext]_All
    PROVE  /\ subject' = subject
           /\ [Next]_vars
           /\ subject = "client" => [Client!Next]_(Client!vars)
           /\ subject = "triage" => [Triage!Next]_(Triage!vars)
           /\ subject = "slings" => [Slings!Next]_(Slings!vars)
           /\ subject = "diff" => [Diff!Next]_(Diff!vars)
           /\ subject = "store" => [Store!Next]_(Store!vars)
           /\ subject = "rules" => UNCHANGED v1
  <1> USE DEF Sampling, Spare1, Spare4, Spare8, Spare13
  <1>1. CASE UNCHANGED All
    BY <1>1 DEF All, Client!vars, Triage!vars, Triage!jobs, Triage!files, Triage!pages, Slings!vars,
      Slings!jobs, Slings!files, Slings!pages, Diff!vars, Store!vars
  <1>2. CASE ClientNext
    BY <1>2 DEF ClientNext, ClientStep
  <1>3. CASE SamplersNext
    BY <1>3 DEF SamplersNext, SamplersStep
  <1>4. CASE TriageNext
    BY <1>4 DEF TriageNext, TriageStep
  <1>5. CASE SlingsNext
    BY <1>5 DEF SlingsNext, SlingsStep, Slings!Next
  <1>6. CASE DiffNext
    BY <1>6 DEF DiffNext, DiffStep
  <1>7. CASE StoreNext
    BY <1>7 DEF StoreNext, StoreStep
  <1> QED
    BY <1>1, <1>2, <1>3, <1>4, <1>5, <1>6, <1>7 DEF ServerNext

\* The invariant of the component that is the subject.
SubjectIInv ==
    /\ IInv
    /\ subject = "client" => Client!IInv
    /\ subject = "triage" => Triage!FullIInv
    /\ subject = "slings" => Slings!FullIInv
    /\ subject = "diff" => Diff!IInv
    /\ subject = "store" => Store!IInv
    /\ subject = "rules" => v1 \in Inputs

\* It holds of every behaviour of the bench.
LEMMA ServerInvariant == ServerSpec => []SubjectIInv
  <1> USE InstancesAreAllowed
  <1>1. ASSUME ServerInit PROVE SubjectIInv
    BY <1>1, InitIInv, Client!InitIInv, Triage!InitFullIInv, Slings!InitFullIInv, DiffInitIInv, StoreInitIInv
    DEF ServerInit, SubjectIInv
  <1>2. ASSUME SubjectIInv, [ServerNext]_All PROVE SubjectIInv'
    <2>1. IInv'
      BY <1>2, OneSubject, NextIInv DEF SubjectIInv
    <2>2. subject = "client" => Client!IInv'
      BY <1>2, OneSubject, Client!NextIInv DEF SubjectIInv
    <2>3. subject = "triage" => Triage!FullIInv'
      BY <1>2, OneSubject, Triage!NextFullIInv DEF SubjectIInv
    <2>4. subject = "slings" => Slings!FullIInv'
      BY <1>2, OneSubject, Slings!NextFullIInv DEF SubjectIInv
    <2>5. subject = "diff" => Diff!IInv'
      BY <1>2, OneSubject, DiffNextIInv DEF SubjectIInv
    <2>6. subject = "store" => Store!IInv'
      BY <1>2, OneSubject, StoreNextIInv DEF SubjectIInv
    <2> QED
      BY <1>2, <2>1, <2>2, <2>3, <2>4, <2>5, <2>6, OneSubject DEF SubjectIInv
  <1> QED
    BY <1>1, <1>2, PTL DEF ServerSpec
-----------------------------------------------------------------------------
\* Every subject keeps the types its module states.
THEOREM ServerTypes == ServerSpec => []TypesOK
  <1>1. SubjectIInv => TypesOK
    <2>1. Triage!FullIInv => Triage!TypeOK
      BY InstancesAreAllowed, Triage!TypeIs DEF Triage!FullIInv
    <2>2. Slings!FullIInv => Slings!TypeOK
      BY InstancesAreAllowed, Slings!TypeIs DEF Slings!FullIInv
    <2> QED
      BY <2>1, <2>2 DEF SubjectIInv, TypesOK, IInv, Client!IInv, Diff!IInv, Store!IInv
  <1> QED
    BY <1>1, ServerInvariant, PTL

\* Callers share a read without sharing its end (gc-client.ts).
THEOREM ReadsShared == ServerSpec => []ReadsAreShared
  <1>1. SubjectIInv => ReadsAreShared
    <2> SUFFICES ASSUME Client!IInv
                 PROVE  Client!AbortIsPrivate /\ Client!JoinableIsLive /\ Client!DuplicatesWereAbandoned
      BY DEF SubjectIInv, ReadsAreShared
    <2> QED
      BY DEF Client!IInv, Client!KeptIsJoinable, Client!DuplicatesWereAbandoned
  <1> QED
    BY <1>1, ServerInvariant, PTL

\* No process finds a half-written cache (storage.ts, persistAtomic).
THEOREM CacheWhole == ServerSpec => []CacheIsWhole
  <1>1. SubjectIInv => CacheIsWhole
    BY DEF SubjectIInv, CacheIsWhole, Triage!FullIInv, Triage!IInv
  <1> QED
    BY <1>1, ServerInvariant, PTL

\* No sling is lost, however slings and purges interleave (slung-state.ts).
THEOREM SlingsKept == ServerSpec => NoSlingIsLost
  <1>1. ASSUME SubjectIInv, [ServerNext]_All
        PROVE  [subject = "slings" => Slings!KeepsSlings]_All
    BY <1>1, OneSubject, InstancesAreAllowed, Slings!NextFullIInv DEF SubjectIInv, Slings!KeepsSlings
  <1> QED
    BY <1>1, ServerInvariant, PTL DEF ServerSpec, NoSlingIsLost

\* A page that lost no event and has nothing under way shows what it would be
\* served (Maintainer.tsx, events.ts).
THEOREM ShownCurrent == ServerSpec => []ShownIsCurrent
  <1>1. SubjectIInv => ShownIsCurrent
    BY DEF SubjectIInv, ShownIsCurrent, Triage!FullIInv, Triage!CurrentIInv
  <1> QED
    BY <1>1, ServerInvariant, PTL

\* The diff of a run and the colour of a store say what there was (diff.ts,
\* rig-store-health.ts).
THEOREM ReportsHonest == ServerSpec => []ReportsAreHonest
  <1>1. SubjectIInv => ReportsAreHonest
    BY DEF SubjectIInv, ReportsAreHonest, Diff!IInv, Store!IInv
  <1> QED
    BY <1>1, ServerInvariant, PTL

\* The page of the maintainer is sorted, whatever was listed, vetted or slung
\* since (triage.ts, serve-overlay.ts).
THEOREM TriageSorted == ServerSpec => []TriageIsSorted
  <1>1. ASSUME SubjectIInv PROVE TriageIsSorted
    <2>1. subject = "rules" => Rules!Open(v1.gh)
      BY <1>1, InstancesAreAllowed DEF SubjectIInv
    <2> QED
      BY <2>1, AnyListIsSorted DEF TriageIsSorted
  <1> QED
    BY <1>1, ServerInvariant, PTL
=============================================================================
