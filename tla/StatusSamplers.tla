--------------------------- MODULE StatusSamplers ---------------------------
(***************************************************************************)
(* The three background samplers of a city runtime and the status read     *)
(* they share: the dolt-noms trend ring, the supervisor-status snapshot    *)
(* and the rig-store-health probes (backend/src/routes/dolt.ts,            *)
(* supervisor-status.ts, rig-store-health.ts, city/runtime.ts).            *)
(*                                                                         *)
(* All three read /status through the city's GcClient, which coalesces the *)
(* reads in flight; they pass no signal, so nothing detaches a read before *)
(* it settles (module GcClient).  A status body is represented by its      *)
(* version, and versions only grow.                                        *)
(***************************************************************************)
EXTENDS Integers, Sequences, FiniteSets

CONSTANTS
    SlotCount,    \* capacity of the dolt-noms ring
    Reads,        \* identities of status reads
    MaxVersion,   \* bound on the versions of the status
    MaxSamples    \* bound on the samples in flight per sampler and read

NoRead == "none"

\* What the constants are to be; an instance for TLC assumes it.
Assumptions ==
  /\ NoRead \notin Reads
  /\ SlotCount \in Nat \ {0} /\ MaxVersion \in Nat \ {0} /\ MaxSamples \in Nat \ {0}

VARIABLES
    version,     \* what the supervisor would answer now
    inflight,    \* the read a new sample joins, or NoRead
    observed,    \* read -> the version its answer carries, 0 before it has one
    scheduled,   \* the samplers whose timerState is "scheduled"
    timers,      \* sampler -> interval timers alive
    awaiting,    \* sampler -> read -> samples awaiting it
    probing,     \* version -> rig samples whose probes still run
    ring,        \* dolt: the ring of sampled sizes
    dolt,        \* dolt: availability
    status,      \* supervisor status: last snapshot and availability
    rigs         \* rig health: last snapshot and availability

vars == <<version, inflight, observed, scheduled, timers, awaiting, probing,
          ring, dolt, status, rigs>>

Samplers == {"dolt", "status", "rigs"}
Versions == 1 .. MaxVersion
Unsampled == [available |-> FALSE, version |-> 0, reason |-> "not_sampled_yet"]

Init ==
    /\ version = 1
    /\ inflight = NoRead
    /\ observed = [x \in Reads |-> 0]
    /\ scheduled = {}
    /\ timers = [s \in Samplers |-> 0]
    /\ awaiting = [s \in Samplers |-> [x \in Reads |-> 0]]
    /\ probing = [v \in Versions |-> 0]
    /\ ring = <<>>
    /\ dolt = "store_health_absent"
    /\ status = Unsampled
    /\ rigs = Unsampled

Awaited(x) == \E s \in Samplers : awaiting[s][x] > 0

\* Definitions ending in _Fault are plausible bugs in the definition they
\* precede; each is what some property below must notice.
Joinable_Fault(x) == x \in Reads /\ ~Awaited(x)
Joinable(x) == IF inflight = NoRead THEN ~Awaited(x) ELSE x = inflight

\* sampleOnce awaits the status read in flight, or the one it begins.
Sample(s) ==
    \E x \in Reads :
        /\ Joinable(x)
        /\ awaiting[s][x] < MaxSamples
        /\ awaiting' = [awaiting EXCEPT ![s][x] = @ + 1]
        /\ inflight' = x

\* start(): a sample at once and then one per interval; idempotent.
AlreadyStarted_Fault(s) == s \notin Samplers
AlreadyStarted(s) == s \in scheduled

Start(s) ==
    /\ ~AlreadyStarted(s)
    /\ timers[s] < 2
    /\ scheduled' = scheduled \cup {s}
    /\ timers' = [timers EXCEPT ![s] = @ + 1]
    /\ Sample(s)
    /\ UNCHANGED <<version, observed, probing, ring, dolt, status, rigs>>

Interval(s) ==
    /\ timers[s] > 0
    /\ Sample(s)
    /\ UNCHANGED <<version, observed, scheduled, timers, probing, ring, dolt, status,
                   rigs>>

\* stop(): the interval is cleared; samples in flight still land.
Stop(s) ==
    /\ s \in scheduled
    /\ scheduled' = scheduled \ {s}
    /\ timers' = [timers EXCEPT ![s] = @ - 1]
    /\ UNCHANGED <<version, inflight, observed, awaiting, probing, ring, dolt,
                   status, rigs>>

\* The supervisor reads its state for the answer.
Observe(x) ==
    /\ Awaited(x)
    /\ observed[x] = 0
    /\ observed' = [observed EXCEPT ![x] = version]
    /\ UNCHANGED <<version, inflight, scheduled, timers, awaiting, probing, ring,
                   dolt, status, rigs>>

\* A settled read is forgotten by the client and lands every sample on it.
Landed(x) == [s \in Samplers |-> [awaiting[s] EXCEPT ![x] = 0]]

Settled(x) ==
    /\ Awaited(x)
    /\ awaiting' = Landed(x)
    /\ inflight' = IF inflight = x THEN NoRead ELSE inflight
    /\ observed' = [observed EXCEPT ![x] = 0]
    /\ UNCHANGED <<version, scheduled, timers>>

\* n samples of v are pushed: the ring keeps the last SlotCount.
Repeated(v, n) == [i \in 1 .. n |-> v]
Pushed_Fault(r, v, n) ==
    IF n = 0 \/ Len(r) + n <= SlotCount THEN r \o Repeated(v, n) ELSE [r EXCEPT ![1] = v]
Pushed(r, v, n) ==
    LET q == r \o Repeated(v, n)
        over == IF Len(q) > SlotCount THEN Len(q) - SlotCount ELSE 0
    IN  SubSeq(q, over + 1, Len(q))

\* The read succeeds: every dolt sample on it is pushed, if the body carries
\* a usable size; the status snapshot is taken; every rig sample goes on to
\* probe the stores the body lists.
ReadOk(x, sized) ==
    /\ observed[x] > 0
    /\ Settled(x)
    /\ dolt' = IF awaiting["dolt"][x] = 0 THEN dolt
               ELSE IF sized THEN "available" ELSE "store_health_absent"
    /\ ring' = IF sized THEN Pushed(ring, observed[x], awaiting["dolt"][x]) ELSE ring
    /\ status' = IF awaiting["status"][x] = 0 THEN status
                 ELSE [status EXCEPT !.available = TRUE, !.version = observed[x]]
    /\ probing' = [probing EXCEPT ![observed[x]] = @ + awaiting["rigs"][x]]
    /\ UNCHANGED rigs

\* The read fails or times out: every sampler that waited on it turns
\* unavailable and keeps the snapshot it had.
Degraded_Fault(r, why) == [Unsampled EXCEPT !.reason = why]
Degraded(r, why) == [r EXCEPT !.available = FALSE, !.reason = why]

ReadFails(x) ==
    /\ Settled(x)
    /\ dolt' = IF awaiting["dolt"][x] = 0 THEN dolt ELSE "sample_failed"
    /\ status' = IF awaiting["status"][x] = 0 THEN status
                 ELSE Degraded(status, "status_read_failed")
    /\ rigs' = IF awaiting["rigs"][x] = 0 THEN rigs
               ELSE Degraded(rigs, "rig_list_failed")
    /\ UNCHANGED <<probing, ring>>

\* All the probes of one rig sample have settled (safeProbe never rejects):
\* its snapshot replaces the last one, even one taken from a later read.
ProbesDone(v) ==
    /\ probing[v] > 0
    /\ probing' = [probing EXCEPT ![v] = @ - 1]
    /\ rigs' = [rigs EXCEPT !.available = TRUE, !.version = v]
    /\ UNCHANGED <<version, inflight, observed, scheduled, timers, awaiting, ring,
                   dolt, status>>

Supervisor ==
    /\ version < MaxVersion
    /\ version' = version + 1
    /\ UNCHANGED <<inflight, observed, scheduled, timers, awaiting, probing, ring,
                   dolt, status, rigs>>

Settle(x) == ReadFails(x) \/ \E sized \in BOOLEAN : ReadOk(x, sized)

Next ==
    \/ \E s \in Samplers : Start(s) \/ Interval(s) \/ Stop(s)
    \/ \E x \in Reads : Observe(x) \/ Settle(x)
    \/ \E v \in Versions : ProbesDone(v)
    \/ Supervisor

Spec == Init /\ [][Next]_vars

\* For TLC: the rig samples of one version that probe at once.
FewProbes == \A v \in Versions : probing[v] <= 1
-----------------------------------------------------------------------------
Reports == [available : BOOLEAN, version : 0 .. MaxVersion,
            reason : {"not_sampled_yet", "status_read_failed", "rig_list_failed"}]

\* Every variable stays in its domain, the ring within its capacity, and a
\* sampler has exactly one interval timer while it is scheduled and none
\* otherwise: no sequence of starts and stops leaves a second one firing.
TypeOK ==
    /\ version \in Versions
    /\ inflight \in Reads \cup {NoRead}
    /\ observed \in [Reads -> 0 .. MaxVersion]
    /\ scheduled \in SUBSET Samplers
    /\ timers \in [Samplers -> 0 .. 2]
    /\ awaiting \in [Samplers -> [Reads -> 0 .. MaxSamples]]
    /\ probing \in [Versions -> Nat]
    /\ ring \in Seq(Versions) /\ Len(ring) <= SlotCount
    /\ dolt \in {"available", "store_health_absent", "sample_failed"}
    /\ status \in Reports /\ rigs \in Reports
    /\ \A s \in Samplers : timers[s] = IF s \in scheduled THEN 1 ELSE 0

\* The trend is chronological: overlapping samples, which a slow supervisor
\* makes possible, never land out of order, because they share one read.
TrendIsChronological ==
    \A i, j \in 1 .. Len(ring) : i < j => ring[i] <= ring[j]

\* The status snapshot never goes back to an older one, and no failed read
\* erases it or the rig snapshot (supervisor-status.ts:65-66,
\* rig-store-health.ts:332-333).
Retains ==
    /\ status'.version >= status.version
    /\ rigs.version > 0 => rigs'.version > 0
SnapshotsAreRetained == [][Retains]_vars
=============================================================================
