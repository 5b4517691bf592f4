------------------------------ MODULE RunLanes ------------------------------
(***************************************************************************)
(* One run and the lane the board draws of it                              *)
(* (shared/src/runs: phaseMapping, summary, status, liveness, health).     *)
(*                                                                         *)
(* The run is a graph of step beads that is poured at once, worked by      *)
(* sessions in any order, and retried; the supervisor registers it or,     *)
(* after a crash, never does.  The lane is derived from the beads as they  *)
(* are read, the feed of the supervisor as it was last read, and what the  *)
(* refresh before left behind.                                             *)
(***************************************************************************)
EXTENDS Naturals, Sequences, FiniteSets, FiniteSetsExt

CONSTANTS Stages,        \* stagesForFormula: a sequence of sets of steps
          Tokens,        \* Tokens[s]: the stage words in the id of step s
          Attempts,      \* Attempts[s], a bound: the attempts of step s
          Looped,        \* steps repeated by a loop: each pass has the step id of the first
          Grace,         \* STRANDED_DISPATCH_GRACE_MS
          LatchAfter,    \* STALE_LATCH_AFTER_MS
          MaxTime,       \* bound: the clock
          None

Filed == [status : {"open", "in_progress", "closed", "blocked"},
          outcome : {"pass", "fail", "skipped", None}, at : 0 .. MaxTime]

\* What the constants are to be; an instance for TLC assumes it.
Assumptions ==
  /\ Stages \in Seq(SUBSET DOMAIN Tokens)
  /\ Attempts \in [DOMAIN Tokens -> Nat \ {0}]
  /\ Grace \in Nat /\ LatchAfter \in Nat /\ MaxTime \in Nat
  /\ None \notin DOMAIN Tokens /\ None \notin Filed

Steps == DOMAIN Tokens
Beads == UNION {{s} \X (1 .. Attempts[s]) : s \in Steps}

VARIABLES
  bead,         \* bead[s][a]: attempt a of step s, or None
  now,          \* the clock
  written,      \* when a bead of the run was last written
  registered,   \* the supervisor's registry has the run
  feed,         \* feedObservationByCity, the last complete feed read: [has, at], or None
  listed,       \* the feed read of the last load lists the run (feedRootIds)
  sessions,     \* the session list of the last load: unread, none for the run, or a worker
  mark          \* the progress mark of the last refresh, or None

vars == <<bead, now, written, registered, feed, listed, sessions, mark>>

(***************************************************************************)
(* Beads and their statuses (runs/status.ts).  A closed bead has an        *)
(* outcome; one whose status is itself `failed` reads as closed and failed. *)
(***************************************************************************)
Poured == {b \in Beads : bead[b[1]][b[2]] # None}
At(b) == bead[b[1]][b[2]]

isInFlightStatus(b) == At(b).status = "in_progress"
isOpenStatus(b) == At(b).status = "open"
isBlockedStatus(b) == At(b).status = "blocked"
isResolvedStatus(b) == At(b).status = "closed"
isFailedStep(b) == At(b).outcome = "fail"
isSkippedStep(b) == At(b).outcome = "skipped"
isSucceededStep(b) == At(b).status = "closed" /\ ~isFailedStep(b) /\ ~isSkippedStep(b)
hasAdvanced(b) == isInFlightStatus(b) \/ isResolvedStatus(b)

(***************************************************************************)
(* The phase.                                                              *)
(***************************************************************************)
Lifecycle == <<"active", "intake", "implementation", "review", "approval", "finalization">>
stageRank(phase) == CHOOSE i \in DOMAIN Lifecycle : Lifecycle[i] = phase

(* A lead-up word (pre-approval, wait-for-merge) disowns the two last      *)
(* phases.                                                                 *)
stepIdPhase(s) ==
  CASE {"approval", "leadup"} \cap Tokens[s] = {"approval"} -> "approval"
    [] {"finalization", "leadup"} \cap Tokens[s] = {"finalization"}
         /\ {"approval", "leadup"} \cap Tokens[s] # {"approval"} -> "finalization"
    [] OTHER ->
         IF "review" \in Tokens[s] THEN "review"
         ELSE IF "implementation" \in Tokens[s] THEN "implementation"
         ELSE IF "intake" \in Tokens[s] THEN "intake" ELSE "active"

(* byMostRecentThenStage; steps of one phase are told apart by their names. *)
MoreCurrent(b, c) ==
  \/ At(b).at > At(c).at
  \/ At(b).at = At(c).at /\ stageRank(stepIdPhase(b[1])) > stageRank(stepIdPhase(c[1]))
latestStepId(beads) ==
  IF beads = {} THEN None
  ELSE (CHOOSE b \in beads : \A c \in beads : ~MoreCurrent(c, b))[1]
furthestStageStepId(beads) ==
  IF beads = {} THEN None
  ELSE (CHOOSE b \in beads : \A c \in beads :
          stageRank(stepIdPhase(c[1])) <= stageRank(stepIdPhase(b[1])))[1]

Flying == {b \in Poured : isInFlightStatus(b)}
activeStepId == latestStepId(Flying)

structuredPhase ==
  IF Flying = {} /\ \A b \in Poured : isOpenStatus(b) THEN "intake"
  ELSE LET current == IF Flying # {} THEN activeStepId
                      ELSE furthestStageStepId({b \in Poured : hasAdvanced(b)})
       IN  IF current = None THEN "active" ELSE stepIdPhase(current)

mapRunPhase ==
  IF \E b \in Poured : isBlockedStatus(b) THEN "blocked"
  ELSE IF \A b \in Poured : isResolvedStatus(b) THEN "complete"
  ELSE structuredPhase

(***************************************************************************)
(* The ladder of a known formula.                                          *)
(***************************************************************************)
latestAttempt(s) ==
  {b \in Poured : b[1] = s /\ \A c \in Poured : c[1] = s => c[2] <= b[2]}
Deciding(i) == UNION {latestAttempt(s) : s \in Stages[i]}

Succeeded(i) == /\ \E b \in Deciding(i) : isSucceededStep(b)
                /\ \A b \in Deciding(i) : isSucceededStep(b) \/ isSkippedStep(b)
StageFailed(i) == \E b \in Deciding(i) : isFailedStep(b)
Advanced(i) == \E b \in Deciding(i) : isSucceededStep(b) \/ isFailedStep(b) \/ isInFlightStatus(b)
Bypassed(i) == \A b \in Deciding(i) : isSkippedStep(b)

stageComplete(i) ==
  \/ Succeeded(i)
  \/ Bypassed(i) /\ (mapRunPhase = "complete" \/ \E j \in DOMAIN Stages : j > i /\ Advanced(j))

InFlightStages == {i \in DOMAIN Stages : activeStepId \in Stages[i]}
Beyond == Len(Stages) + 1
currentIndex ==
  IF InFlightStages # {} THEN Min(InFlightStages)
  ELSE Min({Beyond} \cup {i \in DOMAIN Stages : ~stageComplete(i)})

formulaStageProgress ==
  [i \in DOMAIN Stages |->
     IF i < currentIndex THEN "complete"
     ELSE IF i > currentIndex THEN "pending"
     ELSE IF InFlightStages = {} /\ StageFailed(i) THEN "blocked" ELSE "active"]

isStrandedRun_Fault == feed # None /\ ~feed.has /\ ~listed /\ \A b \in Poured : isOpenStatus(b)

(***************************************************************************)
(* The registry, the partition and the health marks.                       *)
(***************************************************************************)
isStrandedRun ==
  /\ feed # None /\ ~feed.has /\ ~listed
  /\ \A b \in Poured : isOpenStatus(b)
  /\ feed.at >= written + Grace

isStaleSessionlessLatch ==
  /\ mapRunPhase \notin {"complete", "blocked"}
  /\ sessions = "none" /\ activeStepId = None
  /\ now >= written + LatchAfter

(* buildRunSummary, then the demotion of enrichRunSummary.                 *)
section ==
  CASE mapRunPhase = "complete" -> "history"
    [] mapRunPhase = "blocked" /\ ~isStrandedRun -> "blocked"
    [] OTHER -> IF isStaleSessionlessLatch THEN "demoted"
                ELSE IF isStrandedRun THEN "stranded" ELSE "active"

(* A retry is poured under a step id of its own (apply-fixes.attempt.2); the *)
(* attempt is the highest among the beads of the step, whatever their id.  *)
rawStepId(s, a) == IF s \in Looped THEN <<s, 0>> ELSE <<s, a>>
runStepAttempt(s) == Max({b[2] : b \in {c \in Poured : c[1] = s}})

runProgress ==
  IF activeStepId = None \/ InFlightStages = {} THEN None
  ELSE LET latest == CHOOSE b \in Flying : \A c \in Flying : ~MoreCurrent(c, b)
       IN  [stepId |-> rawStepId(latest[1], latest[2]), step |-> latest[1],
            attempt |-> runStepAttempt(latest[1])]

Comparable == mark # None /\ mark.progress # None /\ runProgress # None
Climbs_Fault == TRUE

Climbs == runProgress.attempt > mark.progress.attempt

(* `climbs` is a history: the refreshes in a row that saw the attempts of  *)
(* the active step climb, by the step and not by the step id.              *)
advanceProgressMarks ==
  [progress |-> runProgress,
   streak |-> IF Comparable /\ mark.progress.stepId = runProgress.stepId /\ Climbs
              THEN mark.streak + 1 ELSE 0,
   climbs |-> IF Comparable /\ mark.progress.step = runProgress.step /\ Climbs
              THEN mark.climbs + 1 ELSE 0]

thrashingDetected == mark # None /\ mark.streak >= 2

(***************************************************************************)
(* The run.                                                                *)
(***************************************************************************)
(* The time of a write is compared only among the steps in flight.         *)
Write(b, status, outcome) ==
  /\ bead' = [bead EXCEPT ![b[1]][b[2]] =
               [status |-> status, outcome |-> outcome,
                at |-> IF status = "in_progress" THEN now ELSE 0]]
  /\ written' = now

Work(b) ==
  /\ b \in Poured /\ registered
  /\ \/ isOpenStatus(b) /\ Write(b, "in_progress", None)
     \/ isOpenStatus(b) /\ Write(b, "closed", "skipped")
     \/ isOpenStatus(b) /\ Write(b, "blocked", None)
     \/ isInFlightStatus(b) /\ Write(b, "closed", "pass")
     \/ isInFlightStatus(b) /\ Write(b, "closed", "fail")
     \/ isBlockedStatus(b) /\ Write(b, "open", None)
  /\ UNCHANGED <<now, registered, feed, listed, sessions, mark>>

Retry(b) ==
  /\ b \in Poured /\ b \in latestAttempt(b[1]) /\ isFailedStep(b)
  /\ b[2] < Attempts[b[1]]
  /\ Write(<<b[1], b[2] + 1>>, "open", None)
  /\ UNCHANGED <<now, registered, feed, listed, sessions, mark>>

Register ==
  /\ ~registered /\ registered' = TRUE
  /\ now < Grace
  /\ UNCHANGED <<bead, now, written, feed, listed, sessions, mark>>

Pass ==
  /\ now < MaxTime /\ now' = now + 1
  /\ UNCHANGED <<bead, written, registered, feed, listed, sessions, mark>>

(* A complete read of the feed replaces the observation; a run that has    *)
(* moved may have left its window.  The time is stamped when the beads     *)
(* have been read too, which is one step here: that read has 15 seconds,   *)
(* and the grace is ten minutes.                                           *)
FeedRead ==
  /\ \E has \in BOOLEAN :
       /\ has => registered
       /\ registered /\ ~has => \E b \in Poured : hasAdvanced(b)
       /\ feed' = [has |-> has, at |-> now] /\ listed' = has
  /\ UNCHANGED <<bead, now, written, registered, sessions, mark>>

(* A read that fails, is partial or has an item without its root leaves    *)
(* the observation alone and still proves the presence of what it lists.   *)
FeedFalters ==
  /\ listed' \in BOOLEAN /\ (listed' => registered)
  /\ UNCHANGED <<bead, now, written, registered, feed, sessions, mark>>

Refresh ==
  /\ mark' = advanceProgressMarks
  /\ sessions' \in {"unread", "none", "worker"}
  /\ UNCHANGED <<bead, now, written, registered, feed, listed>>

Init ==
  /\ bead = [s \in Steps |-> [a \in 1 .. Attempts[s] |->
               IF a = 1 THEN [status |-> "open", outcome |-> None, at |-> 0] ELSE None]]
  /\ now = 0 /\ written = 0 /\ registered = FALSE
  /\ feed = None /\ listed = FALSE /\ sessions = "unread" /\ mark = None

Next ==
  \/ \E b \in Beads : Work(b) \/ Retry(b)
  \/ Register \/ Pass \/ FeedRead \/ FeedFalters \/ Refresh

Spec == Init /\ [][Next]_vars

(***************************************************************************)
(* Properties.                                                             *)
(***************************************************************************)
TypeOK ==
  /\ DOMAIN bead = Steps
  /\ \A s \in Steps : /\ DOMAIN bead[s] = 1 .. Attempts[s]
                      /\ \A a \in 1 .. Attempts[s] : bead[s][a] \in Filed \cup {None}
  /\ registered \in BOOLEAN /\ listed \in BOOLEAN /\ sessions \in {"unread", "none", "worker"}
  /\ now \in 0 .. MaxTime /\ written \in 0 .. MaxTime
  /\ feed = None \/ feed \in [has : BOOLEAN, at : 0 .. MaxTime]
  /\ mark # None => mark.streak \in Nat /\ mark.climbs \in Nat

(* A failure is never swallowed into a green ladder: with nothing in       *)
(* flight the first stage that is not behind the run is the failed one or  *)
(* one before it, and a run with no work left shows where it failed, on a  *)
(* board that calls it complete.                                           *)
FailureIsShown ==
  \A i \in DOMAIN Stages : StageFailed(i) /\ Flying = {} =>
    /\ formulaStageProgress[i] # "complete"
    /\ mapRunPhase = "complete" => \E j \in 1 .. i : formulaStageProgress[j] = "blocked"

(* Shells of late steps are poured with the run: a phase is one some step  *)
(* has really reached.                                                     *)
PhaseWasReached ==
  mapRunPhase \in {"implementation", "review", "approval", "finalization"} =>
    \E b \in Poured : hasAdvanced(b) /\ stepIdPhase(b[1]) = mapRunPhase

(* Only an orphan is called one: a run that the supervisor registers       *)
(* within the grace of its last write is at no time shown as stranded,     *)
(* whatever feed read the board still holds.                               *)
StrandedIsOrphan == section = "stranded" => ~registered

(* Thrashing is one step climbing its attempts on two refreshes in a row:  *)
(* two steps that alternate, or one step retried once, are not thrashing.  *)
ThrashingIsOneStep == thrashingDetected => \E b \in Poured : b[2] >= 3

(* As RunLaneHealth says of it: the attempt of the active step climbed     *)
(* while the position of the lane stayed flat, over the refreshes it takes *)
(* to detect.  Not so for a retried step, whose step id climbs with it.    *)
ClimbersThrash == mark # None /\ mark.climbs >= 2 => thrashingDetected

(***************************************************************************)
(* The inductive invariant.                                                *)
(***************************************************************************)
(* A feed read after the grace that misses a registered run is one the run *)
(* has moved out of: some bead of it had advanced, and none steps back.    *)
MissedHasMoved ==
  feed # None =>
    /\ feed.at <= now
    /\ registered /\ ~feed.has /\ feed.at >= Grace => \E b \in Poured : hasAdvanced(b)

(* A mark names a step by its id, and an attempt that was poured: one more  *)
(* than the refreshes it climbed over.                                     *)
MarkIsOfTheRun ==
  mark # None =>
    /\ mark.streak <= mark.climbs
    /\ mark.progress = None => mark.climbs = 0
    /\ mark.progress # None =>
         /\ mark.progress.stepId[1] = mark.progress.step
         /\ mark.progress.step \in Looped => mark.progress.stepId = <<mark.progress.step, 0>>
         /\ \E b \in Poured : b[2] = mark.progress.attempt /\ mark.streak < b[2]

(* Where only the steps of a loop are tried again, the id of a step is the *)
(* step.                                                                   *)
LoopedClimb ==
  mark # None /\ (\A s \in Steps : Attempts[s] > 1 => s \in Looped) => mark.climbs = mark.streak

IInv == TypeOK /\ MissedHasMoved /\ MarkIsOfTheRun /\ LoopedClimb
=============================================================================
