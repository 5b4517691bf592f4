------------------------------- MODULE MCServer -------------------------------
(*****************************************************************************)
(* The backend's subjects that must keep what they are told, on small        *)
(* instances for TLC: the coalesced reads (GcClient), the background         *)
(* samplers (StatusSamplers), the maintainer's module with its page          *)
(* (MaintainerTriage), the same with two items and no page, its rules        *)
(* (MaintainerRules, one state per list of issues), the diff of a run        *)
(* (RunDiff) and the probe of a rig's store (RigStores).  They do not        *)
(* interact: a behaviour is one of one of them.                              *)
(*****************************************************************************)
EXTENDS StatusSamplers, TLC

CONSTANTS
  Callers, Aborting, Operations, Fetches,                      \* of GcClient
  Items, Pair, Pages, TmpNames, MaxOps, Missing, Torn, Unread, \* of MaintainerTriage
  Files, Control, Rank, Bytes, Budget, FileCap, MaxFiles, ListCap,  \* of RunDiff
  MaxMoves, None,                                              \* of RunDiff and RigStores
  Inputs,                                                      \* of MaintainerRules
  g1, g2, g3, g4

\* Lists of at most four items, of which number 1 is an issue.
Item == [kind |-> "pr", draft |-> FALSE, review |-> "needs_review", labels |-> {"bug", "p0"},
         severity |-> None, simplicity |-> None, lines |-> 10, files |-> {}, closes |-> {},
         topic |-> None]
Vetted(item, s) ==
  [item EXCEPT !.labels = @ \cup {"vetted"}, !.severity = s, !.simplicity = "low"]
Issues ==
  {[Item EXCEPT !.kind = "issue", !.labels = labels, !.topic = topic] :
     labels \in {{"bug", "p0"}, {"bug"}, {"p1", "stale"}}, topic \in {None, "t"}}
Reviewed ==
  {Item, [Item EXCEPT !.draft = TRUE], [Item EXCEPT !.review = "changes_requested"],
   [Item EXCEPT !.labels = {"bug"}], Vetted(Item, 0), Vetted(Item, 3)}
PullRequests ==
  {[pr EXCEPT !.files = files, !.closes = closes, !.topic = topic] :
     pr \in Reviewed, files \in {{}, {1}, {1, 2}}, closes \in {{}, {1}}, topic \in {None, "t"}}
Others == {[pr EXCEPT !.files = files, !.topic = "t"] : pr \in Reviewed, files \in {{1}, {2}}}
RuleCases ==
  {[gh |-> <<issue, p, q>> \o rest, slings |-> slung @@ [n \in 1 .. 4 |-> None]] :
     issue \in Issues, p \in PullRequests, q \in Others,
     rest \in {<< >>, <<[Item EXCEPT !.files = {2}, !.lines = 300]>>},
     slung \in {[n \in {} |-> None], 1 :> 5, 2 :> 5}}

FourFiles == {g1, g2, g3, g4}
LastFile == {g4}
InOrder == g1 :> 1 @@ g2 :> 2 @@ g3 :> 3 @@ g4 :> 4
Lengths == [files \in SUBSET FourFiles |-> Cardinality(files) + (IF g2 \in files THEN 1 ELSE 0)]

Symmetry == Permutations(Reads)

VARIABLES
  subject,   \* whose behaviour this is
  v1, v2, v3, v4, v5, v6, v7, v8, v9, v10, v11, v12, v13, v14, v15, v16, v17
  \* the places its variables are kept in

Sampling == vars
All == <<Sampling, subject, v1, v2, v3, v4, v5, v6, v7, v8, v9, v10, v11, v12, v13,
  v14, v15, v16, v17>>

\* A module of theorems is instantiated in place of the one it extends, so that
\* what is proved of a component can be cited of the bench.
Client == INSTANCE GcClientProofs WITH
  inflight <- v1, fetch <- v2, caller <- v3, abandoned <- v4

Triage == INSTANCE MaintainerTriageProofs WITH
  vetted <- v1, stage <- v2, fetched
  <- v3, cacheQ <- v4, tmp <- v5, tmpOf <- v6, cacheFile <- v7, slungFile <-
  v8, slungQ <- v9, misread <- v10, open <- v11, event <- v12, get <- v13,
  half <- v14, shown <- v15, failed <- v16, missed <- v17

Slings == INSTANCE MaintainerTriageProofs WITH
  Items <- Pair, vetted <- v1, stage <- v2, fetched
  <- v3, cacheQ <- v4, tmp <- v5, tmpOf <- v6, cacheFile <- v7, slungFile <-
  v8, slungQ <- v9, misread <- v10, open <- v11, event <- v12, get <- v13,
  half <- v14, shown <- v15, failed <- v16, missed <- v17

Diff == INSTANCE RunDiff WITH
  tree <- v1, status <- v2, untracked <- v3,
  comparison <- v4, tracked <- v5, names <- v6, queue <- v7, parts <- v8,
  remaining <- v9, truncated <- v10, response <- v11, moves <- v12, quiet <-
  v13

Store == INSTANCE RigStores WITH
  machine <- v1, step <- v2, port <- v3, checks
  <- v4, note <- v5, report <- v6, seen <- v7, moves <- v8

Rules == INSTANCE MaintainerRules

\* The places a subject has no variable for.
Spare1 == <<v2, v3, v4, v5, v6, v7, v8, v9, v10, v11, v12, v13, v14, v15, v16,
  v17>>
Spare4 == <<v5, v6, v7, v8, v9, v10, v11, v12, v13, v14, v15, v16, v17>>
Spare8 == <<v9, v10, v11, v12, v13, v14, v15, v16, v17>>
Spare13 == <<v14, v15, v16, v17>>
Empty1 == v2 = "-" /\ v3 = "-" /\ v4 = "-" /\ v5 = "-" /\ v6 = "-" /\ v7 = "-"
  /\ v8 = "-" /\ v9 = "-" /\ v10 = "-" /\ v11 = "-" /\ v12 = "-" /\ v13 = "-"
  /\ v14 = "-" /\ v15 = "-" /\ v16 = "-" /\ v17 = "-"
Empty == v1 = "-" /\ Empty1
Empty4 == v5 = "-" /\ v6 = "-" /\ v7 = "-" /\ v8 = "-" /\ v9 = "-" /\ v10 =
  "-" /\ v11 = "-" /\ v12 = "-" /\ v13 = "-" /\ v14 = "-" /\ v15 = "-" /\ v16
  = "-" /\ v17 = "-"
Empty8 == v9 = "-" /\ v10 = "-" /\ v11 = "-" /\ v12 = "-" /\ v13 = "-" /\ v14
  = "-" /\ v15 = "-" /\ v16 = "-" /\ v17 = "-"
Empty13 == v14 = "-" /\ v15 = "-" /\ v16 = "-" /\ v17 = "-"

ServerInit ==
  /\ Init
  /\ \/ subject = "samplers" /\ Empty
     \/ subject = "client" /\ Client!Init /\ Empty4
     \/ subject = "triage" /\ Triage!Init
     \/ subject = "slings" /\ Slings!Init
     \/ subject = "diff" /\ Diff!Init /\ Empty13
     \/ subject = "store" /\ Store!Init /\ Empty8
     \/ subject = "rules" /\ v1 \in Inputs /\ Empty1

\* A step of the subject leaves the other places alone.
ClientStep(step) == subject = "client" /\ step /\ UNCHANGED <<subject, Sampling, Spare4>>
SamplersStep(step) == subject = "samplers" /\ step /\ UNCHANGED <<subject, v1, Spare1>>
TriageStep(step) == subject = "triage" /\ step /\ UNCHANGED <<subject, Sampling>>
SlingsStep(step) == subject = "slings" /\ step /\ UNCHANGED <<subject, Sampling>>
DiffStep(step) == subject = "diff" /\ step /\ UNCHANGED <<subject, Sampling, Spare13>>
StoreStep(step) == subject = "store" /\ step /\ UNCHANGED <<subject, Sampling, Spare8>>

ClientNext == ClientStep(Client!Next)
SamplersNext == SamplersStep(Next)
TriageNext == TriageStep(Triage!Next)
SlingsNext == SlingsStep(Slings!NextJobs)
DiffNext == DiffStep(Diff!Next)
StoreNext == StoreStep(Store!Next)
ServerNext == ClientNext \/ SamplersNext \/ TriageNext \/ SlingsNext \/ DiffNext \/
  StoreNext

\* The assumptions each module makes of its constants.
ASSUME InstancesAreAllowed ==
  Assumptions /\ Client!Assumptions /\ Triage!Assumptions /\ Slings!Assumptions
  /\ Diff!Assumptions /\ Store!Assumptions
  /\ \A c \in Inputs : Rules!Open(c.gh)

ServerSpec == ServerInit /\ [][ServerNext]_All
-----------------------------------------------------------------------------
\* Each subject keeps the types its module states.
TypesOK ==
  /\ subject = "client" => Client!TypeOK
  /\ TypeOK
  /\ subject = "triage" => Triage!TypeOK
  /\ subject = "slings" => Slings!TypeOK
  /\ subject = "diff" => Diff!TypeOK
  /\ subject = "store" => Store!TypeOK

\* Callers of the supervisor share a read without sharing its end: the read
\* they may join is running, for their operation, and still awaited by its
\* starter; a caller with no signal of its own is never aborted by the signal
\* of another; and a second read of an operation runs only beside one that its
\* starter abandoned (gc-client.ts:129-133).
ReadsAreShared ==
  subject = "client" =>
    Client!AbortIsPrivate /\ Client!JoinableIsLive /\ Client!DuplicatesWereAbandoned

\* No process, not even the one started after a crash, finds a half-written
\* cache, although two writers may pick the same temporary name.
CacheIsWhole == subject = "triage" => Triage!CacheIsWhole

\* A page of the maintainer that lost no event and has nothing under way shows
\* what the server would serve it.
ShownIsCurrent == subject = "triage" => Triage!ShownIsCurrent

\* Concurrent slings and purges lose no sling: an entry leaves the file only
\* for an item that was vetted upstream, unless a read error hid the file
\* from a writer.
NoSlingIsLost == [][subject = "slings" => Slings!KeepsSlings]_All

\* The served page has every item in one place and its one mark on the next
\* thing to do, whatever the items share, whatever was vetted, and whatever
\* was slung since the envelope was cached.
TriageIsSorted ==
  subject = "rules" =>
    Rules!EveryItemOnce(v1.gh, v1.slings) /\ Rules!MarkIsNext(v1.gh, v1.slings)

\* What is reported of a tree or a store was so: the diff of a run against the
\* tree it was read from, a green store against the machine (see RunDiff and
\* RigStores).
ReportsAreHonest ==
  /\ subject = "diff" => Diff!DiffIsHonest
  /\ subject = "store" => Store!GreenWasGood
===============================================================================
