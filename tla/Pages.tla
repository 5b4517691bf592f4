-------------------------------- MODULE Pages ---------------------------------
(*****************************************************************************)
(* The pages of the browser in one bench: the run summary                    *)
(* (RunSummary), the mail table and its thread (MailMarks, MailThread),      *)
(* whose eyes the tab reads with (ViewingAs), a session's tail               *)
(* (SessionTail), the hooks that read details (DetailReads), the forms       *)
(* that sling (SlingForms), the attention board (Attention), the lanes of    *)
(* a run (RunLanes), the page of one run (RunPage), the aquarium (Reef), and *)
(* one state per input for the pure rules (AttentionRules, RunGraph,         *)
(* RunDetail, Links).  They do not interact: a behaviour is one of one of    *)
(* them.                                                                     *)
(*****************************************************************************)
EXTENDS RunSummary, Sequences

CONSTANTS
  Messages, Inbox, MailBoxes, Selectable,                \* of MailMarks and MailThread
  Aliases, Fallback, Real, Wire, Mayor, ListRetries,     \* of ViewingAs
  Sessions, Subs, MaxTurns,                              \* of SessionTail
  DetailKeys, Complete, MaxReads,                        \* of DetailReads
  Slingable, Width, MaxTries,                            \* of SlingForms
  Board, StaleAfter, Slowest, TopLimit,                  \* of Attention
  ReefBeads, Rigs, Workers, RigOf, P0, Needs, RenderCap, Window, MaxChanges, MaxLost,  \* of Reef
  Stages, Tokens, StepTries, Looped, Grace, LatchAfter, MaxTime,  \* of RunLanes
  PageRuns, Diffs, Moves, Addresses, Opening, MaxRunWorld, MaxOps,  \* of RunPage
  Line,                                                  \* of RunGraph
  Inputs        \* the inputs each of the rules is tried on


VARIABLES
  subject,   \* whose behaviour this is
  v1, v2, v3, v4, v5, v6, v7, v8, v9, v10, v11, v12, v13, v14, v15, v16, v17,
  v18, v19
  \* the places its variables are kept in

Summarizing == vars
All == <<Summarizing, subject, v1, v2, v3, v4, v5, v6, v7, v8, v9, v10, v11, v12, v13,
  v14, v15, v16, v17, v18, v19>>

Marks == INSTANCE MailMarks WITH
  Keys <- MailBoxes, key <- v1, pending <- v2, latest <- v3, load <- v4,
  data <- v5, error <- v6, cache <- v7, truth <- v8, selected <- v9, bulk <-
  v10, flying <- v11, strayed <- v12

Thread == INSTANCE MailThread WITH
  read <- v1, link <- v2, linked <- v3, open <- v4, thread <- v5, asks <- v6,
  action <- v7, crossed <- v8

Viewing == INSTANCE ViewingAs WITH
  Retries <- ListRetries, operator <- v1, alias <- v2, stored <- v3, started <- v4, sessions <- v5,
  attempt <- v6, mail <- v7, loading <- v8, unavailable <- v9, picked <- v10,
  asked <- v11

Turns == INSTANCE SessionTail WITH
  said <- v1, prop <- v2, current <- v3, sub <- v4, state <- v5

Details == INSTANCE DetailReads WITH
  Keys <- DetailKeys, hook <- v1, focus <- v2, reads <- v3, made <- v4, shown
  <- v5, says <- v6, returned <- v7

Forms == INSTANCE SlingForms WITH
  Items <- Slingable, listed <- v1, selection <- v2, batch <- v3, recorded <- v4, slings <- v5,
  excused <- v6, form <- v7, formError <- v8, beads <- v9, slung <- v10, told
  <- v11

Attending == INSTANCE Attention WITH
  facts <- v1, age <- v2, up <- v3, mounting <- v4, polling <- v5, out <- v6,
  hidden <- v7, runs <- v8, stream <- v9

Lanes == INSTANCE RunLanes WITH
  Attempts <- StepTries,
  bead <- v1, now <- v2, written <- v3, registered <- v4, feed <- v5, listed
  <- v6, sessions <- v7, mark <- v8

Water == INSTANCE Reef WITH
  Beads <- ReefBeads, Sessions <- Workers, bead <- v1, up <- v2, rigs <- v3,
  read <- v4, cache <- v5, memory <- v6,
  snapshot <- v7, changes <- v8, moved <- v9, rekeyed <- v10, left <- v11

Page == INSTANCE RunPage WITH
  Keys <- PageRuns, Linked <- Addresses, First <- Opening, MaxWorld <-
  MaxRunWorld, key <- v1, pending <- v2, latest <-
  v3, load <- v4, data <- v5, error <- v6, cache <- v7, truth <- v8, dkey <-
  v9, dpending <- v10, dlatest <- v11, dload <- v12, ddata <- v13, derror <-
  v14, dcache <- v15, sel <- v16, owed <- v17, heard <- v18, ops <- v19

Graph == INSTANCE RunGraph
Linked == INSTANCE Links
Run == INSTANCE RunDetail

\* The subjects that are pure rules: they have a state for each input.
Rules == {"beads", "items", "graph", "links", "convoy", "target", "detail", "folders", "nodes"}

\* The places a subject has no variable for, and that nothing is in them.
Spare1 == <<v2, v3, v4, v5, v6, v7, v8, v9, v10, v11, v12, v13, v14, v15, v16, v17, v18, v19>>
Spare5 == <<v6, v7, v8, v9, v10, v11, v12, v13, v14, v15, v16, v17, v18, v19>>
Spare7 == <<v8, v9, v10, v11, v12, v13, v14, v15, v16, v17, v18, v19>>
Spare8 == <<v9, v10, v11, v12, v13, v14, v15, v16, v17, v18, v19>>
Spare9 == <<v10, v11, v12, v13, v14, v15, v16, v17, v18, v19>>
Spare11 == <<v12, v13, v14, v15, v16, v17, v18, v19>>
Spare12 == <<v13, v14, v15, v16, v17, v18, v19>>
Empty12 == v13 = "-" /\ v14 = "-" /\ v15 = "-" /\ v16 = "-" /\ v17 = "-"
  /\ v18 = "-" /\ v19 = "-"
Empty11 == v12 = "-" /\ Empty12
Empty9 == v10 = "-" /\ v11 = "-" /\ Empty11
Empty8 == v9 = "-" /\ Empty9
Empty7 == v8 = "-" /\ Empty8
Empty5 == v6 = "-" /\ v7 = "-" /\ Empty7
Empty1 == v2 = "-" /\ v3 = "-" /\ v4 = "-" /\ v5 = "-" /\ Empty5
Empty == v1 = "-" /\ Empty1

PagesInit ==
  /\ Init
  /\ \/ subject = "summary" /\ Empty
     \/ subject \in {"marks", "boxes"} /\ Marks!Init /\ Empty12
     \/ subject = "thread" /\ Thread!Init /\ Empty8
     \/ subject = "viewing" /\ Viewing!Init /\ Empty11
     \/ subject = "tail" /\ Turns!Init /\ Empty5
     \/ subject = "details" /\ Details!Init /\ Empty7
     \/ subject \in {"bulk", "form"} /\ Forms!Init /\ Empty11
     \/ subject = "board" /\ Attending!Init /\ Empty9
     \/ subject = "lanes" /\ Lanes!Init /\ Empty8
     \/ subject = "reef" /\ Water!Init /\ Empty11
     \/ subject = "page" /\ Page!Init
     \/ subject \in Rules /\ v1 \in Inputs[subject] /\ Empty1

\* A step of the subject leaves the other places alone.
SummaryStep(step) == subject = "summary" /\ step /\ UNCHANGED <<subject, v1, Spare1>>
MarksStep(step) == subject \in {"marks", "boxes"} /\ step /\ UNCHANGED <<subject, Summarizing, Spare12>>
ThreadStep(step) == subject = "thread" /\ step /\ UNCHANGED <<subject, Summarizing, Spare8>>
ViewingStep(step) == subject = "viewing" /\ step /\ UNCHANGED <<subject, Summarizing, Spare11>>
TurnsStep(step) == subject = "tail" /\ step /\ UNCHANGED <<subject, Summarizing, Spare5>>
DetailsStep(step) == subject = "details" /\ step /\ UNCHANGED <<subject, Summarizing, Spare7>>
BulkStep(step) == subject = "bulk" /\ step /\ UNCHANGED <<subject, Summarizing, Spare11>>
FormStep(step) == subject = "form" /\ step /\ UNCHANGED <<subject, Summarizing, Spare11>>
BoardStep(step) == subject = "board" /\ step /\ UNCHANGED <<subject, Summarizing, Spare9>>
LanesStep(step) == subject = "lanes" /\ step /\ UNCHANGED <<subject, Summarizing, Spare8>>
WaterStep(step) == subject = "reef" /\ step /\ UNCHANGED <<subject, Summarizing, Spare11>>
PageStep(step) == subject = "page" /\ step /\ UNCHANGED <<subject, Summarizing>>

SummaryNext == SummaryStep(Next)
MarksNext == MarksStep(Marks!Next)
ThreadNext == ThreadStep(Thread!Next)
ViewingNext == ViewingStep(Viewing!Next)
TurnsNext == TurnsStep(Turns!Next)
DetailsNext == DetailsStep(Details!Next)
BulkNext == BulkStep(Forms!BulkNext)
FormNext == FormStep(Forms!FormNext)
BoardNext == BoardStep(Attending!Next)
LanesNext == LanesStep(Lanes!Next)
WaterNext == WaterStep(Water!Next)
PageNext == PageStep(Page!Next)
PagesNext == SummaryNext \/ MarksNext \/ ThreadNext \/ ViewingNext \/
  TurnsNext \/ DetailsNext \/ BulkNext \/ FormNext \/ BoardNext \/ LanesNext
  \/ WaterNext \/ PageNext

\* What the inputs of the rules are to be.
InputsAreAllowed ==
  /\ None \notin {"attention", "watch"}
  /\ \A w \in Inputs["beads"] : Attending!Kept(w)
  /\ \A c \in Inputs["items"] : Attending!Gathered(c.facts, c.moved)
  /\ \A run \in Inputs["graph"] : Graph!Poured(run)
  /\ \A c \in Inputs["links"] : Linked!Told(c.city, c.page, c.sessions)
  /\ \A c \in Inputs["convoy"] : Linked!Read(c.city, c.page, c.walked, c.root)
  /\ \A c \in Inputs["target"] : DOMAIN c.sessions \subseteq Nat /\ None \notin DOMAIN c.sessions
  /\ \A c \in Inputs["detail"] : Run!Answered(c)
  /\ \A c \in Inputs["folders"] : Run!Recorded(c.root)
  /\ \A c \in Inputs["nodes"] : /\ c.visible \in DOMAIN c.instances
                                /\ c.instances \in Seq({c.instances[i] : i \in DOMAIN c.instances})

\* The assumptions each module makes of its constants.
ASSUME InstancesAreAllowed ==
  /\ Assumptions /\ Marks!Assumptions /\ Thread!Assumptions
  /\ Viewing!Assumptions /\ Turns!Assumptions /\ Details!Assumptions
  /\ Forms!Assumptions /\ Attending!Assumptions /\ Lanes!Assumptions
  /\ Water!Assumptions /\ Page!Assumptions /\ InputsAreAllowed

PagesSpec == PagesInit /\ [][PagesNext]_All

-----------------------------------------------------------------------------
\* Each subject keeps the types its module states.
TypesOK ==
  /\ TypeOK
  /\ subject \in {"marks", "boxes"} => Marks!TypeOK
  /\ subject = "thread" => Thread!TypeOK
  /\ subject = "viewing" => Viewing!TypeOK
  /\ subject = "tail" => Turns!TypeOK
  /\ subject = "details" => Details!TypeOK
  /\ subject \in {"bulk", "form"} => Forms!TypeOK
  /\ subject = "board" => Attending!TypeOK
  /\ subject = "lanes" => Lanes!TypeOK
  /\ subject = "reef" => Water!TypeOK
  /\ subject = "page" => Page!TypeOK

\* A page never takes back what it gave: the runs page is not blanked and its
\* refreshes keep their floor; an item is slung a second time only after it
\* was reported as failed or chosen again; and when a send ends each item of
\* it was slung or is selected; and a fish leaves the aquarium only when it was
\* missing for the whole window (see RunSummary, SlingForms and Reef).
NothingIsUndone ==
  [][/\ subject = "summary" => Keeps /\ KeepsFloor
     /\ subject = "bulk" => Forms!SlingsOnce /\ Forms!DropsNothing
     /\ subject = "reef" => Water!FishStay]_All

\* An answer is shown under the question it answers, however the operator
\* moves on while it is outstanding: the thread under its message, the turns
\* under their session, the detail under the focus, the table under its key; and on
\* the page of one run the detail and the node are those of the run, the diff
\* is that of the folder the detail names, and none is older than the last
\* event it was refreshed for (see MailMarks, MailThread, SessionTail,
\* DetailReads and RunPage).
AnswersBelong ==
  /\ subject = "thread" => Thread!ThreadBelongs
  /\ subject = "tail" => Turns!TailIsTheSessions
  /\ subject = "details" => Details!OfTheFocus
  /\ subject \in {"marks", "boxes"} => Marks!ShownUnderItsKey
  /\ subject = "page" => Page!RunPageIsTrue

\* A write of the operator is not lost from sight: a message marked read does
\* not come back as unread, and a bead that was created and never slung was
\* reported (see MailMarks and SlingForms).
WritesAreSeen ==
  /\ subject \in {"marks", "boxes"} => Marks!MarksAreShown
  /\ subject = "form" => Forms!OrphansAreTold

\* The tab reads as the one the operator chose, says so, and offers every
\* identity in one tier (see ViewingAs).
EyesAreChosen ==
  subject = "viewing" =>
    Viewing!NeverAnotherUnasked /\ Viewing!FootnoteIsHonest /\ Viewing!TiersAreAPartition

\* A calm board is one that was read, "all live" does not outlast a read that
\* hangs, each need is asked once, and what the short list leaves out is
\* counted (see Attention and AttentionRules).
NothingUrgentIsHidden ==
  /\ subject = "board" => Attending!CalmWasRead /\ Attending!AllLiveIsCurrent
  /\ subject = "beads" => Attending!EachNeedIsAskedOnce(v1)
  /\ subject = "items" => Attending!NothingUrgentIsHidden(v1.facts, v1.moved)

\* The lane of a run says what its beads say: a failed step shows, the phase
\* was reached, a stranded run is an orphan, and thrashing is one step that
\* climbs (see RunLanes).  The graph of a run puts each verdict, and what is
\* running, on the node and the pass it belongs to (see RunGraph).  Its detail
\* says why it has no formula and which read failed, works in the folder of
\* the run, and leads to the transcript of the session its bead names (see
\* RunDetail).
RunsAreHonest ==
  /\ subject = "lanes" =>
       /\ Lanes!FailureIsShown /\ Lanes!PhaseWasReached /\ Lanes!StrandedIsOrphan
       /\ Lanes!ThrashingIsOneStep /\ Lanes!ClimbersThrash
  /\ subject = "graph" => Graph!GraphIsHonest(v1)
  /\ subject = "detail" => Run!DetailIsHonest(v1)
  /\ subject = "folders" => Run!PathIsTheRuns(v1.root, <<v1.bead>>)
  /\ subject = "nodes" => Run!OpensOnATranscript(v1.instances, v1.visible)

\* Links lead to live beads and back, a convoy shown as whole is whole, and a
\* live session that carries a target is found (see Links).
LinksAreTrue ==
  /\ subject = "links" => Linked!LinksAreTrue(v1.city, v1.page, v1.sessions)
  /\ subject = "convoy" => Linked!ConvoyIsWhole(v1.city, v1.page, v1.walked, v1.root)
  /\ subject = "target" => Linked!TargetIsFound(v1.sessions, v1.target)

\* The aquarium shows as eaten what left, as moving what moved, calls an
\* inventory complete only when it is, and counts what it leaves out (see Reef).
ReefIsTrue == subject = "reef" => Water!ReefIsTrue
===============================================================================
