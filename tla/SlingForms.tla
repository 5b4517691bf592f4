------------------------------ MODULE SlingForms ------------------------------
(***************************************************************************)
(* The two controls of the browser that hand work to agents, each a chain  *)
(* of writes that may break between two of them: the bulk sling of the     *)
(* maintainer's page (views/modules/maintainer: Maintainer.tsx,            *)
(* maintainerSelection.ts; backend sling-dispatch.ts), one sling and one   *)
(* record per item in chunks, and the form for a new bead                  *)
(* (routes/Beads.tsx, supervisor/beadWrites.ts), one bead and one sling.   *)
(* A write that fails was refused, or was done and its answer lost.        *)
(***************************************************************************)
EXTENDS Naturals, FiniteSets

CONSTANTS Items,
          Width,       \* MAX_CONCURRENT_SLINGS
          MaxTries,    \* bound: slings of one item, submissions of one form
          None

\* A send: what was asked, what waits for its chunk, where each item of the
\* chunk stands, and the slings before it.
Batches == [asked : SUBSET Items, todo : SUBSET Items, failed : SUBSET Items, config : BOOLEAN,
            at : UNION {[chunk -> {"sling", "record"}] : chunk \in SUBSET Items},
            before : [Items -> 0 .. MaxTries]]

\* What the constants are to be; an instance for TLC assumes it.
Assumptions ==
  /\ IsFiniteSet(Items)
  /\ Width \in Nat \ {0}
  /\ MaxTries \in Nat
  /\ None \notin Batches

VARIABLES
  listed,     \* the items in the tiers of the envelope that the page holds
  selection,
  batch,      \* the send in flight, or None
  recorded,   \* the items in slung-state.json
  slings,     \* slings[i]: how often the supervisor has slung i
  excused,    \* history: items chosen, or reported as failed, since their last sling
  form,       \* "closed", "open", "create" or "sling"
  formError,  \* the form shows an error
  beads,      \* history: beads created by this form
  slung,      \* history: slings of them
  told        \* history: errors shown by it

bulk == <<listed, selection, batch, recorded, slings, excused>>
dialog == <<form, formError, beads, slung, told>>
vars == <<bulk, dialog>>

Sending == batch # None

(***************************************************************************)
(* The bulk sling.                                                         *)
(***************************************************************************)
(* The rows can be toggled while a batch is sent.                          *)
toggleSelection(i) ==
  /\ i \in listed
  /\ selection' = IF i \in selection THEN selection \ {i} ELSE selection \cup {i}
  /\ excused' = IF i \in selection THEN excused ELSE excused \cup {i}
  /\ UNCHANGED <<listed, batch, recorded, slings, dialog>>

(* The button is disabled while a batch is sent.                           *)
clearSelection ==
  /\ ~Sending
  /\ selection' = {}
  /\ UNCHANGED <<listed, batch, recorded, slings, excused, dialog>>

(* The page reads the envelope again: some items are closed, what is       *)
(* recorded has left its tiers until it is vetted, and the selection is    *)
(* not pruned.                                                             *)
Refresh ==
  /\ listed' \in SUBSET Items
  /\ UNCHANGED <<selection, batch, recorded, slings, excused, dialog>>

buildSlingRequests == [requests |-> selection \cap listed, skipped |-> selection \ listed]

handleSend ==
  /\ ~Sending /\ selection # {}
  /\ LET built == buildSlingRequests
     IN  IF built.requests = {}
         THEN selection' = {} /\ UNCHANGED batch
         ELSE /\ batch' = [asked |-> built.requests, todo |-> built.requests,
                           at |-> [i \in {} |-> None], failed |-> {}, config |-> FALSE, before |-> slings]
              /\ UNCHANGED selection
  /\ UNCHANGED <<listed, recorded, slings, excused, dialog>>

(* Its failure rejects the whole and touches no item.                      *)
loadMaintainerSlingDefaults ==
  /\ Sending /\ ~batch.config
  /\ batch' \in {None, [batch EXCEPT !.config = TRUE]}
  /\ UNCHANGED <<listed, selection, recorded, slings, excused, dialog>>

InFlight == DOMAIN batch.at
Chunks == {c \in SUBSET batch.todo :
             Cardinality(c) = IF Cardinality(batch.todo) < Width THEN Cardinality(batch.todo) ELSE Width}

NextChunk_Fault ==
  /\ Sending /\ batch.config /\ InFlight = {} /\ batch.todo # {}
  /\ \E c \in Chunks : batch' = [batch EXCEPT !.todo = @ \ (IF c = @ THEN c ELSE {}), !.at = [i \in c |-> "sling"]]
  /\ UNCHANGED <<listed, selection, recorded, slings, excused, dialog>>

(* The next chunk, once every item of the last has settled.                *)
NextChunk ==
  /\ Sending /\ batch.config /\ InFlight = {} /\ batch.todo # {}
  /\ \E c \in Chunks : batch' = [batch EXCEPT !.todo = @ \ c, !.at = [i \in c |-> "sling"]]
  /\ UNCHANGED <<listed, selection, recorded, slings, excused, dialog>>

Doing(i, stage) == Sending /\ i \in InFlight /\ batch.at[i] = stage
Without(i) == [j \in InFlight \ {i} |-> batch.at[j]]
Settled(i) == batch' = [batch EXCEPT !.at = Without(i)]
Failed_Fault(i) == Settled(i)

Failed(i) == batch' = [batch EXCEPT !.at = Without(i), !.failed = @ \cup {i}]
Sling(i) == slings' = [slings EXCEPT ![i] = @ + 1] /\ excused' = excused \ {i}

SlingAnswers(i) ==
  /\ Doing(i, "sling") /\ slings[i] < MaxTries
  /\ Sling(i)
  /\ batch' = [batch EXCEPT !.at[i] = "record"]
  /\ UNCHANGED <<listed, selection, recorded, dialog>>

SlingFails(i) ==
  /\ Doing(i, "sling")
  /\ (slings[i] < MaxTries /\ Sling(i)) \/ UNCHANGED <<slings, excused>>
  /\ Failed(i)
  /\ UNCHANGED <<listed, selection, recorded, dialog>>

(* A record that the service could not write is answered all the same.     *)
recordMaintainerSling(i) ==
  /\ Doing(i, "record")
  /\ recorded' \in {recorded, recorded \cup {i}}
  /\ Settled(i)
  /\ UNCHANGED <<listed, selection, slings, excused, dialog>>

RecordFails(i) ==
  /\ Doing(i, "record")
  /\ recorded' \in {recorded, recorded \cup {i}}
  /\ Failed(i)
  /\ UNCHANGED <<listed, selection, slings, excused, dialog>>

(* The failed subset stays selected, whatever was toggled meanwhile.       *)
SendSettles ==
  /\ Sending /\ batch.config /\ InFlight = {} /\ batch.todo = {}
  /\ selection' = batch.failed
  /\ excused' = excused \cup batch.failed
  /\ batch' = None
  /\ UNCHANGED <<listed, recorded, slings, dialog>>

(***************************************************************************)
(* The form.                                                               *)
(***************************************************************************)
openCreateBead ==
  /\ form = "closed"
  /\ form' = "open" /\ formError' = FALSE
  /\ beads' = 0 /\ slung' = 0 /\ told' = 0
  /\ UNCHANGED bulk

(* Disabled, as every way to close the form is, while it is sent.          *)
Cancel ==
  /\ form = "open"
  /\ form' = "closed"
  /\ UNCHANGED <<bulk, formError, beads, slung, told>>

createAndSling ==
  /\ form = "open" /\ told < MaxTries
  /\ form' = "create" /\ formError' = FALSE
  /\ UNCHANGED <<bulk, beads, slung, told>>

BeadCreated_Fault ==
  /\ form = "create"
  /\ beads' = beads + 1 /\ form' = "closed"
  /\ UNCHANGED <<bulk, formError, slung, told>>

BeadCreated ==
  /\ form = "create"
  /\ beads' = beads + 1 /\ form' = "sling"
  /\ UNCHANGED <<bulk, formError, slung, told>>

BeadSlung ==
  /\ form = "sling"
  /\ slung' = slung + 1 /\ form' = "closed"
  /\ UNCHANGED <<bulk, formError, beads, told>>

WriteFails ==
  /\ form \in {"create", "sling"}
  /\ form' = "open" /\ formError' = TRUE /\ told' = told + 1
  /\ beads' \in IF form = "create" THEN {beads, beads + 1} ELSE {beads}
  /\ slung' \in IF form = "sling" THEN {slung, slung + 1} ELSE {slung}
  /\ UNCHANGED bulk

Init ==
  /\ listed = Items /\ selection = {} /\ batch = None
  /\ recorded = {} /\ slings = [i \in Items |-> 0] /\ excused = {}
  /\ form = "closed" /\ formError = FALSE /\ beads = 0 /\ slung = 0 /\ told = 0

BulkNext ==
  \/ \E i \in Items :
       \/ toggleSelection(i)
       \/ SlingAnswers(i) \/ SlingFails(i) \/ recordMaintainerSling(i) \/ RecordFails(i)
  \/ clearSelection \/ Refresh \/ handleSend \/ loadMaintainerSlingDefaults \/ NextChunk \/ SendSettles
FormNext == openCreateBead \/ Cancel \/ createAndSling \/ BeadCreated \/ BeadSlung \/ WriteFails
Next == BulkNext \/ FormNext

Spec == Init /\ [][Next]_vars

(***************************************************************************)
(* Properties.                                                             *)
(***************************************************************************)
TypeOK ==
  /\ {listed, selection, recorded, excused} \subseteq SUBSET Items
  /\ slings \in [Items -> 0 .. MaxTries]
  /\ batch \in Batches \cup {None}
  /\ Sending => /\ InFlight \cup batch.todo \cup batch.failed \subseteq batch.asked
                /\ Cardinality(InFlight) <= Width
  /\ form \in {"closed", "open", "create", "sling"} /\ formError \in BOOLEAN
  /\ {beads, slung, told} \subseteq Nat

(* An item is slung a second time only after it was reported as failed, or *)
(* chosen again: not for a chunk that is sent twice, nor because items     *)
(* were toggled while the batch was on its way, nor by a refresh.          *)
SlingsOnce == \A i \in Items : slings'[i] > slings[i] /\ slings[i] > 0 => i \in excused

(* Nothing that was sent is dropped in silence: when the send ends, each   *)
(* item of it has been slung by it or is selected, in whichever chunk it   *)
(* was and whatever failed before it, unless the whole was refused.        *)
DropsNothing ==
  Sending /\ batch.config /\ ~Sending'
    => \A i \in batch.asked : slings[i] > batch.before[i] \/ i \in selection'

(* A bead that was created and never slung was reported by the form, which *)
(* shows an error whenever it is open again after a submission: there is   *)
(* one error for every bead beyond those that were slung.                  *)
OrphansAreTold ==
  /\ beads <= told + 1
  /\ form = "closed" => beads <= slung + told
  /\ form = "open" /\ beads > 0 => formError

(* What every step keeps.  Each item of a send waits for its chunk, is in  *)
(* flight, has failed or was slung; none waits and is in flight.           *)
BatchIsWhole ==
  Sending =>
    /\ batch.todo \cap InFlight = {}
    /\ ~batch.config => InFlight = {}
    /\ \A i \in batch.asked :
         i \in batch.todo \cup InFlight \cup batch.failed \/ slings[i] > batch.before[i]
    /\ \A i \in InFlight : batch.at[i] = "record" => slings[i] > batch.before[i]
    /\ \A i \in Items : slings[i] >= batch.before[i]

(* What a send slings, or the next send would sling, was chosen.           *)
SlungBefore == {i \in Items : slings[i] > 0}
SlingIsExcused ==
  /\ ~Sending \/ ~batch.config => selection \cap SlungBefore \subseteq excused
  /\ Sending =>
       /\ batch.todo \cap SlungBefore \subseteq excused
       /\ \A i \in InFlight \cap SlungBefore : batch.at[i] = "sling" => i \in excused

(* A bead beyond those that were told of is on its way to be slung.        *)
OrphansOnTheWay ==
  form \in {"open", "create"} => beads <= told

IInv == TypeOK /\ BatchIsWhole /\ SlingIsExcused /\ OrphansAreTold /\ OrphansOnTheWay
=============================================================================
