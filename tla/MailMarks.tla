----------------------------- MODULE MailMarks -----------------------------
(***************************************************************************)
(* The table of the mail page (frontend/src/routes/Mail.tsx) on a cached   *)
(* panel, and the bulk marks of its selected rows: one write per row, a    *)
(* Promise.all over their answers, and the table read again.               *)
(*                                                                         *)
(* `truth' is the flag of every message at the supervisor; the key of the  *)
(* panel is the box and the identity read as.                              *)
(***************************************************************************)
EXTENDS CachedPanel

CONSTANTS Messages,
          Selectable    \* the keys whose rows can be selected: no sent box

Marks == {"unread", "read"}
Flags == [Messages -> Marks]

\* What the constants are to be; an instance for TLC assumes it.
Assumptions ==
  /\ PanelAssumptions
  /\ NoneIsApart(Flags)
  /\ Selectable \subseteq Keys
  /\ None \notin [key : Selectable, failed : BOOLEAN, waits : SUBSET (Messages \X Marks)]

VARIABLES
  selected,   \* the selected rows
  bulk,       \* the bulk mark in flight, or None
  flying,     \* marks sent and not yet settled
  strayed     \* history: a bulk was rejected early, or ended under another key

rows == <<selected, bulk, flying, strayed>>
vars == <<panelVars, rows>>

Rows == IF data = None THEN {} ELSE Messages
Targets(mark) == {m \in selected \cap Rows : data.seen[m] # mark}

Switch(k) == SwitchKey(k) /\ UNCHANGED rows

(* The effect of the panel, and the one that forgets the selection.        *)
Seed(l) ==
  /\ Effect(l)
  /\ selected' = {}
  /\ UNCHANGED <<bulk, flying, strayed>>

(* The refresh button, which is disabled while the panel loads.            *)
Press(l) ==
  /\ ~pending /\ ~Loading
  /\ Refresh(key, l)
  /\ UNCHANGED rows

ToggleSelect(m) ==
  /\ key \in Selectable
  /\ m \in Rows
  /\ selected' = IF m \in selected THEN selected \ {m} ELSE selected \cup {m}
  /\ UNCHANGED <<panelVars, bulk, flying, strayed>>

ToggleAll ==
  /\ key \in Selectable /\ Rows # {}
  /\ selected' = IF Rows \subseteq selected THEN {} ELSE Rows
  /\ UNCHANGED <<panelVars, bulk, flying, strayed>>

(* Only rows that the table shows in the other state are written.          *)
Bulk(mark) ==
  /\ key \in Selectable
  /\ bulk = None
  /\ Targets(mark) # {}
  /\ bulk' = [key |-> key, waits |-> Targets(mark) \X {mark}, failed |-> FALSE]
  /\ flying' = flying \cup (Targets(mark) \X {mark})
  /\ UNCHANGED <<panelVars, selected, strayed>>

Awaits(f) == bulk # None /\ f \in bulk.waits

MarkAnswers(f) ==
  /\ f \in flying
  /\ flying' = flying \ {f}
  /\ truth' = [truth EXCEPT ![f[1]] = f[2]]
  /\ bulk' = IF Awaits(f) THEN [bulk EXCEPT !.waits = @ \ {f}] ELSE bulk
  /\ UNCHANGED <<panel, cache, selected, strayed>>

(* The first rejection rejects the whole; the other marks go on.           *)
AfterRejection == [bulk EXCEPT !.waits = {}, !.failed = TRUE]

(* A mark is refused, or applied and its answer lost.                      *)
MarkFails(f) ==
  /\ f \in flying
  /\ flying' = flying \ {f}
  /\ truth' \in {truth, [truth EXCEPT ![f[1]] = f[2]]}
  /\ bulk' = IF Awaits(f) THEN AfterRejection ELSE bulk
  /\ strayed' = (strayed \/ (Awaits(f) /\ bulk.waits # {f}))
  /\ UNCHANGED <<panel, cache, selected>>

(* The selection is forgotten if all marks answered, and the table is read *)
(* again in either case, through the refresh of the render that began it.  *)
BulkSettles(l) ==
  /\ bulk # None /\ bulk.waits = {}
  /\ Refresh(bulk.key, l)
  /\ bulk' = None
  /\ selected' = IF bulk.failed THEN selected ELSE {}
  /\ strayed' = (strayed \/ bulk.key # key)
  /\ UNCHANGED flying

TableReads(l) == Sample(l) /\ UNCHANGED rows
TableSettles(l) == (Land(l) \/ Fail(l)) /\ UNCHANGED rows

Init ==
  /\ PanelInit([m \in Messages |-> "unread"])
  /\ flying = {} /\ selected = {} /\ bulk = None
  /\ strayed = FALSE

Next ==
  \/ \E k \in Keys : Switch(k)
  \/ \E l \in Loads : Seed(l) \/ Press(l) \/ TableReads(l) \/ TableSettles(l) \/ BulkSettles(l)
  \/ \E m \in Messages : ToggleSelect(m)
  \/ ToggleAll
  \/ \E mark \in Marks : Bulk(mark)
  \/ \E f \in flying : MarkAnswers(f) \/ MarkFails(f)

Spec == Init /\ [][Next]_vars

(* For TLC: nothing has strayed yet.                                       *)
Orderly == ~strayed

(***************************************************************************)
(* Properties.                                                             *)
(***************************************************************************)
TypeOK ==
  /\ PanelTypeOK(Flags) /\ CacheIsKeyed
  /\ selected \subseteq Messages
  /\ bulk = None \/ bulk \in [key : Selectable, failed : BOOLEAN,
                              waits : SUBSET (Messages \X Marks)]
  /\ flying \subseteq Messages \X Marks
  /\ strayed \in BOOLEAN

(* "Re-read so the table [...] reflect[s] server truth -- even when a      *)
(* subset of the writes failed": once nothing is in flight and the last    *)
(* read did not fail, the table shows the marks as the supervisor has them.*)
Quiet == ~pending /\ InFlight = {} /\ flying = {} /\ bulk = None
TableReflectsTruth == Quiet /\ ~error /\ data # None => data.seen = truth

(* The same, of every bulk that ran to its end before its table was read   *)
(* again and whose box was not left meanwhile.                             *)
MarksAreShown == ~strayed => TableReflectsTruth

(* What every step keeps, of a bulk that has not strayed: its marks are    *)
(* the ones that fly; the latest read is of the box on screen, or has      *)
(* settled or failed; and when no bulk is in flight it has not answered,   *)
(* or what it answered is still true.                                      *)
BulkIsWhole == ~strayed => flying = IF bulk = None THEN {} ELSE bulk.waits

LatestIsOfTheBox ==
  ~strayed /\ ~pending =>
    /\ latest # None => load[latest].key = key
    /\ latest = None => error \/ data # None

ReadAfterBulk ==
  ~strayed /\ ~pending /\ bulk = None =>
    /\ latest # None => load[latest].seen \in {None, truth}
    /\ latest = None /\ ~error => data # None /\ data.seen = truth

IInv ==
  /\ TypeOK /\ ShownUnderItsKey
  /\ BulkIsWhole /\ LatestIsOfTheBox /\ ReadAfterBulk
=============================================================================
