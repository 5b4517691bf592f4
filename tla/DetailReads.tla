----------------------------- MODULE DetailReads -----------------------------
(***************************************************************************)
(* The hooks that read one thing for a page or a modal                     *)
(* (frontend/src/hooks: useBeadDetail, useEntityLinks, useConvoyView,      *)
(* useConvoyRoots), each with its own rule for what a change of focus      *)
(* keeps on screen and for which answer is still wanted.                   *)
(*                                                                         *)
(* `hook' says which of the four is mounted; reads carry the order in      *)
(* which they were made.                                                   *)
(***************************************************************************)
EXTENDS Naturals, FiniteSets

CONSTANTS Keys,       \* beads or convoys that can be in focus
          Complete,   \* the beads a caller holds with their description
          MaxReads,   \* bound: the reads made in a behaviour
          None

\* What the constants are to be; an instance for TLC assumes it.
Assumptions ==
  /\ Complete \subseteq Keys
  /\ MaxReads \in Nat
  /\ None \notin Keys \cup [of : Keys, seq : 0 .. MaxReads]

VARIABLES
  hook,       \* "bead", "links", "convoy" or "roots"
  focus,      \* the key of the latest effect, or None
  reads,      \* outstanding reads: [of, mode, seq, wanted]
  made,       \* how many reads were made
  shown,      \* what the hook holds: [of, seq], or None
  says,       \* "idle", "loading", "ready", "refreshing", "not found" or "failed"
  returned    \* history: the focus left a convoy with a refresh due

vars == <<hook, focus, reads, made, shown, says, returned>>

Read(k, mode) == [of |-> k, mode |-> mode, seq |-> made, wanted |-> TRUE]
Cancelled(r) == IF r.mode = "initial" THEN [r EXCEPT !.wanted = FALSE] ELSE r
Asked(k, mode, rest) ==
  /\ made < MaxReads
  /\ made' = made + 1
  /\ reads' = rest \cup {Read(k, mode)}

(***************************************************************************)
(* The effect of a focus, and the clean-up of the one before it.           *)
(***************************************************************************)
Left == {Cancelled(r) : r \in reads}
RefreshDue(k) == \E r \in reads : r.mode = "refresh" /\ r.of # k
LeavesFocus(k) ==
  /\ k # focus
  /\ focus' = k
  /\ returned' = (returned \/ RefreshDue(k))
  /\ UNCHANGED hook

(* A bead held with its description is shown as it is held; the flag of an *)
(* earlier load is left as it was, and nothing shows it over a bead.       *)
FocusBead(k) ==
  /\ hook = "bead" /\ LeavesFocus(k)
  /\ IF k \in Complete
     THEN /\ shown' = [of |-> k, seq |-> made]
          /\ says' = "ready" /\ reads' = Left /\ UNCHANGED made
     ELSE /\ shown' = None /\ says' = "loading" /\ Asked(k, "initial", Left)

(* The links of the focus before stay until those of this one are known.   *)
FocusLinks(k) ==
  /\ hook = "links" /\ LeavesFocus(k)
  /\ says' = "loading"
  /\ UNCHANGED shown
  /\ Asked(k, "initial", Left)

FocusConvoy(k) ==
  /\ hook = "convoy" /\ LeavesFocus(k)
  /\ shown' = None /\ says' = "loading"
  /\ Asked(k, "initial", Left)

(* A modal that closes keeps what it held, for nobody to see.              *)
Unfocus ==
  /\ hook # "roots" /\ LeavesFocus(None)
  /\ reads' = Left
  /\ IF hook = "bead"
     THEN UNCHANGED <<shown, says>>
     ELSE shown' = None /\ says' = "idle"
  /\ UNCHANGED made

(* The roots have one focus, their page.                                   *)
FocusRoots(k) ==
  /\ hook = "roots" /\ focus = None /\ LeavesFocus(k)
  /\ shown' = None /\ says' = "loading"
  /\ Asked(k, "initial", Left)

(***************************************************************************)
(* The refresh control, which is disabled while the hook loads.            *)
(***************************************************************************)
Superseded(r) == IF r.mode = "refresh" THEN [r EXCEPT !.wanted = FALSE] ELSE r

Refresh ==
  /\ hook \in {"convoy", "roots"}
  /\ focus # None /\ says \notin {"loading", "refreshing"}
  /\ says' = IF says = "ready" THEN "refreshing" ELSE "loading"
  /\ shown' = IF says = "ready" THEN shown ELSE None
  /\ Asked(focus, "refresh", IF hook = "roots" THEN {Superseded(r) : r \in reads} ELSE reads)
  /\ UNCHANGED <<hook, focus, returned>>

isCurrent_Fault(r) == focus # None

(***************************************************************************)
(* Settlements.                                                            *)
(***************************************************************************)
isCurrent(r) ==
  IF hook = "convoy" /\ r.mode = "refresh" THEN r.of = focus ELSE r.wanted /\ focus # None

Lands(r) ==
  /\ reads' = reads \ {r}
  /\ IF isCurrent(r)
     THEN shown' = [of |-> r.of, seq |-> r.seq] /\ says' = "ready"
     ELSE UNCHANGED <<shown, says>>
  /\ UNCHANGED <<hook, focus, made, returned>>

Refusals == IF hook \in {"bead", "convoy"} THEN {"not found", "failed"} ELSE {"failed"}

Fails(r) ==
  /\ reads' = reads \ {r}
  /\ IF isCurrent(r)
     THEN says' \in Refusals /\ shown' = None
     ELSE UNCHANGED <<shown, says>>
  /\ UNCHANGED <<hook, focus, made, returned>>

Init ==
  /\ hook \in {"bead", "links", "convoy", "roots"}
  /\ focus = None /\ reads = {} /\ made = 0
  /\ shown = None /\ says = "idle"
  /\ returned = FALSE

Next ==
  \/ \E k \in Keys : FocusBead(k) \/ FocusLinks(k) \/ FocusConvoy(k) \/ FocusRoots(k)
  \/ Unfocus \/ Refresh
  \/ \E r \in reads : Lands(r) \/ Fails(r)

Spec == Init /\ [][Next]_vars

(***************************************************************************)
(* Properties.                                                             *)
(***************************************************************************)
TypeOK ==
  /\ hook \in {"bead", "links", "convoy", "roots"}
  /\ focus \in Keys \cup {None}
  /\ \A r \in reads : r \in [of : Keys, mode : {"initial", "refresh"},
                             seq : 0 .. MaxReads, wanted : BOOLEAN]
  /\ made \in 0 .. MaxReads
  /\ shown = None \/ shown \in [of : Keys, seq : 0 .. MaxReads]
  /\ says \in {"idle", "loading", "ready", "refreshing", "not found", "failed"}
  /\ returned \in BOOLEAN

(* What is shown as settled is about the focus, a spinner has a read that  *)
(* will end it, and no wanted answer is older than what is shown, unless a *)
(* convoy was left while its refresh was due: that one is still wanted     *)
(* when the focus is the same again, and is not cancelled by anything.     *)
OfTheFocus ==
  focus # None =>
    /\ says \in {"ready", "refreshing"} => shown # None /\ shown.of = focus
    /\ ~returned =>
         /\ says \in {"loading", "refreshing"} => \E r \in reads : isCurrent(r) /\ r.of = focus
         /\ shown # None => \A r \in reads : isCurrent(r) => r.seq >= shown.seq

(* What every step keeps: a read that was not cancelled is about the focus *)
(* (a refresh of a convoy unless one was left with it), what is shown is   *)
(* no younger than the last read, and of the reads still wanted there is   *)
(* one, while the hook says that it loads.                                 *)
WantedOfFocus ==
  \A r \in reads :
    /\ r.mode = "initial" /\ r.wanted => r.of = focus
    /\ r.mode = "refresh" => /\ hook \in {"convoy", "roots"}
                             /\ hook = "roots" \/ ~returned => r.of = focus

InOrder ==
  /\ \A r \in reads : r.seq < made
  /\ shown # None => shown.seq <= made

OneIsWanted ==
  ~returned /\ focus # None =>
    /\ \A r, s \in reads : isCurrent(r) /\ isCurrent(s) => r = s
    /\ says \notin {"loading", "refreshing"} => \A r \in reads : ~isCurrent(r)

IInv == TypeOK /\ WantedOfFocus /\ InOrder /\ OneIsWanted /\ OfTheFocus
=============================================================================
