----------------------------- MODULE SessionTail -----------------------------
(***************************************************************************)
(* A session's transcript and its live tail                                *)
(* (frontend/src/hooks/useSessionStream.ts), as the peek shows them        *)
(* (components/LiveSessionPeek.tsx, components/SessionPeek.tsx).           *)
(*                                                                         *)
(* A subscription is one run of the effect: a read of the transcript and,  *)
(* once that has answered, an event source.  The clean-up of the effect    *)
(* cancels a subscription; what it asked for may still answer.             *)
(***************************************************************************)
EXTENDS Naturals, Sequences, FiniteSets

CONSTANTS Sessions,   \* session identities
          Subs,       \* identities of subscriptions
          MaxTurns,   \* bound: the turns a session can have
          None

Subscriptions == [session : Sessions, stream : BOOLEAN, heard : 0 .. MaxTurns,
                  phase : {"reading", "connected", "done"}]

\* What the constants are to be; an instance for TLC assumes it.
Assumptions ==
  /\ None \notin Sessions \cup Subs \cup Subscriptions
  /\ MaxTurns \in Nat

VARIABLES
  said,     \* said[s]: how many turns session s has
  prop,     \* the properties of the hook: the session, or None, and whether to stream
  current,  \* the subscription of the last effect, or None
  sub,      \* sub[u]: [session, stream, phase, heard], or None
  state     \* the state the hook returns

vars == <<said, prop, current, sub, state>>

Idle == [status |-> "idle", stream |-> "idle"]
Wanted == [session : Sessions, stream : BOOLEAN] \cup {[session |-> None, stream |-> FALSE]}
Live == {u \in Subs : sub[u] # None}
Connected == {u \in Live : sub[u].phase = "connected"}
canStream(u) == sub[u].stream

Kept_Fault(v) == sub[v]

(***************************************************************************)
(* The effect, with the clean-up of the one before it: a connection is     *)
(* closed; a read goes on and is ignored.                                  *)
(***************************************************************************)
Kept(v) == IF sub[v] # None /\ sub[v].phase = "reading" THEN sub[v] ELSE None

Subscribed(u) ==
  /\ sub' = [v \in Subs |-> IF v = u THEN [session |-> prop'.session, stream |-> prop'.stream,
                                           phase |-> "reading", heard |-> 0]
                            ELSE Kept(v)]
  /\ current' = u
  /\ state' = [status |-> "loading", stream |-> IF prop'.stream THEN "connecting" ELSE "idle"]

Effect(p, u) ==
  /\ p # prop
  /\ prop' = p
  /\ IF p.session = None
     THEN /\ sub' = [v \in Subs |-> Kept(v)]
          /\ current' = None
          /\ state' = Idle
     ELSE u \notin Live /\ Subscribed(u)
  /\ UNCHANGED said

(***************************************************************************)
(* The transcript answers.                                                 *)
(***************************************************************************)
Reading(u) == u \in Live /\ sub[u].phase = "reading"
Ready(u, turns, stream) ==
  [status |-> "ready", session |-> sub[u].session, turns |-> turns, stream |-> stream]
Gone(u) == [sub EXCEPT ![u] = None]

TranscriptLands(u) ==
  /\ Reading(u)
  /\ IF u # current
     THEN sub' = Gone(u) /\ UNCHANGED state
     ELSE /\ sub' = [sub EXCEPT ![u].phase = IF canStream(u) THEN "connected" ELSE "done",
                                ![u].heard = said[sub[u].session]]
          /\ state' = Ready(u, said[sub[u].session], IF canStream(u) THEN "connecting" ELSE "idle")
  /\ UNCHANGED <<said, prop, current>>

TranscriptFails(u) ==
  /\ Reading(u)
  /\ sub' = IF u # current THEN Gone(u) ELSE [sub EXCEPT ![u].phase = "done"]
  /\ state' = IF u # current THEN state ELSE [status |-> "failed", stream |-> "idle"]
  /\ UNCHANGED <<said, prop, current>>

(***************************************************************************)
(* The tail.  The hook opens it without a cursor and appends what it is    *)
(* sent.  It is taken of the supervisor that it sends the turns from the   *)
(* one after those it has sent, across a reconnect too, or a snapshot of   *)
(* them all; a payload may be malformed.                                   *)
(***************************************************************************)
Heard(u) == u \in Connected /\ u = current

Opens(u) ==
  /\ Heard(u)
  /\ state' = [state EXCEPT !.stream = "open"]
  /\ UNCHANGED <<said, prop, current, sub>>

Turn(u) ==
  /\ Heard(u) /\ sub[u].heard < said[sub[u].session]
  /\ sub' = [sub EXCEPT ![u].heard = @ + 1]
  /\ state' = Ready(u, state.turns + 1, "open")
  /\ UNCHANGED <<said, prop, current>>

Snapshot(u) ==
  /\ Heard(u)
  /\ sub' = [sub EXCEPT ![u].heard = said[sub[u].session]]
  /\ state' = Ready(u, said[sub[u].session], "open")
  /\ UNCHANGED <<said, prop, current>>

(* A payload that is neither degrades the badge and keeps the transcript.  *)
Malformed(u) ==
  /\ Heard(u)
  /\ state' = [state EXCEPT !.stream = "degraded"]
  /\ UNCHANGED <<said, prop, current, sub>>

(* The source reconnects by itself unless the server refused it.           *)
Drops(u) ==
  /\ Heard(u)
  /\ \E refused \in BOOLEAN :
       /\ state' = [state EXCEPT !.stream = IF refused THEN "closed" ELSE "connecting"]
       /\ sub' = IF refused THEN [sub EXCEPT ![u].phase = "done"] ELSE sub
  /\ UNCHANGED <<said, prop, current>>

Speaks(s) ==
  /\ said[s] < MaxTurns
  /\ said' = [said EXCEPT ![s] = @ + 1]
  /\ UNCHANGED <<prop, current, sub, state>>

Init ==
  /\ said = [s \in Sessions |-> 0]
  /\ prop = [session |-> None, stream |-> FALSE]
  /\ current = None
  /\ sub = [u \in Subs |-> None]
  /\ state = Idle

Next ==
  \/ \E s \in Sessions : Speaks(s)
  \/ \E u \in Subs :
       \/ \E p \in Wanted : Effect(p, u)
       \/ TranscriptLands(u) \/ TranscriptFails(u)
       \/ Opens(u) \/ Turn(u) \/ Snapshot(u) \/ Malformed(u) \/ Drops(u)

Spec == Init /\ [][Next]_vars

(***************************************************************************)
(* What is shown.                                                          *)
(***************************************************************************)
SessionPeekContent ==
  CASE state.status = "loading" -> "fetching"
    [] state.status = "failed"  -> "error"
    [] state.status = "idle"    -> "nothing"
    [] OTHER -> IF state.turns = 0 THEN "no turns yet" ELSE "turns"

streamBadge ==
  CASE state.stream = "open"       -> "live"
    [] state.stream = "connecting" -> "connecting"
    [] state.stream = "closed"     -> "offline"
    [] state.stream = "degraded"   -> "degraded"
    [] state.stream = "idle"       -> "snapshot"

(***************************************************************************)
(* Properties.                                                             *)
(***************************************************************************)
Badges == {"idle", "connecting", "open", "closed", "degraded"}

States ==
  [status : {"idle", "loading", "failed"}, stream : Badges] \cup
  [status : {"ready"}, session : Sessions, turns : 0 .. MaxTurns, stream : Badges]

TypeOK ==
  /\ said \in [Sessions -> 0 .. MaxTurns]
  /\ prop \in Wanted
  /\ current \in Live \cup {None}
  /\ sub \in [Subs -> Subscriptions \cup {None}]
  /\ state \in States

(* What is shown is what was said, in the session asked for last: however  *)
(* the session and the flag change while transcripts are outstanding,      *)
(* however snapshots, turns, malformed payloads and reconnections mix; and *)
(* only the source of that session is open.                                *)
TailIsTheSessions ==
  /\ Connected \subseteq {current}
  /\ prop.session = None <=> state.status = "idle"
  /\ state.status = "ready" => /\ state.session = prop.session
                               /\ state.turns = sub[current].heard
  /\ streamBadge \in {"live", "degraded"} => current \in Connected
  /\ SessionPeekContent = "fetching" => Reading(current)

(* What every step keeps: the last effect's subscription is of the session *)
(* asked for, every other one is a read that was cancelled, and the state  *)
(* is what the phase of the current one has made of it.                    *)
OneIsCurrent ==
  /\ prop.session = None <=> current = None
  /\ current # None => sub[current].session = prop.session
  /\ \A u \in Live \ {current} : sub[u].phase = "reading"

StateFollows ==
  /\ current = None => state = Idle
  /\ current # None =>
       CASE sub[current].phase = "reading" -> state.status = "loading"
         [] sub[current].phase = "connected" -> state.status = "ready"
         [] sub[current].phase = "done" -> state.status \in {"ready", "failed"}
  /\ state.status = "ready" => /\ state.session = prop.session
                               /\ state.turns = sub[current].heard
  /\ state.stream \in {"open", "degraded"} => current \in Connected

IInv == TypeOK /\ OneIsCurrent /\ StateFollows
=============================================================================
