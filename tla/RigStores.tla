------------------------------ MODULE RigStores ------------------------------
(***************************************************************************)
(* The probe of one rig's store of beads (backend/src/routes/              *)
(* rig-store-health.ts): four looks at a machine that does not stand       *)
(* still, one after another, and the colour they are rolled up into.       *)
(*                                                                         *)
(* The port file may be stale: another server may listen where it points.  *)
(* A doctor that finds no server falls back to what is not JSON.           *)
(***************************************************************************)
EXTENDS Naturals

CONSTANTS MaxMoves,   \* bound: the changes of the machine
          None

VARIABLES
  machine,   \* directory, server, the file of its port, and the worst of its checks
  step,      \* where the probe stands
  port,      \* the port it read: "own", "other" or None
  checks,    \* the checks of the doctor, or None
  note,      \* whether the probe is incomplete
  report,    \* the RigStoreHealth, or None
  seen,      \* history: the machines there were since the probe began
  moves      \* bounds the changes

vars == <<machine, step, port, checks, note, report, seen, moves>>

Statuses == {"ok", "warning", "error"}
Machines == [directory : BOOLEAN, server : BOOLEAN, squatter : BOOLEAN,
             file : {"own", "other", None}, worst : Statuses]

\* Checks: the worst that is no benign hygiene, and of the connection, when
\* there is one.
Checks == [worst : Statuses, connection : {"ok", "error", None}]

\* RigStoreHealth: its colour, and whether the server answered.
Reports == [rollup : {"ok", "warn", "down"}, connected : BOOLEAN \cup {None}]

\* What the constants are to be; an instance for TLC assumes it.
Assumptions == MaxMoves \in Nat /\ None \notin BOOLEAN \cup Checks \cup Reports

\* rollupFor.  (An operator ending in _Fault is a plausible bug in the one
\* below it.)
rollupFor_Fault(connected, worst, incomplete) ==
  CASE connected = FALSE -> "down"
    [] connected # FALSE /\ worst = "error" -> "down"
    [] connected # FALSE /\ worst = "warning" -> "warn"
    [] connected # FALSE /\ worst = "ok" -> "ok"
rollupFor(connected, worst, incomplete) ==
  CASE connected = FALSE \/ worst = "error" -> "down"
    [] connected # FALSE /\ worst # "error" /\ (worst = "warning" \/ incomplete) -> "warn"
    [] connected # FALSE /\ worst = "ok" /\ ~incomplete -> "ok"

Init ==
  /\ machine \in Machines
  /\ step = "stat" /\ port = None /\ checks = None /\ note = FALSE
  /\ report = None /\ seen = {machine} /\ moves = 0

\* The machine changes between two looks.
Move ==
  /\ moves < MaxMoves /\ report = None /\ moves' = moves + 1
  /\ machine' \in Machines /\ seen' = seen \cup {machine'}
  /\ UNCHANGED <<step, port, checks, note, report>>

Looks == UNCHANGED <<machine, seen, moves>>

Stat ==
  /\ step = "stat" /\ Looks
  /\ IF machine.directory
     THEN step' = "port" /\ UNCHANGED report
     ELSE step' = "done" /\ report' = [rollup |-> "down", connected |-> None]
  /\ UNCHANGED <<port, checks, note>>

ReadPort ==
  /\ step = "port" /\ Looks /\ step' = "doctor"
  /\ port' = machine.file
  /\ UNCHANGED <<checks, note, report>>

\* bd doctor answers, or falls back, fails or is killed.
Doctor ==
  /\ step = "doctor" /\ Looks /\ step' = "connect"
  /\ \/ /\ machine.server /\ machine.directory
        /\ \E connection \in {"ok", None} :
             checks' = [worst |-> machine.worst, connection |-> connection]
        /\ UNCHANGED note
     \/ /\ ~machine.server
        /\ checks' = [worst |-> "error", connection |-> "error"] /\ UNCHANGED note
     \/ checks' = None /\ note' = TRUE
  /\ UNCHANGED <<port, report>>

Answers(p) == IF p = "own" THEN machine.server ELSE machine.squatter

\* The probe of the port, or what the doctor said of it, and the verdict.
Connect ==
  /\ step = "connect" /\ Looks /\ step' = "done"
  /\ LET said == IF checks = None \/ checks.connection = None THEN None
                 ELSE checks.connection = "ok"
         connected == IF port # None THEN Answers(port) ELSE said
         worst == IF checks = None THEN "ok" ELSE checks.worst
     IN  report' = [rollup |-> rollupFor(connected, worst, note), connected |-> connected]
  /\ UNCHANGED <<port, checks, note>>

\* safeProbe: what a look throws is a store that is down.
Throws ==
  /\ step # "done" /\ Looks /\ step' = "done"
  /\ report' = [rollup |-> "down", connected |-> None]
  /\ UNCHANGED <<port, checks, note>>

Next == Move \/ Stat \/ ReadPort \/ Doctor \/ Connect \/ Throws

----------------------------------------------------------------------------
\* The types.
TypeOK ==
  /\ machine \in Machines /\ seen \subseteq Machines
  /\ step \in {"stat", "port", "doctor", "connect", "done"}
  /\ port \in {"own", "other", None} /\ checks \in Checks \cup {None} /\ note \in BOOLEAN
  /\ report \in Reports \cup {None} /\ (report # None) = (step = "done")

\* A store is shown green only when its directory was there and its own server
\* ran, with nothing wrong, at some moment of the probe: not because another
\* server listens on the port of a stale file, nor because the doctor said
\* nothing.
GreenWasGood ==
  (report # None /\ report.rollup = "ok") =>
    \E m \in seen : m.directory /\ m.server /\ m.worst = "ok"

\* Why: the doctor said of a server that it is well only when it was, it left a
\* note when it said nothing, and the probe remembers what there was.
DoctorWasRight ==
  /\ machine \in seen
  /\ checks # None /\ checks.worst = "ok" =>
       \E m \in seen : m.directory /\ m.server /\ m.worst = "ok"
  /\ step = "connect" => checks # None \/ note
IInv == TypeOK /\ DoctorWasRight /\ GreenWasGood
===============================================================================
