-------------------------- MODULE MCGcEventStream --------------------------
(***************************************************************************)
(* Small instances of GcEventStream for TLC.                               *)
(***************************************************************************)
EXTENDS GcEventStream

\* A panel that is mounted once and keeps its prefixes: what it hears comes
\* from one effect.
NextOneEffect ==
    \/ Mount \/ Accept \/ OnOpen \/ Match \/ OnError
    \/ TimerFires \/ Emit \/ Tick
SpecOneEffect == Init /\ [][NextOneEffect]_vars
=============================================================================
