-------------------------- MODULE MCRunLanesThrash --------------------------
(***************************************************************************)
(* RunLanes on a run of two steps whose first is retried under ids of its  *)
(* own, attempt by attempt.                                                *)
(***************************************************************************)
EXTENDS RunLanes

TwoStages == <<{"work"}, {"gate"}>>
StepTokens == [work |-> {"implementation"}, gate |-> {"approval", "review"}]
StepAttempts == [work |-> 3, gate |-> 1]
=============================================================================
