-------------------------- MODULE MCCityRegistry --------------------------
(***************************************************************************)
(* Small instances of CityRegistry for TLC.                                *)
(***************************************************************************)
EXTENDS CityRegistry

CONSTANTS racoon, hawkins, dotdot, r1, r2, q1, q2

TwoCities == {racoon, hawkins}
Invalid == {dotdot}
TwoRuntimes == {r1, r2}
TwoRequests == {q1, q2}
=============================================================================
