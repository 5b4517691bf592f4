----------------------------- MODULE MCReefMoves ------------------------------
(***************************************************************************)
(* The aquarium page over a city in which nothing happens.                 *)
(***************************************************************************)
EXTENDS Reef

CONSTANTS b1, b2, r1, r2

HomeRig == [b \in {b1, b2} |-> IF b = b1 THEN r1 ELSE r2]
NoNeeds == [b \in {b1, b2} |-> {}]
===============================================================================
