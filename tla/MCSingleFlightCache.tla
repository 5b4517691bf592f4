------------------------ MODULE MCSingleFlightCache ------------------------
(***************************************************************************)
(* Small instances of SingleFlightCache for TLC.                           *)
(***************************************************************************)
EXTENDS SingleFlightCache

CONSTANTS k1, l1, l2, l3, c1, c2

OneKey == {k1}
ThreeLoads == {l1, l2, l3}
TwoCallers == {c1, c2}
=============================================================================
