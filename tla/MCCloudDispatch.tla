--------------------------- MODULE MCCloudDispatch ---------------------------
(* Two runtimes and a replay registry that holds one claim, so that every    *)
(* answer of the registry occurs.                                            *)
EXTENDS CloudDispatch

CONSTANTS p1, p2, a, b

One == [p \in Procs |-> 1]
=============================================================================
