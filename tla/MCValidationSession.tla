------------------------- MODULE MCValidationSession -------------------------
(***************************************************************************)
(* Bounds for checking ValidationSession.                                  *)
(***************************************************************************)
EXTENDS ValidationSession, TLC

\* The code treats its cases alike, as far as the session goes.
CaseSymmetry == Permutations(Cases)
=============================================================================
