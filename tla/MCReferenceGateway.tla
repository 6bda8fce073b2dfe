------------------------- MODULE MCReferenceGateway -------------------------
EXTENDS ReferenceGateway, TLC

CONSTANTS m1, m2

\* An entry about m1 takes one unit of the file, which the margin covers, and one
\* about m2 three, which it does not.
MCSize == m1 :> 1 @@ m2 :> 3

PathSymmetry == Permutations(Paths)
=============================================================================
