-------------------------- MODULE MCUR5eValidation --------------------------
EXTENDS UR5eValidation, TLC

CONSTANTS s1, s2, p1, r1, f1, n1, n2, evidence

OnlyEast == [c \in Setups |-> "east"]

\* The copy and the pairing an earlier setup leaves, the first one may leave;
\* or the machine was paired with another cloud.
UsedMachine == FieldInit /\ credentials # "east" /\ copy = "absent"

UsedMachineSpec == UsedMachine /\ [][FieldNext]_fieldVars

SetupSymmetry == Permutations({s1, s2}) \cup Permutations({n1, n2})
=============================================================================
