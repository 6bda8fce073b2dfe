------------------------ MODULE MCFileReplayRegistry ------------------------
(***************************************************************************)
(* Two processes, two slots, three identities.  Two of the identities      *)
(* share a home slot, so probing collides and the table can fill up.       *)
(***************************************************************************)
EXTENDS FileReplayRegistry, TLC

CONSTANTS p1, p2, a, b, c

SameCapacity == (p1 :> 2) @@ (p2 :> 2)
MixedCapacity == (p1 :> 1) @@ (p2 :> 2)

\* Processes of equal capacity are interchangeable.
ProcessSymmetry == Permutations({p1, p2})

SomeEntries == {0}
AnyEntry == Entries

Digest == [id \in Identities |-> CASE id = a -> 0 [] id = b -> 2 [] id = c -> 1]
=============================================================================
