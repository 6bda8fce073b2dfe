--------------------------- MODULE ReplayRegistry ---------------------------
(***************************************************************************)
(* What a proposal replay registry promises its callers, whatever stores   *)
(* the claims: the interface ProposalReplayRegistry together with the      *)
(* answers InMemoryProposalReplayRegistry gives                            *)
(* (packages/cloud-client/replay-registry.ts).  A caller asks to claim an  *)
(* identity and is told "claimed" at most once per identity for the whole  *)
(* life of the registry.  FileReplayRegistry implements this module.       *)
(***************************************************************************)
EXTENDS Naturals, FiniteSets

CONSTANTS Procs,        \* the processes that share one registry
          Identities,   \* the claimable proposal identities
          Capacity,     \* Capacity[p]: the maximumClaims process p was built with
          None          \* no identity is being claimed

Replies == {"claimed", "duplicate", "capacity_exceeded", "unavailable"}

VARIABLES recorded,   \* identities the registry holds a claim of
          phase,      \* phase[p]: how far p's call has got
          asked,      \* asked[p]: the identity p is claiming, or None
          reply,      \* reply[p]: the answer of the call, "none" before it
          granted     \* granted[x]: how many calls were told "claimed" for x

vars == <<recorded, phase, asked, reply, granted>>

Phases == {"idle", "asked", "recorded", "answered"}

TypeOK ==
    /\ recorded \subseteq Identities
    /\ phase \in [Procs -> Phases]
    /\ asked \in [Procs -> Identities \cup {None}]
    /\ reply \in [Procs -> Replies \cup {"none"}]
    /\ granted \in [Identities -> Nat]

\* The answer of InMemoryProposalReplayRegistry.claim, which runs without
\* interruption and cannot fail, when it holds the claims in held.
MemoryReply(held, id, maximumClaims) ==
    IF id \in held THEN "duplicate"
    ELSE IF Cardinality(held) >= maximumClaims THEN "capacity_exceeded"
    ELSE "claimed"

Init ==
    /\ recorded = {}
    /\ phase = [p \in Procs |-> "idle"]
    /\ asked = [p \in Procs |-> None]
    /\ reply = [p \in Procs |-> "none"]
    /\ granted = [id \in Identities |-> 0]

Ask(p, id) ==
    /\ phase[p] = "idle"
    /\ phase' = [phase EXCEPT ![p] = "asked"]
    /\ asked' = [asked EXCEPT ![p] = id]
    /\ UNCHANGED <<recorded, reply, granted>>

\* The claim takes effect: the caller that records an identity is the only
\* one that may be told "claimed".
Record(p) ==
    /\ phase[p] = "asked"
    /\ MemoryReply(recorded, asked[p], Capacity[p]) = "claimed"
    /\ recorded' = recorded \cup {asked[p]}
    /\ phase' = [phase EXCEPT ![p] = "recorded"]
    /\ UNCHANGED <<asked, reply, granted>>

Answer(p, r) ==
    /\ phase' = [phase EXCEPT ![p] = "answered"]
    /\ reply' = [reply EXCEPT ![p] = r]
    /\ UNCHANGED <<recorded, asked>>

Grant(p) ==
    /\ phase[p] = "recorded"
    /\ granted' = [granted EXCEPT ![asked[p]] = @ + 1]
    /\ Answer(p, "claimed")

\* A refusal is the answer the in-memory registry would give at this moment.
Refuse(p) ==
    /\ phase[p] = "asked"
    /\ MemoryReply(recorded, asked[p], Capacity[p]) # "claimed"
    /\ Answer(p, MemoryReply(recorded, asked[p], Capacity[p]))
    /\ UNCHANGED granted

\* A failure may strike before or after the claim took effect.
Unavailable(p) ==
    /\ phase[p] \in {"asked", "recorded"}
    /\ Answer(p, "unavailable")
    /\ UNCHANGED granted

Return(p) ==
    /\ phase[p] = "answered"
    /\ phase' = [phase EXCEPT ![p] = "idle"]
    /\ asked' = [asked EXCEPT ![p] = None]
    /\ reply' = [reply EXCEPT ![p] = "none"]
    /\ UNCHANGED <<recorded, granted>>

\* The calls of the processes in S end without an answer.
Abandon(S) ==
    /\ phase' = [p \in Procs |-> IF p \in S THEN "idle" ELSE phase[p]]
    /\ asked' = [p \in Procs |-> IF p \in S THEN None ELSE asked[p]]
    /\ reply' = [p \in Procs |-> IF p \in S THEN "none" ELSE reply[p]]

Crash(p) == Abandon({p}) /\ UNCHANGED <<recorded, granted>>

\* A power failure may forget claims, but never one that was granted.
PowerLoss ==
    /\ \E kept \in SUBSET recorded :
          /\ \A id \in Identities : granted[id] > 0 => id \in kept
          /\ recorded' = kept
    /\ Abandon(Procs)
    /\ UNCHANGED granted

Next ==
    \/ \E p \in Procs :
          \/ \E id \in Identities : Ask(p, id)
          \/ Record(p) \/ Grant(p) \/ Refuse(p) \/ Unavailable(p)
          \/ Return(p) \/ Crash(p)
    \/ PowerLoss

Spec == Init /\ [][Next]_vars
=============================================================================
