-------------------------- MODULE ReleaseLifecycle --------------------------
(***************************************************************************)
(* One release record driven through transitionRelease by operators who    *)
(* present some version of the release document each time, while devices   *)
(* ask executionEligibility with whatever document they hold               *)
(* (packages/core/release-policy.ts).                                      *)
(***************************************************************************)
EXTENDS ReleasePolicy

CONSTANTS Specs,       \* the release documents in circulation
          Actors,      \* named approvers
          Reports,     \* items of test evidence
          Devices,
          LastInstant  \* the last instant considered

ASSUME SpecsAssumption ==
    \A spec \in Specs :
        /\ spec.status \in {"draft", "tested", "approved", "revoked"}
        /\ spec.mode \in {"shadow", "canary", "released"}
        /\ spec.expiresAt \in Nat

ASSUME ActorsAssumption == Unset \notin Actors /\ LastInstant \in Nat

VARIABLES release,    \* the release record
          approvals,  \* documents presented at an accepted approval (history)
          stages,     \* the states the record has been in (history)
          time

lifecycleVars == <<release, approvals, stages, time>>

Draft(spec) ==
    [releaseId      |-> spec.releaseId,
     state          |-> "draft",
     hash           |-> ExecutablePolicyHash(spec),
     approvedHash   |-> Unset,
     approvedConfig |-> Unset]

LifecycleTypeOK ==
    /\ release.state \in ReleaseStates
    /\ release.hash \in {ExecutablePolicyHash(spec) : spec \in Specs}
    /\ release.approvedHash \in {ExecutablePolicyHash(spec) : spec \in Specs}
                               \cup {Unset}
    /\ approvals \subseteq Specs
    /\ stages \subseteq ReleaseStates
    /\ time \in Nat

LifecycleInit ==
    /\ \E spec \in Specs : release = Draft(spec)
    /\ approvals = {}
    /\ stages = {"draft"}
    /\ time = 0

Transition(to, spec, actor, evidence) ==
    /\ MayTransition(release, to, spec, actor, evidence)
    /\ release' = TransitionRelease(release, to, spec)
    /\ approvals' = IF to = "approved" THEN approvals \cup {spec} ELSE approvals
    /\ stages' = stages \cup {to}
    /\ UNCHANGED time

TimePasses ==
    /\ time < LastInstant
    /\ time' = time + 1
    /\ UNCHANGED <<release, approvals, stages>>

LifecycleNext ==
    \/ \E to \in ReleaseStates, spec \in Specs, actor \in Actors \cup {Unset},
          evidence \in SUBSET Reports : Transition(to, spec, actor, evidence)
    \/ TimePasses

LifecycleSpec == LifecycleInit /\ [][LifecycleNext]_lifecycleVars

-----------------------------------------------------------------------------
\* A document that lets a command through is, field for field, the one an
\* operator approved with evidence, and the record went through every stage
\* on the way to its own: no stage can be skipped and no later edit of the
\* document, of its device list or of its expiry, is honoured.
EligibleAsApproved ==
    \A spec \in Specs, device \in Devices :
        Eligible(spec, release, device, time) =>
            /\ spec \in approvals
            /\ {"draft", "tested", "approved", "shadow", "canary"} \subseteq stages
            /\ "revoked" \notin stages
            /\ spec.config # Unset

\* A document is usable in one deployment stage only: the mode is part of the
\* approved identity, so promoting a canary ends its authority to dispatch.
NeverEligibleInTwoStages ==
    [][\A spec \in Specs, device \in Devices :
          (Eligible(spec, release, device, time) /\ release'.state # release.state)
             => \A other \in Specs :
                    ~Eligible(other, release', device, time')]_lifecycleVars

\* A refusal is final: once the record has reached the stage a document is
\* made for and the document is refused, no transition and no passing of time
\* makes it usable again.
RefusalIsFinal ==
    [][\A spec \in Specs, device \in Devices :
          (spec.mode \in stages /\ ~Eligible(spec, release, device, time))
             => ~Eligible(spec, release', device, time')]_lifecycleVars
=============================================================================
