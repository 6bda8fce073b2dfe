--------------------------- MODULE ReleasePolicy ---------------------------
(***************************************************************************)
(* The pure rules of a release's life: which transitions exist, what each  *)
(* requires, and when a record lets a command through                      *)
(* (packages/core/release-policy.ts and the identity hash of               *)
(* packages/core/exec-spec.ts).                                            *)
(*                                                                         *)
(* A release document ("spec") is a record with the fields releaseId,      *)
(* content (model, contract, profiles: everything else), config (its       *)
(* approved configuration digest, or Unset), status (evidence.status),     *)
(* mode (deployment.mode), devices and expiresAt.                          *)
(***************************************************************************)
EXTENDS Naturals

CONSTANT Unset   \* an absent optional field

ReleaseStates ==
    {"draft", "tested", "approved", "shadow", "canary", "released", "revoked"}

\* Slip: a revoked release can be reopened.
TransitionsReopening ==
    [draft    |-> {"tested", "revoked"},
     tested   |-> {"approved", "revoked"},
     approved |-> {"shadow", "revoked"},
     shadow   |-> {"canary", "revoked"},
     canary   |-> {"released", "revoked"},
     released |-> {"revoked"},
     revoked  |-> {"approved"}]

Transitions ==
    [draft    |-> {"tested", "revoked"},
     tested   |-> {"approved", "revoked"},
     approved |-> {"shadow", "revoked"},
     shadow   |-> {"canary", "revoked"},
     canary   |-> {"released", "revoked"},
     released |-> {"revoked"},
     revoked  |-> {}]

\* Slips: the hash leaves out the device list, or the deployment mode.
HashWithoutDevices(spec) == <<"executable-policy", [spec EXCEPT !.devices = {}]>>
HashWithoutMode(spec) == <<"executable-policy", [spec EXCEPT !.mode = "canary"]>>

\* executablePolicyHash covers every field of the document, the deployment
\* mode and the evidence status included; distinct documents have distinct
\* hashes.
ExecutablePolicyHash(spec) == <<"executable-policy", spec>>

\* transitionRelease throws unless all of these hold.
MayTransition(record, to, spec, actor, evidence) ==
    /\ to \in Transitions[record.state]
    /\ record.hash = ExecutablePolicyHash(spec)
    /\ to = "approved" =>
          /\ actor # Unset
          /\ evidence # {}
          /\ spec.config # Unset

TransitionRelease(record, to, spec) ==
    IF to = "approved"
    THEN [record EXCEPT !.state = to,
                        !.approvedHash = ExecutablePolicyHash(spec),
                        !.approvedConfig = spec.config]
    ELSE [record EXCEPT !.state = to]

\* executionEligibility: the first check that fails names the reason.
Eligibility(spec, record, device, now) ==
    IF record.releaseId # spec.releaseId THEN "release_id_mismatch"
    ELSE IF record.state = "revoked" \/ spec.status = "revoked"
         THEN "release_revoked"
    ELSE IF record.state \notin {"canary", "released"}
         THEN "release_state_cannot_dispatch"
    ELSE IF record.hash # ExecutablePolicyHash(spec)
         THEN "release_identity_changed_reapproval_required"
    ELSE IF record.approvedHash # record.hash
         THEN "release_approval_identity_mismatch"
    ELSE IF spec.config = Unset \/ record.approvedConfig = Unset
         THEN "configuration_unbound"
    ELSE IF record.approvedConfig # spec.config THEN "configuration_mismatch"
    ELSE IF spec.status # "approved" THEN "release_not_approved"
    ELSE IF spec.mode # record.state THEN "release_deployment_mode_mismatch"
    ELSE IF spec.expiresAt <= now THEN "release_expired"
    ELSE IF device \notin spec.devices THEN "device_not_allowed"
    ELSE "eligible"

Eligible(spec, record, device, now) ==
    Eligibility(spec, record, device, now) = "eligible"
=============================================================================
