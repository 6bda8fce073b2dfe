---------------------------- MODULE ReleaseProofs ----------------------------
(***************************************************************************)
(* What ReleaseLifecycle and ReleaseGate promise: the life of one release  *)
(* record, for every set of documents, approvers, reports and devices; and *)
(* one permit, for every set of execute calls, every limit on ages and     *)
(* lives, every behaviour of the two clocks and any number of disturbances *)
(* and edits.  The two specifications share the release policy and have no *)
(* variable in common.                                                     *)
(*                                                                         *)
(* The record's own fields do not say how it came to its state.            *)
(* LifecycleInv does: until the release is revoked the stages it went      *)
(* through are exactly those before its own (PathInv), so that no          *)
(* transition leads back into one; and from its approval on its hash is    *)
(* that of an approved document (ApprovalInv), since no transition touches *)
(* the hash.                                                               *)
(*                                                                         *)
(* A permit is in the map only while no call has got past its entry, and   *)
(* at most one call ever does (OneInside): the permit leaves the map in    *)
(* the same step.  Everything else follows that one call: what it sent and *)
(* wrote (EntryInv), what it was too late for (LateInv), what the permit's *)
(* times mean (AgeInv), and that the action it holds is the one the permit *)
(* is bound to, in the state and under the release the policy judged       *)
(* (BoundInv).                                                             *)
(***************************************************************************)
EXTENDS ReleaseLifecycle, ReleaseGate, TLAPS

(***************************************************************************)
(* The release record.                                                     *)
(***************************************************************************)
Hashes == {ExecutablePolicyHash(spec) : spec \in Specs}

Releases ==
    [releaseId : {spec.releaseId : spec \in Specs}, state : ReleaseStates, hash : Hashes,
     approvedHash : Hashes \cup {Unset},
     approvedConfig : {spec.config : spec \in Specs} \cup {Unset}]

ReleaseTypes ==
    /\ release \in Releases
    /\ approvals \subseteq Specs
    /\ time \in Nat

PathInv ==
    /\ release.state = "draft" => stages = {"draft"}
    /\ release.state = "tested" => stages = {"draft", "tested"}
    /\ release.state = "approved" => stages = {"draft", "tested", "approved"}
    /\ release.state = "shadow" => stages = {"draft", "tested", "approved", "shadow"}
    /\ release.state = "canary" => stages = {"draft", "tested", "approved", "shadow", "canary"}
    /\ release.state = "released" =>
          stages = {"draft", "tested", "approved", "shadow", "canary", "released"}

ApprovalInv ==
    release.state \in {"approved", "shadow", "canary", "released"} =>
        \E spec \in approvals : release.hash = ExecutablePolicyHash(spec)

LifecycleInv == ReleaseTypes /\ PathInv /\ ApprovalInv

-----------------------------------------------------------------------------
\* The table of transitions, read backwards: where a stage is entered from.
LEMMA EnteredFrom ==
    ASSUME NEW state \in ReleaseStates, NEW to \in Transitions[state]
    PROVE  /\ to \in ReleaseStates \ {"draft"}
           /\ state # "revoked"
           /\ to = "tested" => state = "draft"
           /\ to = "approved" => state = "tested"
           /\ to = "shadow" => state = "approved"
           /\ to = "canary" => state = "shadow"
           /\ to = "released" => state = "canary"
<1>1. CASE state = "draft"
    BY <1>1 DEF Transitions, ReleaseStates
<1>2. CASE state = "tested"
    BY <1>2 DEF Transitions, ReleaseStates
<1>3. CASE state = "approved"
    BY <1>3 DEF Transitions, ReleaseStates
<1>4. CASE state = "shadow"
    BY <1>4 DEF Transitions, ReleaseStates
<1>5. CASE state = "canary"
    BY <1>5 DEF Transitions, ReleaseStates
<1>6. CASE state = "released"
    BY <1>6 DEF Transitions, ReleaseStates
<1>7. CASE state = "revoked"
    BY <1>7 DEF Transitions, ReleaseStates
<1> QED
    BY <1>1, <1>2, <1>3, <1>4, <1>5, <1>6, <1>7 DEF ReleaseStates

\* A transition moves the state and, at approval, the approved identity.
LEMMA TransitionChanges ==
    ASSUME NEW r \in Releases, NEW to \in ReleaseStates, NEW spec \in Specs
    PROVE  /\ TransitionRelease(r, to, spec) \in Releases
           /\ TransitionRelease(r, to, spec).state = to
           /\ TransitionRelease(r, to, spec).hash = r.hash
BY DEF Releases, Hashes, TransitionRelease

\* The checks of an eligible document that the properties rest on.
LEMMA EligibleMeans ==
    ASSUME NEW spec, NEW r, NEW device, NEW at, Eligible(spec, r, device, at)
    PROVE  /\ r.state \in {"canary", "released"}
           /\ r.hash = ExecutablePolicyHash(spec)
           /\ spec.config # Unset
           /\ spec.mode = r.state
BY DEF Eligible, Eligibility

\* Distinct documents have distinct hashes.
LEMMA HashInjective ==
    ASSUME NEW spec, NEW other, ExecutablePolicyHash(spec) = ExecutablePolicyHash(other)
    PROVE  spec = other
BY DEF ExecutablePolicyHash

LEMMA LifecycleInitInv == LifecycleInit => LifecycleInv
<1> SUFFICES ASSUME LifecycleInit PROVE LifecycleInv
    OBVIOUS
<1>1. PICK spec \in Specs : release = Draft(spec)
    BY DEF LifecycleInit
<1>2. ReleaseTypes
    BY <1>1 DEF LifecycleInit, ReleaseTypes, Releases, Hashes, Draft, ReleaseStates
<1>3. release.state = "draft"
    BY <1>1 DEF Draft
<1>4. PathInv
    BY <1>3 DEF LifecycleInit, PathInv
<1>5. ApprovalInv
    BY <1>3 DEF ApprovalInv
<1> QED
    BY <1>2, <1>4, <1>5 DEF LifecycleInv

LEMMA TransitionInv ==
    ASSUME LifecycleInv, NEW to \in ReleaseStates, NEW spec \in Specs, NEW actor, NEW evidence,
           Transition(to, spec, actor, evidence)
    PROVE  LifecycleInv'
<1>1. /\ release.state \in ReleaseStates
      /\ to \in Transitions[release.state]
      /\ release.hash = ExecutablePolicyHash(spec)
    BY DEF LifecycleInv, ReleaseTypes, Releases, Transition, MayTransition
<1>2. release' \in Releases /\ release'.state = to /\ release'.hash = release.hash
    BY TransitionChanges DEF LifecycleInv, ReleaseTypes, Transition
<1>3. stages' = stages \cup {to}
    BY DEF Transition
<1>4. ReleaseTypes'
    BY <1>2 DEF LifecycleInv, ReleaseTypes, Transition
<1>5. PathInv'
    BY <1>1, <1>2, <1>3, EnteredFrom DEF LifecycleInv, PathInv, ReleaseStates
<1>6. ApprovalInv'
    <2>1. CASE to = "approved"
        BY <1>1, <1>2, <2>1 DEF Transition, ApprovalInv
    <2>2. CASE to \in {"shadow", "canary", "released"}
        <3>1. release.state \in {"approved", "shadow", "canary"}
            BY <1>1, <2>2, EnteredFrom
        <3>2. approvals' = approvals
            BY <2>2 DEF Transition
        <3> QED
            BY <1>2, <3>1, <3>2 DEF LifecycleInv, ApprovalInv
    <2>3. CASE to \notin {"approved", "shadow", "canary", "released"}
        BY <1>2, <2>3 DEF ApprovalInv
    <2> QED
        BY <2>1, <2>2, <2>3
<1> QED
    BY <1>4, <1>5, <1>6 DEF LifecycleInv

LEMMA LifecycleStepInv == LifecycleInv /\ [LifecycleNext]_lifecycleVars => LifecycleInv'
<1> SUFFICES ASSUME LifecycleInv, [LifecycleNext]_lifecycleVars PROVE LifecycleInv'
    OBVIOUS
<1>1. CASE TimePasses
    BY <1>1 DEF TimePasses, LifecycleInv, ReleaseTypes, PathInv, ApprovalInv
<1>2. CASE UNCHANGED lifecycleVars
    BY <1>2 DEF lifecycleVars, LifecycleInv, ReleaseTypes, PathInv, ApprovalInv
<1>3. ASSUME NEW to \in ReleaseStates, NEW spec \in Specs, NEW actor, NEW evidence,
             Transition(to, spec, actor, evidence)
      PROVE  LifecycleInv'
    BY <1>3, TransitionInv
<1> QED
    BY <1>1, <1>2, <1>3 DEF LifecycleNext

\* The record's path and what its hash is tied to, in every behaviour.
THEOREM LifecycleInvariance == LifecycleSpec => []LifecycleInv
BY LifecycleInitInv, LifecycleStepInv, PTL DEF LifecycleSpec

-----------------------------------------------------------------------------
(***************************************************************************)
(* A document that lets a command through is the approved one, and the     *)
(* record went through every stage before its own.                         *)
(***************************************************************************)
THEOREM ApprovedOnly == LifecycleSpec => []EligibleAsApproved
<1>1. LifecycleInv => EligibleAsApproved
    <2> SUFFICES ASSUME LifecycleInv, NEW spec \in Specs, NEW device \in Devices,
                        Eligible(spec, release, device, time)
                 PROVE  /\ spec \in approvals
                        /\ {"draft", "tested", "approved", "shadow", "canary"} \subseteq stages
                        /\ "revoked" \notin stages
                        /\ spec.config # Unset
        BY DEF EligibleAsApproved
    <2>1. /\ release.state \in {"canary", "released"}
          /\ release.hash = ExecutablePolicyHash(spec)
          /\ spec.config # Unset
        BY EligibleMeans
    <2>2. spec \in approvals
        BY <2>1, HashInjective DEF LifecycleInv, ApprovalInv
    <2> QED
        BY <2>1, <2>2 DEF LifecycleInv, PathInv
<1> QED
    BY LifecycleInvariance, <1>1, PTL

(***************************************************************************)
(* Promotion ends the authority of the document that was promoted, and     *)
(* gives none to another.                                                  *)
(***************************************************************************)
THEOREM OneStageOnly == LifecycleSpec => NeverEligibleInTwoStages
<1>1. LifecycleInv /\ [LifecycleNext]_lifecycleVars =>
         [\A spec \in Specs, device \in Devices :
             (Eligible(spec, release, device, time) /\ release'.state # release.state)
                => \A other \in Specs : ~Eligible(other, release', device, time')]_lifecycleVars
    <2> SUFFICES ASSUME LifecycleInv, LifecycleNext,
                        NEW spec \in Specs, NEW device \in Devices, NEW other \in Specs,
                        Eligible(spec, release, device, time), release'.state # release.state,
                        Eligible(other, release', device, time')
                 PROVE  FALSE
        OBVIOUS
    <2>1. PICK to \in ReleaseStates, presented \in Specs, actor \in Actors \cup {Unset},
               evidence \in SUBSET Reports : Transition(to, presented, actor, evidence)
        BY DEF LifecycleNext, TimePasses
    <2>2. release'.hash = release.hash
        BY <2>1, TransitionChanges DEF LifecycleInv, ReleaseTypes, Transition
    <2>3. /\ release.hash = ExecutablePolicyHash(spec) /\ spec.mode = release.state
          /\ release'.hash = ExecutablePolicyHash(other) /\ other.mode = release'.state
        BY EligibleMeans
    <2> QED
        BY <2>2, <2>3, HashInjective
<1> QED
    BY LifecycleInvariance, <1>1, PTL DEF LifecycleSpec, NeverEligibleInTwoStages

(***************************************************************************)
(* Once the record has reached the stage a document is made for, a refusal *)
(* of the document is final.                                               *)
(***************************************************************************)
THEOREM RefusedForGood == LifecycleSpec => RefusalIsFinal
<1>1. LifecycleInv /\ [LifecycleNext]_lifecycleVars =>
         [\A spec \in Specs, device \in Devices :
             (spec.mode \in stages /\ ~Eligible(spec, release, device, time))
                => ~Eligible(spec, release', device, time')]_lifecycleVars
    <2> SUFFICES ASSUME LifecycleInv, LifecycleNext,
                        NEW spec \in Specs, NEW device \in Devices,
                        spec.mode \in stages, ~Eligible(spec, release, device, time),
                        Eligible(spec, release', device, time')
                 PROVE  FALSE
        OBVIOUS
    <2>1. CASE TimePasses
        <3>1. /\ release' = release /\ time' = time + 1
              /\ time \in Nat /\ spec.expiresAt \in Nat
            BY <2>1, SpecsAssumption DEF TimePasses, LifecycleInv, ReleaseTypes
        <3> QED
            BY <3>1 DEF Eligible, Eligibility
    <2>2. ASSUME NEW to \in ReleaseStates, NEW presented \in Specs, NEW actor, NEW evidence,
                 Transition(to, presented, actor, evidence)
          PROVE  FALSE
        <3>1. release.state \in ReleaseStates /\ to \in Transitions[release.state]
            BY <2>2 DEF LifecycleInv, ReleaseTypes, Releases, Transition, MayTransition
        <3>2. release'.state = to
            BY <2>2, TransitionChanges DEF LifecycleInv, ReleaseTypes, Transition
        <3>3. spec.mode = to /\ to \in {"canary", "released"}
            BY <3>2, EligibleMeans
        <3>4. to \notin stages
            BY <3>1, <3>3, EnteredFrom DEF LifecycleInv, PathInv
        <3> QED
            BY <3>3, <3>4
    <2> QED
        BY <2>1, <2>2 DEF LifecycleNext
<1> QED
    BY LifecycleInvariance, <1>1, PTL DEF LifecycleSpec, RefusalIsFinal

-----------------------------------------------------------------------------
(***************************************************************************)
(* The permit.                                                             *)
(***************************************************************************)
Inside == {"preflight", "record", "configuration", "attestation", "final", "checked",
           "dispatching"}
Phases == {"assembled", "deciding", "refused", "allowed"}

Requests == [Fields -> {1, 2}]
Hash == ExecutablePolicyHash(Document(1))
Records ==
    [releaseId : {"r"}, state : ReleaseStates, hash : {Hash}, approvedHash : {Hash},
     approvedConfig : {"approved"}]
Gates == [phase : Phases, releaseRecord : Records, request : Requests, startedAt : Nat,
          evaluatedAt : Nat]
Permits == [held : BOOLEAN, bindings : Requests, evaluatedAt : Nat, authorizedAt : Int,
            issuedAt : Nat, expiresAt : Nat, boot : {0}]
Observations == [digest : {"approved", "drifted"}, at : Nat] \cup {None}
Attestations == [boot : Nat, capable : BOOLEAN, at : Nat] \cup {None}
Entered == [pc : Inside \cup {"done"}, supplied : Nat \cup {Unset}, live : Requests,
            taken : [{"action", "state", "release"} -> {1, 2}], record : Records,
            config : Observations, attested : Attestations, checkedAt : Int,
            tooLate : BOOLEAN]
Outsiders == [pc : {"idle", "done"}]

TypeInv ==
    /\ mono \in Nat /\ skew \in Nat
    /\ record \in Records
    /\ config \in {"approved", "drifted"}
    /\ runtime \in [boot : Nat, capable : BOOLEAN]
    /\ gate \in Gates
    /\ gate.phase = "allowed" => permit \in Permits
    /\ gate.phase # "allowed" => ~permit.held
    /\ call \in [Calls -> Entered \cup Outsiders]
    /\ sent \in [Calls -> Sends \cup {None}]
    /\ ledger \in [Calls -> {None, "not_sent", "attempted", "lost"}]

\* A call that got past its entry.
Used(c) == call[c].pc \in Inside \/ sent[c] # None

OneInside ==
    /\ \A c \in Calls : Used(c) =>
          call[c] \in Entered /\ gate.phase = "allowed" /\ ~permit.held
    /\ \A c, d \in Calls : Used(c) /\ Used(d) => c = d

\* What a call has sent and written, by how far it is.
EntryInv ==
    \A c \in Calls :
        /\ call[c].pc \in (Inside \cup {"idle"}) \ {"dispatching"} => sent[c] = None
        /\ call[c].pc = "dispatching" => sent[c] # None
        /\ call[c].pc # "done" => ledger[c] = None
        /\ call[c].pc = "done" =>
              ledger[c] \in IF sent[c] = None THEN {"not_sent", "lost"} ELSE {"attempted", "lost"}

\* What made a call too late stays, and is in what the call refreshes.
Restarted == runtime.boot > 0

LateOf(r) ==
    r.tooLate =>
        /\ record.state = "revoked" \/ Restarted
        /\ r.pc \in {"configuration", "attestation", "final"} =>
              r.record.state = "revoked" \/ Restarted
        /\ r.pc = "final" =>
              \/ r.record.state = "revoked"
              \/ r.attested = None
              \/ r.attested.boot > 0
        /\ r.pc \notin {"checked", "dispatching"}

LateInv ==
    \A c \in Calls : call[c] \in Entered =>
        /\ LateOf(call[c])
        /\ call[c].tooLate => sent[c] = None

\* The times of gate, permit and dispatch.
AgeInv ==
    /\ gate.startedAt <= mono
    /\ gate.phase = "allowed" =>
          /\ permit.expiresAt = permit.issuedAt + Smaller(PermitCap, MaxStateAge)
          /\ permit.authorizedAt = gate.evaluatedAt + (permit.issuedAt - gate.startedAt)
          /\ permit.issuedAt <= mono
    /\ FreshAtDispatch

IInv == TypeInv /\ OneInside /\ EntryInv /\ LateInv /\ AgeInv

\* What the last checks have compared with the permit.
Compared(c) ==
    /\ call[c].taken["action"] = permit.bindings["hash"]
    /\ call[c].taken["state"] = 1
    /\ call[c].taken["release"] = 1

\* The permit is bound to the state and the release the policy judged, and
\* what passes the last checks to what the permit is bound to.
BoundInv ==
    /\ gate.phase = "allowed" =>
          permit.bindings["state"] = 1 /\ permit.bindings["release"] = 1
    /\ \A c \in Calls :
          /\ call[c].pc = "checked" \/ sent[c] # None => Compared(c)
          /\ sent[c] # None => sent[c].action = call[c].taken["action"]

-----------------------------------------------------------------------------
\* A call's record with another pc.
LEMMA Moved ==
    ASSUME NEW r \in Entered, NEW pc \in Inside \cup {"done"}
    PROVE  LET n == [r EXCEPT !.pc = pc] IN
           /\ n \in Entered /\ n.pc = pc
           /\ n.supplied = r.supplied /\ n.live = r.live /\ n.taken = r.taken
           /\ n.record = r.record /\ n.config = r.config /\ n.attested = r.attested
           /\ n.checkedAt = r.checkedAt /\ n.tooLate = r.tooLate
BY DEF Entered

LEMMA MovedOut ==
    ASSUME NEW r \in Outsiders
    PROVE  [r EXCEPT !.pc = "done"] \in Outsiders /\ [r EXCEPT !.pc = "done"].pc = "done"
BY DEF Outsiders

\* Neither clock runs the other back.
LEMMA ProjectedIs ==
    ASSUME TypeInv, gate.phase = "allowed", NEW supplied \in Nat \cup {Unset}
    PROVE  /\ ProjectedNow(supplied) \in Int
           /\ ProjectedNow(supplied) >= permit.authorizedAt + (mono - permit.issuedAt)
<1>1. /\ permit.authorizedAt \in Int /\ permit.issuedAt \in Int
      /\ mono \in Int /\ Wall \in Int
    BY DEF TypeInv, Permits, Wall
<1> QED
    BY <1>1 DEF ProjectedNow, Larger

-----------------------------------------------------------------------------
LEMMA InitInv == Init => IInv
<1> SUFFICES ASSUME Init PROVE IInv
    OBVIOUS
<1>1. record \in Records
    BY DEF Init, RecordIn, Records, Hash, ReleaseStates
<1>2. gate \in Gates
    BY <1>1 DEF Init, Gates, Phases, Requests, AsAssembled
<1>3. skew \in Nat
    BY GateAssumption DEF Init
<1>4. call \in [Calls -> Entered \cup Outsiders]
    BY DEF Init, Outsiders
<1>5. TypeInv
    BY <1>1, <1>2, <1>3, <1>4 DEF Init, TypeInv
<1>6. \A c \in Calls : call[c].pc = "idle" /\ sent[c] = None /\ ledger[c] = None
    BY DEF Init
<1>7. OneInside
    BY <1>6 DEF OneInside, Used, Inside
<1>8. EntryInv
    BY <1>6 DEF EntryInv
<1>9. LateInv
    BY <1>6 DEF LateInv, Entered, Inside
<1>10. AgeInv
    BY <1>6 DEF Init, AgeInv, FreshAtDispatch
<1> QED
    BY <1>5, <1>7, <1>8, <1>9, <1>10 DEF IInv

\* The world moves: clocks forward, restarts up, a revocation stays.
LEMMA WorldInv == ASSUME IInv, World PROVE IInv'
<1>1. UNCHANGED <<gate, permit, call, sent, ledger>>
    BY DEF World, Tick, Jump, Decide, Reconfigure, Restart, ChangeCapability, Disturb, Outside, calls
<1>2. mono' \in Nat /\ mono' >= mono
    BY DEF World, Tick, Jump, Decide, Reconfigure, Restart, ChangeCapability, Disturb, IInv, TypeInv
<1>3. skew' \in Nat
    BY GateAssumption DEF World, Tick, Jump, Decide, Reconfigure, Restart, ChangeCapability, IInv, TypeInv
<1>4. record' \in Records /\ (record.state = "revoked" => record'.state = "revoked")
    <2>1. CASE \E stage \in ReleaseStates : Decide(stage)
        <3>1. PICK stage \in ReleaseStates : Decide(stage)
            BY <2>1
        <3>2. record \in Records /\ stage \in Transitions[record.state] /\ stage # "approved"
            BY <3>1 DEF Decide, MayTransition, IInv, TypeInv
        <3>3. record' = [record EXCEPT !.state = stage]
            BY <3>1, <3>2 DEF Decide, TransitionRelease
        <3>4. record'.state = stage /\ record' \in Records
            BY <3>2, <3>3 DEF Records
        <3>5. record.state # "revoked"
            BY <3>2 DEF Transitions
        <3> QED
            BY <3>4, <3>5
    <2>2. CASE record' = record
        BY <2>2 DEF IInv, TypeInv
    <2> QED
        BY <2>1, <2>2 DEF World, Tick, Jump, Reconfigure, Restart, ChangeCapability, Disturb
<1>5. config' \in {"approved", "drifted"}
    BY DEF World, Tick, Jump, Decide, Reconfigure, Restart, ChangeCapability, IInv, TypeInv
<1>6. runtime' \in [boot : Nat, capable : BOOLEAN] /\ runtime'.boot >= runtime.boot
    <2>1. CASE Restart
        BY <2>1 DEF Restart, IInv, TypeInv
    <2>2. CASE ChangeCapability
        <3>1. /\ runtime \in [boot : Nat, capable : BOOLEAN]
              /\ runtime' = [runtime EXCEPT !.capable = (~runtime.capable)]
            BY <2>2 DEF ChangeCapability, IInv, TypeInv
        <3>2. PICK b \in BOOLEAN : runtime' = [runtime EXCEPT !.capable = b]
            <4>1. (~runtime.capable) \in BOOLEAN
                OBVIOUS
            <4> QED
                BY <3>1, <4>1, Zenon
        <3> QED
            BY <3>1, <3>2
    <2>3. CASE runtime' = runtime
        BY <2>3 DEF IInv, TypeInv
    <2> QED
        BY <2>1, <2>2, <2>3 DEF World, Tick, Jump, Decide, Reconfigure
<1>7. TypeInv'
    BY <1>1, <1>2, <1>3, <1>4, <1>5, <1>6 DEF IInv, TypeInv
<1>8. OneInside' /\ EntryInv'
    BY <1>1 DEF IInv, OneInside, Used, EntryInv
<1>9. LateInv'
    <2>1. runtime.boot \in Nat /\ runtime'.boot \in Nat
        BY <1>6 DEF IInv, TypeInv
    <2>2. Restarted => Restarted'
        BY <1>6, <2>1 DEF Restarted
    <2> QED
        BY <1>1, <1>4, <2>2 DEF IInv, LateInv, LateOf
<1>10. AgeInv'
    <2>1. /\ gate.startedAt \in Nat /\ mono \in Nat
          /\ gate.phase = "allowed" => permit.issuedAt \in Nat
        BY DEF IInv, TypeInv, Gates, Permits
    <2> QED
        BY <1>1, <1>2, <2>1 DEF IInv, AgeInv, FreshAtDispatch
<1> QED
    BY <1>7, <1>8, <1>9, <1>10 DEF IInv

\* The evaluation: only it issues a permit, before any call can be inside.
LEMMA EvaluationInv == ASSUME IInv, Evaluation PROVE IInv'
<1>1. /\ gate.phase # "allowed"
      /\ UNCHANGED <<mono, skew, record, config, runtime, call, sent, ledger>>
    BY DEF Evaluation, StartEvaluation, EditEvaluated, PolicyRefuses, PolicyAllows, world, settings
<1>2. \A c \in Calls : ~Used(c)
    BY <1>1 DEF IInv, OneInside
<1>3. mono \in Nat /\ skew \in Nat /\ Wall \in Nat /\ gate \in Gates
    BY DEF IInv, TypeInv, Wall
<1>4. /\ gate' \in Gates /\ gate'.startedAt <= mono
      /\ gate'.phase = "allowed" => PolicyAllows
      /\ PolicyAllows => /\ gate'.evaluatedAt = gate.evaluatedAt
                         /\ gate'.startedAt = gate.startedAt
    <2>1. CASE StartEvaluation
        <3>1. PICK phase \in {"deciding", "refused"} : gate' = [gate EXCEPT !.phase = phase,
                    !.startedAt = mono, !.evaluatedAt = Wall]
            BY <2>1 DEF StartEvaluation
        <3>2. gate' \in Gates /\ gate'.startedAt = mono /\ gate'.phase = phase
            BY <1>3, <3>1 DEF Gates, Phases
        <3>3. ~PolicyAllows
            BY <2>1 DEF StartEvaluation, PolicyAllows
        <3> QED
            BY <1>3, <3>2, <3>3
    <2>2. ASSUME NEW field \in EditedInEvaluation, EditEvaluated(field)
          PROVE  <1>4
        <3>1. gate.request \in Requests /\ field \in Fields
            BY <1>3, GateAssumption DEF Gates
        <3>2. gate' = [gate EXCEPT !.request = [gate.request EXCEPT ![field] = 2]]
            BY <2>2, <1>3 DEF EditEvaluated, Gates
        <3>3. [gate.request EXCEPT ![field] = 2] \in Requests
            BY <3>1 DEF Requests
        <3>4. /\ gate' \in Gates /\ gate'.startedAt = gate.startedAt /\ gate'.phase = gate.phase
              /\ gate'.evaluatedAt = gate.evaluatedAt
            BY <1>3, <3>2, <3>3 DEF Gates
        <3> QED
            BY <1>1, <3>4 DEF IInv, AgeInv
    <2>3. CASE PolicyRefuses \/ PolicyAllows
        <3>1. PICK phase \in {"allowed", "refused"} :
                 /\ gate' = [gate EXCEPT !.phase = phase]
                 /\ phase = "allowed" => PolicyAllows
            BY <2>3 DEF PolicyRefuses, PolicyAllows
        <3>2. /\ gate' \in Gates /\ gate'.startedAt = gate.startedAt /\ gate'.phase = phase
              /\ gate'.evaluatedAt = gate.evaluatedAt
            BY <1>3, <3>1 DEF Gates, Phases
        <3> QED
            BY <3>1, <3>2 DEF IInv, AgeInv
    <2> QED
        BY <2>1, <2>2, <2>3 DEF Evaluation
<1>5. gate'.phase # "allowed" => permit' = permit
    <2>1. CASE PolicyAllows
        <3>1. PICK phase \in {"allowed", "refused"} :
                 /\ gate' = [gate EXCEPT !.phase = phase]
                 /\ phase = "refused" => permit' = permit
            BY <2>1 DEF PolicyAllows
        <3>2. gate'.phase = phase
            BY <1>3, <3>1 DEF Gates
        <3> QED
            BY <3>1, <3>2
    <2> QED
        BY <2>1 DEF Evaluation, StartEvaluation, EditEvaluated, PolicyRefuses
<1>6. gate'.phase = "allowed" =>
         /\ permit' \in Permits
         /\ permit'.expiresAt = permit'.issuedAt + Smaller(PermitCap, MaxStateAge)
         /\ permit'.authorizedAt = gate'.evaluatedAt + (permit'.issuedAt - gate'.startedAt)
         /\ permit'.issuedAt = mono
    <2> SUFFICES ASSUME gate'.phase = "allowed"
                 PROVE  /\ permit' \in Permits
                        /\ permit'.expiresAt = permit'.issuedAt + Smaller(PermitCap, MaxStateAge)
                        /\ permit'.authorizedAt = gate.evaluatedAt + (permit'.issuedAt - gate.startedAt)
                        /\ permit'.issuedAt = mono
        BY <1>4
    <2>1. PolicyAllows
        BY <1>4
    <2>2. ~(gate' = [gate EXCEPT !.phase = "refused"])
        BY <1>3 DEF Gates
    <2>3. permit' = [held |-> TRUE, bindings |-> gate.request, evaluatedAt |-> gate.evaluatedAt,
                     authorizedAt |-> AuthorizationNow, issuedAt |-> mono,
                     expiresAt |-> mono + Smaller(PermitCap, MaxStateAge),
                     boot |-> FirstAttestation.boot]
        BY <2>1, <2>2 DEF PolicyAllows
    <2>4. /\ gate.request \in Requests /\ gate.evaluatedAt \in Nat /\ gate.startedAt \in Nat
          /\ Smaller(PermitCap, MaxStateAge) \in Nat
        BY <1>3, GateAssumption DEF Gates, Smaller
    <2>5. AuthorizationNow \in Int /\ FirstAttestation.boot = 0
        BY <1>3, <2>4 DEF AuthorizationNow, FirstAttestation
    <2> QED
        BY <1>3, <2>3, <2>4, <2>5 DEF Permits, AuthorizationNow
<1>7. gate'.phase # "allowed" => ~permit'.held
    BY <1>1, <1>5 DEF IInv, TypeInv
<1>8. TypeInv'
    BY <1>1, <1>4, <1>6, <1>7 DEF IInv, TypeInv
<1>9. OneInside' /\ EntryInv'
    BY <1>1, <1>2 DEF IInv, OneInside, Used, EntryInv
<1>10. LateInv'
    BY <1>1 DEF IInv, LateInv, LateOf, Restarted
<1>11. AgeInv'
    <2>1. \A c \in Calls : sent'[c] = None
        BY <1>1, <1>2 DEF Used
    <2> QED
        BY <1>1, <1>3, <1>4, <1>6, <2>1 DEF AgeInv, FreshAtDispatch
<1> QED
    BY <1>8, <1>9, <1>10, <1>11 DEF IInv

-----------------------------------------------------------------------------
\* A call that is inside goes on to a place before the dispatch.
LEMMA Forward ==
    ASSUME IInv, NEW c \in Calls, NEW new \in Entered,
           call[c].pc \in Inside \ {"dispatching"}, new.pc \in Inside \ {"dispatching"},
           call' = [call EXCEPT ![c] = new],
           UNCHANGED <<settings, gate, permit, sent, ledger>>,
           LateOf(new)
    PROVE  IInv'
<1>1. UNCHANGED <<mono, skew, record, config, runtime>>
    BY DEF settings
<1>2. /\ call' \in [Calls -> Entered \cup Outsiders] /\ call'[c] = new
      /\ \A d \in Calls \ {c} : call'[d] = call[d]
    BY DEF IInv, TypeInv
<1>3. TypeInv'
    BY <1>1, <1>2 DEF IInv, TypeInv
<1>4. Used(c) /\ \A d \in Calls : Used(d)' => Used(d)
    BY <1>2 DEF Used
<1>5. OneInside'
    BY <1>2, <1>4 DEF IInv, OneInside
<1>6. EntryInv'
    BY <1>2 DEF IInv, EntryInv, Inside
<1>7. LateInv'
    <2>1. sent[c] = None
        BY DEF IInv, EntryInv
    <2>2. \A r : LateOf(r) => LateOf(r)'
        BY <1>1 DEF LateOf, Restarted
    <2> QED
        BY <1>2, <2>1, <2>2 DEF IInv, LateInv
<1>8. AgeInv'
    BY <1>1 DEF IInv, AgeInv, FreshAtDispatch
<1> QED
    BY <1>3, <1>5, <1>6, <1>7, <1>8 DEF IInv

\* A call ends without a dispatch.
LEMMA Leave ==
    ASSUME IInv, NEW c \in Calls, call[c].pc \in (Inside \cup {"idle"}) \ {"dispatching"},
           Move(c, "done"),
           NEW entry \in {"not_sent", "lost"}, ledger' = [ledger EXCEPT ![c] = entry],
           UNCHANGED <<settings, gate, sent>>,
           \/ UNCHANGED permit
           \/ gate.phase = "allowed" /\ permit' = [permit EXCEPT !.held = FALSE]
    PROVE  IInv'
<1>1. UNCHANGED <<mono, skew, record, config, runtime>>
    BY DEF settings
<1>2. /\ call' \in [Calls -> Entered \cup Outsiders] /\ call'[c].pc = "done"
      /\ \A d \in Calls \ {c} : call'[d] = call[d]
      /\ call'[c] \in Entered => call[c] \in Entered /\ call'[c].tooLate = call[c].tooLate
    <2>1. call' = [call EXCEPT ![c] = [call[c] EXCEPT !.pc = "done"]]
        BY DEF Move, IInv, TypeInv
    <2>2. CASE call[c] \in Entered
        BY <2>1, <2>2, Moved DEF IInv, TypeInv
    <2>3. CASE call[c] \in Outsiders
        <3>1. [call[c] EXCEPT !.pc = "done"] \notin Entered
            BY <2>3 DEF Outsiders, Entered
        <3> QED
            BY <2>1, <2>3, <3>1, MovedOut DEF IInv, TypeInv
    <2> QED
        BY <2>2, <2>3 DEF IInv, TypeInv
<1>3. /\ gate.phase = "allowed" => permit' \in Permits
      /\ permit'.held => permit.held
      /\ gate.phase = "allowed" =>
            /\ permit'.issuedAt = permit.issuedAt /\ permit'.expiresAt = permit.expiresAt
            /\ permit'.authorizedAt = permit.authorizedAt
    BY DEF IInv, TypeInv, Permits
<1>4. ledger' \in [Calls -> {None, "not_sent", "attempted", "lost"}] /\ ledger'[c] = entry
      /\ \A d \in Calls \ {c} : ledger'[d] = ledger[d]
    BY DEF IInv, TypeInv
<1>5. TypeInv'
    BY <1>1, <1>2, <1>3, <1>4 DEF IInv, TypeInv
<1>6. sent[c] = None /\ \A d \in Calls : Used(d)' => d # c /\ Used(d)
    BY <1>2 DEF IInv, EntryInv, Used, Inside
<1>7. OneInside'
    BY <1>2, <1>3, <1>6 DEF IInv, OneInside
<1>8. EntryInv'
    BY <1>2, <1>4, <1>6 DEF IInv, EntryInv, Inside
<1>9. LateInv'
    <2>1. ASSUME NEW d \in Calls
          PROVE  (call[d] \in Entered => LateOf(call[d]) /\ (call[d].tooLate => sent[d] = None))'
        <3>1. CASE d = c
            BY <1>1, <1>2, <1>6, <3>1 DEF IInv, LateInv, LateOf, Restarted
        <3>2. CASE d # c
            BY <1>1, <1>2, <3>2 DEF IInv, LateInv, LateOf, Restarted
        <3> QED
            BY <3>1, <3>2
    <2> QED
        BY <2>1 DEF LateInv
<1>10. AgeInv'
    BY <1>1, <1>3 DEF IInv, AgeInv, FreshAtDispatch
<1> QED
    BY <1>5, <1>7, <1>8, <1>9, <1>10 DEF IInv

-----------------------------------------------------------------------------
\* The steps of a call.

\* The permit leaves the map with the first call that gets in.
LEMMA ExecuteInv ==
    ASSUME IInv, NEW c \in Calls, NEW request \in Presentable, NEW supplied \in {Unset, Wall},
           Execute(c, request, supplied)
    PROVE  IInv'
<1>1. /\ gate.phase = "allowed" /\ call[c].pc = "idle"
      /\ permit' = [permit EXCEPT !.held = FALSE]
    BY DEF Execute
<1>2. CASE ~EntryChecks(supplied)
    <2>1. Reject(c, EntryTime(supplied))
        BY <1>2 DEF Execute
    <2>2. PICK entry \in {"not_sent", "lost"} : ledger' = [ledger EXCEPT ![c] = entry]
        BY <2>1 DEF Reject, Append
    <2> QED
        BY <1>1, <2>1, <2>2, Leave DEF Reject
<1>3. CASE EntryChecks(supplied)
    <2>1. /\ Enter(c, request, supplied) /\ permit.held
          /\ UNCHANGED <<settings, gate, sent, ledger>>
        BY <1>3 DEF Execute, EntryChecks, world
    <2> DEFINE Late == record.state = "revoked" \/ runtime.boot # permit.boot
               Made(b) == [pc |-> "preflight", supplied |-> supplied, live |-> request,
                           taken |-> Restrict(request, {"action", "state", "release"}),
                           record |-> gate.releaseRecord, config |-> None,
                           attested |-> None, checkedAt |-> 0, tooLate |-> b]
    <2>16. PICK b \in BOOLEAN : (b => Late) /\ call' = [call EXCEPT ![c] = Made(b)]
        <3>1. call' = [call EXCEPT ![c] = Made(Late)]
            BY <2>1 DEF Enter
        <3>2. Late \in BOOLEAN
            OBVIOUS
        <3> HIDE DEF Made, Late
        <3> QED
            BY <3>1, <3>2, Zenon
    <2> DEFINE new == Made(b)
    <2>2. call' = [call EXCEPT ![c] = new]
        BY <2>16
    <2>3. permit \in Permits /\ permit.boot = 0 /\ gate.releaseRecord \in Records
        BY <1>1 DEF IInv, TypeInv, Permits, Gates
    <2>4. new \in Entered /\ new.pc = "preflight"
        <3>1. supplied \in Nat \cup {Unset} /\ request \in Requests
            BY DEF IInv, TypeInv, Wall, Presentable, Requests
        <3>2. Restrict(request, {"action", "state", "release"})
                 \in [{"action", "state", "release"} -> {1, 2}]
            BY <3>1 DEF Restrict, Requests, Fields
        <3> QED
            BY <2>3, <3>1, <3>2 DEF Entered, Inside, Observations, Attestations
    <2>5. new.tooLate => record.state = "revoked" \/ Restarted
        <3>1. runtime.boot \in Nat
            BY DEF IInv, TypeInv
        <3>2. new.tooLate => Late
            <4>1. b => Late
                BY <2>16
            <4>2. new.tooLate = b
                OBVIOUS
            <4> HIDE DEF Late, new
            <4> QED
                BY <4>1, <4>2
        <3> QED
            BY <2>3, <3>1, <3>2 DEF Restarted
    <2> HIDE DEF new
    <2>6. /\ call' \in [Calls -> Entered \cup Outsiders] /\ call'[c] = new
          /\ \A d \in Calls \ {c} : call'[d] = call[d]
        BY <2>2, <2>4 DEF IInv, TypeInv
    <2>7. /\ permit' \in Permits /\ ~permit'.held
          /\ permit'.issuedAt = permit.issuedAt /\ permit'.expiresAt = permit.expiresAt
          /\ permit'.authorizedAt = permit.authorizedAt
        BY <1>1, <2>3 DEF Permits
    <2>8. UNCHANGED <<mono, skew, record, config, runtime, gate, sent, ledger>>
        BY <2>1 DEF settings
    <2>9. TypeInv'
        BY <1>1, <2>6, <2>7, <2>8 DEF IInv, TypeInv
    <2>10. \A d \in Calls : ~Used(d)
        BY <2>1 DEF IInv, OneInside
    <2>11. \A d \in Calls : Used(d)' => d = c
        BY <2>6, <2>8, <2>10 DEF Used
    <2>12. OneInside'
        BY <1>1, <2>4, <2>6, <2>7, <2>8, <2>11 DEF OneInside
    <2>13. EntryInv'
        BY <1>1, <2>4, <2>6, <2>8 DEF IInv, EntryInv, Inside
    <2>14. LateInv'
        <3>1. sent[c] = None
            BY <1>1 DEF IInv, EntryInv
        <3>2. LateOf(new)
            BY <2>4, <2>5 DEF LateOf
        <3>3. \A r : LateOf(r) => LateOf(r)'
            BY <2>8 DEF LateOf, Restarted
        <3> QED
            BY <2>6, <2>8, <3>1, <3>2, <3>3 DEF IInv, LateInv
    <2>15. AgeInv'
        BY <1>1, <2>7, <2>8 DEF IInv, AgeInv, FreshAtDispatch
    <2> QED
        BY <2>9, <2>12, <2>13, <2>14, <2>15 DEF IInv
<1> QED
    BY <1>2, <1>3

\* Who is between entry and dispatch has entered, with the permit out of the map.
LEMMA InsideIs ==
    ASSUME IInv, NEW c \in Calls, call[c].pc \in Inside
    PROVE  /\ call[c] \in Entered /\ gate.phase = "allowed"
           /\ permit \in Permits /\ ~permit.held
           /\ LateOf(call[c])
<1>1. call[c] \in Entered /\ gate.phase = "allowed" /\ ~permit.held
    BY DEF IInv, OneInside, Used
<1> QED
    BY <1>1 DEF IInv, TypeInv, LateInv

LEMMA SinkWritableInv == ASSUME IInv, NEW c \in Calls, SinkWritable(c) PROVE IInv'
<1> DEFINE r == call[c]
           new == [r EXCEPT !.pc = "record"]
<1>1. r.pc = "preflight" /\ r \in Entered /\ LateOf(r)
    BY InsideIs DEF SinkWritable, Inside
<1>2. /\ new \in Entered /\ new.pc = "record" /\ new.tooLate = r.tooLate
    BY <1>1, Moved DEF Inside
<1>3. call' = [call EXCEPT ![c] = new] /\ UNCHANGED <<settings, gate, permit, sent, ledger>>
    BY DEF SinkWritable, Move, IInv, TypeInv, world
<1> HIDE DEF new
<1>4. LateOf(new)
    BY <1>1, <1>2 DEF LateOf
<1> QED
    BY <1>1, <1>2, <1>3, <1>4, Forward DEF Inside

LEMMA EditPresentedInv ==
    ASSUME IInv, NEW c \in Calls, NEW field \in Fields, EditPresented(c, field)
    PROVE  IInv'
<1> DEFINE r == call[c]
           edited == [r.live EXCEPT ![field] = 3 - @]
           new == [r EXCEPT !.live = edited]
<1>1. /\ r.pc \in Inside \ {"checked", "dispatching"}
      /\ call' = [call EXCEPT ![c].live[field] = 3 - @]
      /\ UNCHANGED <<settings, gate, permit, sent, ledger>>
    BY DEF EditPresented, Inside, world
<1>2. r \in Entered /\ LateOf(r)
    BY <1>1, InsideIs
<1>3. edited \in Requests
    BY <1>2 DEF Entered, Requests
<1>4. call' = [call EXCEPT ![c] = new]
    BY <1>1, <1>2 DEF IInv, TypeInv, Entered, Requests
<1> HIDE DEF edited
<1>5. /\ new \in Entered /\ new.pc = r.pc /\ new.tooLate = r.tooLate
      /\ new.record = r.record /\ new.attested = r.attested
    BY <1>2, <1>3 DEF Entered
<1> HIDE DEF new
<1>6. LateOf(new)
    BY <1>2, <1>5 DEF LateOf
<1> QED
    BY <1>1, <1>4, <1>5, <1>6, Forward

\* The record is read again: a revocation before the entry is in it.
LEMMA RefreshRecordInv == ASSUME IInv, NEW c \in Calls, RefreshRecord(c) PROVE IInv'
<1> DEFINE r == call[c]
           new == [r EXCEPT !.record = record, !.pc = "configuration"]
<1>1. r.pc = "record" /\ r \in Entered /\ LateOf(r)
    BY InsideIs DEF RefreshRecord, Inside
<1>2. /\ new \in Entered /\ new.pc = "configuration" /\ new.tooLate = r.tooLate
      /\ new.record = record
    BY <1>1 DEF Entered, Inside, IInv, TypeInv
<1>3. call' = [call EXCEPT ![c] = new] /\ UNCHANGED <<settings, gate, permit, sent, ledger>>
    BY DEF RefreshRecord, IInv, TypeInv, world
<1> HIDE DEF new
<1>4. LateOf(new)
    BY <1>1, <1>2 DEF LateOf
<1> QED
    BY <1>1, <1>2, <1>3, <1>4, Forward DEF Inside

LEMMA RefreshConfigurationInv ==
    ASSUME IInv, NEW c \in Calls, RefreshConfiguration(c) PROVE IInv'
<1> DEFINE r == call[c]
<1>1. r.pc = "configuration" /\ r \in Entered /\ LateOf(r)
    BY InsideIs DEF RefreshConfiguration, Inside
<1>2. PICK observed \in {None, [digest |-> config, at |-> Wall]} :
         call' = [call EXCEPT ![c].config = observed, ![c].pc = "attestation"]
    BY DEF RefreshConfiguration
<1>3. observed \in Observations
    BY DEF Observations, Wall, IInv, TypeInv
<1> DEFINE new == [r EXCEPT !.config = observed, !.pc = "attestation"]
<1>4. /\ new \in Entered /\ new.pc = "attestation" /\ new.tooLate = r.tooLate
      /\ new.record = r.record
    BY <1>1, <1>3 DEF Entered, Inside
<1>5. call' = [call EXCEPT ![c] = new] /\ UNCHANGED <<settings, gate, permit, sent, ledger>>
    BY <1>2 DEF RefreshConfiguration, IInv, TypeInv, world
<1> HIDE DEF new
<1>6. LateOf(new)
    BY <1>1, <1>4 DEF LateOf
<1> QED
    BY <1>1, <1>4, <1>5, <1>6, Forward DEF Inside

\* The runtime is read again: a restart before the entry is in its incarnation.
LEMMA RefreshAttestationInv ==
    ASSUME IInv, NEW c \in Calls, RefreshAttestation(c) PROVE IInv'
<1> DEFINE r == call[c]
<1>1. r.pc = "attestation" /\ r \in Entered /\ LateOf(r)
    BY InsideIs DEF RefreshAttestation, Inside
<1>2. PICK observed \in {None, [boot |-> runtime.boot, at |-> Wall, capable |-> runtime.capable]} :
         call' = [call EXCEPT ![c].attested = observed, ![c].pc = "final"]
    BY DEF RefreshAttestation
<1>3. observed \in Attestations /\ (observed = None \/ observed.boot = runtime.boot)
    <2>1. [boot |-> runtime.boot, at |-> Wall, capable |-> runtime.capable]
             \in [boot : Nat, capable : BOOLEAN, at : Nat]
        BY DEF Wall, IInv, TypeInv
    <2> QED
        BY <2>1 DEF Attestations
<1> DEFINE new == [r EXCEPT !.attested = observed, !.pc = "final"]
<1>4. /\ new \in Entered /\ new.pc = "final" /\ new.tooLate = r.tooLate
      /\ new.record = r.record /\ new.attested = observed
    BY <1>1, <1>3 DEF Entered, Inside
<1>5. call' = [call EXCEPT ![c] = new] /\ UNCHANGED <<settings, gate, permit, sent, ledger>>
    BY <1>2 DEF RefreshAttestation, IInv, TypeInv, world
<1> HIDE DEF new
<1>6. LateOf(new)
    BY <1>1, <1>3, <1>4 DEF LateOf, Restarted
<1> QED
    BY <1>1, <1>4, <1>5, <1>6, Forward DEF Inside

LEMMA RefusedInv ==
    ASSUME IInv, NEW c \in Calls, call[c].pc \in Inside \ {"dispatching"}, NEW at,
           Reject(c, at), UNCHANGED permit
    PROVE  IInv'
<1>1. PICK entry \in {"not_sent", "lost"} : ledger' = [ledger EXCEPT ![c] = entry]
    BY DEF Reject, Append
<1> QED
    BY <1>1, Leave DEF Reject

LEMMA SinkFullInv == ASSUME IInv, NEW c \in Calls, SinkFull(c) PROVE IInv'
<1>1. call[c].pc = "preflight" /\ UNCHANGED <<settings, gate, permit, sent>>
      /\ Move(c, "done") /\ ledger' = [ledger EXCEPT ![c] = "lost"]
    BY DEF SinkFull, world
<1> QED
    BY <1>1, Leave DEF Inside

LEMMA RefreshRecordFailsInv == ASSUME IInv, NEW c \in Calls, RefreshRecordFails(c) PROVE IInv'
BY RefusedInv DEF RefreshRecordFails, Inside

\* Whoever passes the last checks holds a record that is in use and the
\* incarnation the permit was issued for.
LEMMA CheckedIsTimely ==
    ASSUME IInv, NEW c \in Calls, call[c].pc = "final", Current(c), Bound(c)
    PROVE  ~call[c].tooLate
<1>1. /\ call[c] \in Entered /\ permit \in Permits /\ LateOf(call[c])
    BY InsideIs DEF Inside
<1>2. call[c].record.state # "revoked"
    BY DEF Current, Eligible, Eligibility
<1>3. call[c].attested # None
    BY DEF Current, AttestationAllowed
<1>4. call[c].attested.boot = 0
    BY <1>1 DEF Bound, Permits
<1> QED
    BY <1>1, <1>2, <1>3, <1>4 DEF LateOf

LEMMA FinalCheckInv == ASSUME IInv, NEW c \in Calls, FinalCheck(c) PROVE IInv'
<1>1. call[c].pc = "final" /\ UNCHANGED permit
    BY DEF FinalCheck
<1>2. CASE ~(Current(c) /\ Bound(c))
    <2>1. Reject(c, ProjectedNow(call[c].supplied))
        BY <1>2 DEF FinalCheck
    <2> QED
        BY <1>1, <2>1, RefusedInv DEF Inside
<1>3. CASE Current(c) /\ Bound(c)
    <2> DEFINE r == call[c]
               new == [r EXCEPT !.pc = "checked", !.checkedAt = ProjectedNow(r.supplied)]
    <2>1. r \in Entered /\ gate.phase = "allowed"
        BY <1>1, InsideIs DEF Inside
    <2>2. ~r.tooLate
        BY <1>1, <1>3, CheckedIsTimely
    <2>3. r.supplied \in Nat \cup {Unset}
        BY <2>1 DEF Entered
    <2>4. ProjectedNow(r.supplied) \in Int
        BY <2>1, <2>3, ProjectedIs DEF IInv
    <2>5. new \in Entered /\ new.pc = "checked" /\ new.tooLate = r.tooLate
        BY <2>1, <2>4 DEF Entered, Inside
    <2>6. call' = [call EXCEPT ![c] = new] /\ UNCHANGED <<settings, gate, permit, sent, ledger>>
        BY <1>1, <1>3 DEF FinalCheck, IInv, TypeInv, world
    <2> HIDE DEF new
    <2>7. LateOf(new)
        BY <2>2, <2>5 DEF LateOf
    <2> QED
        BY <1>1, <2>5, <2>6, <2>7, Forward DEF Inside
<1> QED
    BY <1>2, <1>3

\* The one dispatch, in time on the monotonic clock.
LEMMA PreDispatchInv == ASSUME IInv, NEW c \in Calls, PreDispatch(c) PROVE IInv'
<1> DEFINE r == call[c]
           now == ProjectedNow(r.supplied)
           new == [r EXCEPT !.pc = "dispatching"]
           send == [action |-> r.taken["action"], at |-> mono, dispatchedAt |-> now]
           InTime == Current(c) /\ AttestationAllowed(FirstAttestation, now)
<1>1. r.pc = "checked" /\ UNCHANGED permit
    BY DEF PreDispatch
<1>2. CASE ~InTime
    <2>1. Reject(c, IF mono < permit.expiresAt THEN now ELSE r.checkedAt)
        BY <1>2 DEF PreDispatch
    <2> QED
        BY <1>1, <2>1, RefusedInv DEF Inside
<1>3. CASE InTime
    <2>1. /\ r \in Entered /\ gate.phase = "allowed" /\ permit \in Permits /\ ~permit.held
          /\ LateOf(r)
        BY <1>1, InsideIs DEF Inside
    <2>2. r.supplied \in Nat \cup {Unset} /\ r.taken["action"] \in {1, 2}
        BY <2>1 DEF Entered
    <2>3. now \in Int /\ now >= permit.authorizedAt + (mono - permit.issuedAt)
        BY <2>1, <2>2, ProjectedIs DEF IInv
    <2>4. mono < permit.expiresAt /\ now - Skew0 <= MaxStateAge
        BY <1>3 DEF Current, Fresh
    <2>5. /\ call' = [call EXCEPT ![c] = new] /\ sent' = [sent EXCEPT ![c] = send]
          /\ UNCHANGED <<settings, gate, permit, ledger>>
        BY <1>1, <1>3 DEF PreDispatch, Move, IInv, TypeInv, world
    <2>6. new \in Entered /\ new.pc = "dispatching" /\ new.tooLate = r.tooLate
        BY <2>1, Moved DEF Inside
    <2>7. mono \in Nat /\ Skew0 \in Nat /\ MaxStateAge \in Nat
        BY GateAssumption DEF IInv, TypeInv
    <2>8. /\ send \in Sends /\ send # None
          /\ send.at = mono
        BY <2>2, <2>3, <2>7, NoneAssumption DEF Sends
    <2> HIDE DEF new, send
    <2>9. UNCHANGED <<mono, skew, record, config, runtime>>
        BY <2>5 DEF settings
    <2>10. /\ call' \in [Calls -> Entered \cup Outsiders] /\ call'[c] = new
           /\ \A d \in Calls \ {c} : call'[d] = call[d]
           /\ sent' \in [Calls -> Sends \cup {None}] /\ sent'[c] = send
           /\ \A d \in Calls \ {c} : sent'[d] = sent[d]
        BY <2>5, <2>6, <2>8 DEF IInv, TypeInv
    <2>11. TypeInv'
        BY <2>5, <2>9, <2>10 DEF IInv, TypeInv
    <2>12. Used(c)
        BY <1>1 DEF Used, Inside
    <2>13. \A d \in Calls : d # c => ~Used(d) /\ sent[d] = None
        BY <2>12 DEF IInv, OneInside, Used
    <2>14. \A d \in Calls : Used(d)' => d = c
        BY <2>10, <2>13 DEF Used
    <2>15. OneInside'
        BY <2>1, <2>5, <2>6, <2>10, <2>14 DEF OneInside
    <2>16. EntryInv'
        BY <1>1, <2>5, <2>6, <2>8, <2>10 DEF IInv, EntryInv, Inside
    <2>17. LateInv'
        <3>1. ~r.tooLate
            BY <1>1, <2>1 DEF LateOf
        <3>2. \A q : LateOf(q) => LateOf(q)'
            BY <2>9 DEF LateOf, Restarted
        <3>3. LateOf(new)
            BY <2>6, <3>1 DEF LateOf
        <3> QED
            BY <2>6, <2>10, <3>1, <3>2, <3>3 DEF IInv, LateInv
    <2>18. AgeInv'
        <3>1. /\ permit.expiresAt = permit.issuedAt + Smaller(PermitCap, MaxStateAge)
              /\ permit.authorizedAt = gate.evaluatedAt + (permit.issuedAt - gate.startedAt)
              /\ gate.evaluatedAt \in Nat /\ gate.startedAt \in Nat
              /\ permit.issuedAt \in Nat
            BY <2>1 DEF IInv, AgeInv, TypeInv, Gates, Permits
        <3>2. /\ mono < permit.issuedAt + Smaller(PermitCap, MaxStateAge)
              /\ mono + (gate.evaluatedAt - gate.startedAt) <= MaxStateAge + Skew0
            BY <2>3, <2>4, <2>7, <3>1
        <3>3. FreshAtDispatch'
            BY <2>5, <2>8, <2>10, <2>13, <3>2 DEF FreshAtDispatch
        <3> QED
            BY <2>5, <2>9, <3>3 DEF IInv, AgeInv
    <2> QED
        BY <2>11, <2>15, <2>16, <2>17, <2>18 DEF IInv
<1> QED
    BY <1>2, <1>3

LEMMA DispatchSettlesInv == ASSUME IInv, NEW c \in Calls, DispatchSettles(c) PROVE IInv'
<1> DEFINE r == call[c]
           new == [r EXCEPT !.pc = "done"]
<1>1. r.pc = "dispatching" /\ r \in Entered /\ LateOf(r) /\ gate.phase = "allowed"
      /\ permit \in Permits
    BY InsideIs DEF DispatchSettles, Inside
<1>2. new \in Entered /\ new.pc = "done" /\ new.tooLate = r.tooLate
    BY <1>1, Moved
<1>3. /\ call' = [call EXCEPT ![c] = new] /\ UNCHANGED <<settings, gate, permit, sent>>
    BY DEF DispatchSettles, Move, IInv, TypeInv, world
<1>4. PICK entry \in {"attempted", "lost"} : ledger' = [ledger EXCEPT ![c] = entry]
    BY DEF DispatchSettles, Append
<1> HIDE DEF new
<1>5. UNCHANGED <<mono, skew, record, config, runtime>>
    BY <1>3 DEF settings
<1>6. /\ call' \in [Calls -> Entered \cup Outsiders] /\ call'[c] = new
      /\ \A d \in Calls \ {c} : call'[d] = call[d]
      /\ ledger' \in [Calls -> {None, "not_sent", "attempted", "lost"}] /\ ledger'[c] = entry
      /\ \A d \in Calls \ {c} : ledger'[d] = ledger[d]
    BY <1>2, <1>3, <1>4 DEF IInv, TypeInv
<1>7. TypeInv'
    BY <1>3, <1>5, <1>6 DEF IInv, TypeInv
<1>8. sent[c] # None /\ ~r.tooLate
    BY <1>1 DEF IInv, EntryInv, LateOf
<1>9. Used(c) /\ \A d \in Calls : Used(d)' => Used(d)
    BY <1>2, <1>3, <1>6, <1>8 DEF Used, Inside
<1>10. OneInside'
    BY <1>2, <1>3, <1>6, <1>9 DEF IInv, OneInside
<1>11. EntryInv'
    BY <1>2, <1>3, <1>6, <1>8 DEF IInv, EntryInv, Inside
<1>12. LateInv'
    <2>1. \A q : LateOf(q) => LateOf(q)'
        BY <1>5 DEF LateOf, Restarted
    <2>2. LateOf(new)
        BY <1>2, <1>8 DEF LateOf
    <2> QED
        BY <1>2, <1>3, <1>6, <1>8, <2>1, <2>2 DEF IInv, LateInv
<1>13. AgeInv'
    BY <1>3, <1>5 DEF IInv, AgeInv, FreshAtDispatch
<1> QED
    BY <1>7, <1>10, <1>11, <1>12, <1>13 DEF IInv

LEMMA StepInv == ASSUME IInv, [Next]_vars PROVE IInv'
<1>1. CASE World
    BY <1>1, WorldInv
<1>2. CASE Evaluation
    BY <1>2, EvaluationInv
<1>3. ASSUME NEW c \in Calls, ExecuteCall(c) PROVE IInv'
    <2>1. CASE \E request \in Presentable, supplied \in {Unset, Wall} : Execute(c, request, supplied)
        BY <2>1, ExecuteInv
    <2>2. CASE SinkWritable(c) \/ SinkFull(c)
        BY <2>2, SinkWritableInv, SinkFullInv
    <2>3. CASE RefreshRecord(c) \/ RefreshRecordFails(c)
        BY <2>3, RefreshRecordInv, RefreshRecordFailsInv
    <2>4. CASE RefreshConfiguration(c) \/ RefreshAttestation(c)
        BY <2>4, RefreshConfigurationInv, RefreshAttestationInv
    <2>5. CASE FinalCheck(c) \/ PreDispatch(c) \/ DispatchSettles(c)
        BY <2>5, FinalCheckInv, PreDispatchInv, DispatchSettlesInv
    <2>6. CASE \E field \in Fields : EditPresented(c, field)
        BY <2>6, EditPresentedInv
    <2> QED
        BY <1>3, <2>1, <2>2, <2>3, <2>4, <2>5, <2>6 DEF ExecuteCall
<1>4. CASE UNCHANGED vars
    <2>1. UNCHANGED <<mono, skew, record, config, runtime, gate, permit, call, sent, ledger>>
        BY <1>4 DEF vars, world, settings, calls
    <2>2. TypeInv' /\ OneInside' /\ EntryInv' /\ AgeInv'
        BY <2>1 DEF IInv, TypeInv, OneInside, Used, EntryInv, AgeInv, FreshAtDispatch
    <2>3. LateInv'
        BY <2>1 DEF IInv, LateInv, LateOf, Restarted
    <2> QED
        BY <2>2, <2>3 DEF IInv
<1> QED
    BY <1>1, <1>2, <1>3, <1>4 DEF Next

\* The inductive invariant holds in every behaviour.
THEOREM Invariance == Spec => []IInv
<1>1. Init => IInv
    BY InitInv
<1>2. IInv /\ [Next]_vars => IInv'
    BY StepInv
<1> QED
    BY <1>1, <1>2, PTL DEF Spec

-----------------------------------------------------------------------------
\* A permit reaches the dispatcher at most once, however many execute calls
\* present it: it is out of the map before the first of them awaits anything.
THEOREM OncePerPermit == Spec => []DispatchOncePerPermit
<1>1. IInv => DispatchOncePerPermit
    BY DEF IInv, OneInside, Used, DispatchOncePerPermit
<1> QED
    BY <1>1, Invariance, PTL

\* An entry of the ledger says of a dispatch what happened, whatever fails
\* between the dispatch and the entry.
THEOREM LedgerTruthful == Spec => []EvidenceTruthful
<1>1. IInv => EvidenceTruthful
    <2> SUFFICES ASSUME IInv, NEW c \in Calls
                 PROVE  /\ ledger[c] = "not_sent" => sent[c] = None
                        /\ ledger[c] = "attempted" => sent[c] # None
                        /\ sent[c] # None /\ call[c].pc = "done" =>
                              ledger[c] \in {"attempted", "lost"}
        BY DEF EvidenceTruthful
    <2>1. CASE call[c].pc = "done"
        BY <2>1 DEF IInv, EntryInv
    <2>2. CASE call[c].pc # "done"
        BY <2>2, NoneAssumption DEF IInv, EntryInv
    <2> QED
        BY <2>1, <2>2
<1> QED
    BY <1>1, Invariance, PTL

\* A release revoked or a runtime restarted before execute is never commanded:
\* execute reads both again, after its entry.
THEOREM NeverTooLate == Spec => []NothingSentTooLate
<1>1. IInv => NothingSentTooLate
    <2> SUFFICES ASSUME IInv, NEW c \in Calls, sent[c] # None PROVE ~call[c].tooLate
        BY DEF NothingSentTooLate
    <2>1. call[c] \in Entered
        BY DEF IInv, OneInside, Used
    <2> QED
        BY <2>1 DEF IInv, LateInv
<1> QED
    BY <1>1, Invariance, PTL

\* The dispatch falls inside the permit's life and the age limit of the state
\* on the monotonic clock, whatever the wall clock does after the evaluation.
THEOREM FreshByMonotonicClock == Spec => []FreshAtDispatch
<1>1. IInv => FreshAtDispatch
    BY DEF IInv, AgeInv
<1> QED
    BY <1>1, Invariance, PTL

LEMMA BoundInit == Init => BoundInv
BY DEF Init, BoundInv

\* The permit is issued only if state and release are still what was judged.
LEMMA BoundEvaluation ==
    ASSUME IInv, BoundInv, Evaluation PROVE BoundInv'
<1>1. gate \in Gates /\ gate.phase # "allowed"
    BY DEF IInv, TypeInv, Evaluation, StartEvaluation, EditEvaluated, PolicyRefuses, PolicyAllows
<1>2. UNCHANGED <<call, sent>>
    BY DEF Evaluation, StartEvaluation, EditEvaluated, PolicyRefuses, PolicyAllows
<1>3. \A c \in Calls : ~Used(c)
    BY <1>1 DEF IInv, OneInside
<1>4. \A c \in Calls : call'[c].pc # "checked" /\ sent'[c] = None
    BY <1>2, <1>3 DEF Used, Inside
<1>5. gate'.phase = "allowed" => permit'.bindings["state"] = 1 /\ permit'.bindings["release"] = 1
    <2>1. CASE StartEvaluation
        <3>1. PICK phase \in {"deciding", "refused"} : gate' = [gate EXCEPT !.phase = phase,
                    !.startedAt = mono, !.evaluatedAt = Wall]
            BY <2>1 DEF StartEvaluation
        <3> QED
            BY <1>1, <3>1 DEF Gates
    <2>2. ASSUME NEW field \in EditedInEvaluation, EditEvaluated(field)
          PROVE  gate'.phase # "allowed"
        <3>1. gate' = [gate EXCEPT !.request = [gate.request EXCEPT ![field] = 2]]
            BY <1>1, <2>2 DEF EditEvaluated, Gates
        <3> QED
            BY <1>1, <3>1 DEF Gates
    <2>3. CASE PolicyRefuses \/ PolicyAllows
        <3>1. PICK phase \in {"allowed", "refused"} :
                 /\ gate' = [gate EXCEPT !.phase = phase]
                 /\ phase = "allowed" => permit'.bindings = gate.request /\ UnchangedWhileDeciding
            BY <2>3 DEF PolicyRefuses, PolicyAllows
        <3>2. gate'.phase = phase
            BY <1>1, <3>1 DEF Gates
        <3> QED
            BY <3>1, <3>2 DEF UnchangedWhileDeciding
    <2> QED
        BY <2>1, <2>2, <2>3 DEF Evaluation
<1> QED
    BY <1>4, <1>5 DEF BoundInv

\* Of the steps of a call two touch what is compared: the last checks, which
\* hash the captured action again, and the dispatch of what they passed.
LEMMA BoundCall ==
    ASSUME IInv, BoundInv, NEW c \in Calls, ExecuteCall(c) PROVE BoundInv'
<1>1. gate' = gate
    BY DEF ExecuteCall, Execute, Enter, Reject, SinkWritable, SinkFull, RefreshRecord,
           RefreshRecordFails, RefreshConfiguration, RefreshAttestation, FinalCheck, PreDispatch,
           DispatchSettles, EditPresented
<1>2. gate.phase = "allowed" => permit'.bindings = permit.bindings
    <2>1. permit' = permit \/ permit' = [permit EXCEPT !.held = FALSE]
        BY DEF ExecuteCall, Execute, SinkWritable, SinkFull, RefreshRecord,
               RefreshRecordFails, RefreshConfiguration, RefreshAttestation, FinalCheck,
               PreDispatch, DispatchSettles, EditPresented
    <2> QED
        BY <2>1 DEF IInv, TypeInv, Permits
<1>3. \A d \in Calls \ {c} : call'[d] = call[d] /\ sent'[d] = sent[d]
    <2>1. DOMAIN call = Calls /\ DOMAIN sent = Calls
        BY DEF IInv, TypeInv
    <2>2. \A d \in Calls \ {c} : call'[d] = call[d]
        BY <2>1 DEF ExecuteCall, Execute, Enter, Reject, Move, SinkWritable, SinkFull, RefreshRecord,
               RefreshRecordFails, RefreshConfiguration, RefreshAttestation, FinalCheck,
               PreDispatch, DispatchSettles, EditPresented
    <2>3. sent' = sent \/ PreDispatch(c)
        BY DEF ExecuteCall, Execute, Reject, SinkWritable, SinkFull, RefreshRecord,
               RefreshRecordFails, RefreshConfiguration, RefreshAttestation, FinalCheck,
               DispatchSettles, EditPresented
    <2>4. PreDispatch(c) => \A d \in Calls \ {c} : sent'[d] = sent[d]
        BY <2>1 DEF PreDispatch, Reject
    <2> QED
        BY <2>2, <2>3, <2>4
<1>4. \A d \in Calls : call[d].pc = "checked" \/ sent[d] # None =>
         call[d] \in Entered /\ gate.phase = "allowed"
    BY DEF IInv, OneInside, Used, Inside
<1>5. \A d \in Calls : call[d].pc = "checked" \/ sent[d] # None =>
         /\ Compared(d)
         /\ permit'.bindings = permit.bindings
    BY <1>2, <1>4 DEF BoundInv
<1>6. /\ call'[c].pc = "checked" \/ sent'[c] # None => Compared(c)'
      /\ sent'[c] # None => sent'[c].action = call'[c].taken["action"]
    <2>1. CASE FinalCheck(c)
        <3>1. call[c].pc = "final" /\ sent' = sent
            BY <2>1 DEF FinalCheck, Reject
        <3>2. call[c] \in Entered /\ gate.phase = "allowed"
            BY <3>1, InsideIs DEF Inside
        <3>3. sent[c] = None
            BY <3>1 DEF IInv, EntryInv, Inside
        <3>4. CASE Current(c) /\ Bound(c)
            <4>1. call'[c].taken = call[c].taken
                BY <2>1, <3>2, <3>4 DEF FinalCheck, IInv, TypeInv, Entered
            <4>2. Compared(c)
                BY <3>2, <3>4 DEF Bound, BoundInv, Compared
            <4>3. Compared(c)'
                BY <1>2, <3>2, <4>1, <4>2 DEF Compared
            <4> QED
                BY <3>1, <3>3, <4>3
        <3>5. CASE ~(Current(c) /\ Bound(c))
            <4>1. call' = [call EXCEPT ![c] = [call[c] EXCEPT !.pc = "done"]]
                BY <2>1, <3>5 DEF FinalCheck, Reject, Move, IInv, TypeInv
            <4>2. call'[c].pc = "done"
                BY <3>2, <4>1, Moved DEF IInv, TypeInv
            <4> QED
                BY <3>1, <3>3, <4>2
        <3> QED
            BY <3>4, <3>5
    <2>2. CASE PreDispatch(c)
        <3>1. call[c].pc = "checked" /\ Compared(c) /\ permit'.bindings = permit.bindings
            BY <1>5, <2>2 DEF PreDispatch
        <3>2. call[c] \in Entered
            BY <1>4, <3>1
        <3>3. PICK pc \in {"dispatching", "done"} :
                 call' = [call EXCEPT ![c] = [call[c] EXCEPT !.pc = pc]]
            BY <2>2 DEF PreDispatch, Reject, Move, IInv, TypeInv
        <3>4. call'[c].pc = pc /\ call'[c].taken = call[c].taken
            BY <3>2, <3>3 DEF IInv, TypeInv, Entered
        <3>5. sent' = sent \/ sent'[c].action = call[c].taken["action"]
            BY <2>2 DEF PreDispatch, Reject, IInv, TypeInv
        <3>6. sent[c] = None
            BY <3>1 DEF IInv, EntryInv, Inside
        <3>7. Compared(c)'
            BY <3>1, <3>4 DEF Compared
        <3> QED
            BY <3>4, <3>5, <3>6, <3>7
    <2>3. CASE ~FinalCheck(c) /\ ~PreDispatch(c)
        <3>1. sent' = sent
            BY <2>3 DEF ExecuteCall, Execute, Reject, SinkWritable, SinkFull, RefreshRecord,
                   RefreshRecordFails, RefreshConfiguration, RefreshAttestation,
                   DispatchSettles, EditPresented
        <3>2. call'[c].pc # "checked"
            <4>1. DOMAIN call = Calls /\ call[c] \in Entered \cup Outsiders
                BY DEF IInv, TypeInv
            <4>2. CASE \E request \in Presentable, supplied \in {Unset, Wall} :
                          Execute(c, request, supplied)
                <5>1. PICK request \in Presentable, supplied \in {Unset, Wall} :
                          Execute(c, request, supplied)
                    BY <4>2
                <5>2. CASE EntryChecks(supplied)
                    <6>1. Enter(c, request, supplied)
                        BY <5>1, <5>2 DEF Execute
                    <6> QED
                        BY <4>1, <6>1 DEF Enter
                <5>3. CASE ~EntryChecks(supplied)
                    <6>1. Move(c, "done") /\ call[c].pc = "idle"
                        BY <5>1, <5>3 DEF Execute, Reject
                    <6>2. call[c] \in Outsiders
                        BY <4>1, <6>1 DEF Entered, Inside
                    <6> QED
                        BY <4>1, <6>1, <6>2, MovedOut DEF Move
                <5> QED
                    BY <5>2, <5>3
            <4>3. CASE /\ call[c].pc \in Inside \ {"checked"}
                       /\ \E pc \in {"record", "done"} : Move(c, pc)
                <5>1. call[c] \in Entered
                    BY <4>3, InsideIs
                <5> QED
                    BY <4>1, <4>3, <5>1, Moved DEF Move, Inside
            <4>4. CASE RefreshRecord(c)
                <5>1. call[c] \in Entered
                    BY <4>4, InsideIs DEF RefreshRecord, Inside
                <5> QED
                    BY <4>1, <4>4, <5>1 DEF RefreshRecord, Entered
            <4>5. CASE RefreshConfiguration(c)
                <5>1. call[c] \in Entered
                    BY <4>5, InsideIs DEF RefreshConfiguration, Inside
                <5> QED
                    BY <4>1, <4>5, <5>1 DEF RefreshConfiguration, Entered
            <4>6. CASE RefreshAttestation(c)
                <5>1. call[c] \in Entered
                    BY <4>6, InsideIs DEF RefreshAttestation, Inside
                <5> QED
                    BY <4>1, <4>6, <5>1 DEF RefreshAttestation, Entered
            <4>7. CASE \E field \in Fields : EditPresented(c, field)
                <5>1. call[c].pc \in Inside \ {"checked"}
                    BY <4>7 DEF EditPresented, Inside
                <5>2. call[c] \in Entered
                    BY <5>1, InsideIs
                <5>3. call'[c].pc = call[c].pc
                    BY <4>1, <4>7, <5>2 DEF EditPresented, Entered
                <5> QED
                    BY <5>1, <5>3
            <4> QED
                BY <2>3, <4>2, <4>3, <4>4, <4>5, <4>6, <4>7
                DEF ExecuteCall, SinkWritable, SinkFull, RefreshRecordFails, DispatchSettles,
                    Reject, Inside
        <3>3. sent[c] # None => call'[c].taken = call[c].taken
            <4>1. CASE sent[c] # None
                <5>1. call[c].pc \in {"dispatching", "done"}
                    BY <1>4, <4>1 DEF IInv, EntryInv, Entered, Inside
                <5>2. Move(c, "done") /\ call[c] \in Entered
                    BY <1>4, <2>3, <4>1, <5>1
                    DEF ExecuteCall, Execute, SinkWritable, SinkFull, RefreshRecord,
                        RefreshRecordFails, RefreshConfiguration, RefreshAttestation,
                        DispatchSettles, EditPresented
                <5> QED
                    BY <5>2 DEF Move, IInv, TypeInv, Entered
            <4> QED
                BY <4>1
        <3>4. sent[c] # None => Compared(c)'
            BY <1>5, <3>3 DEF Compared
        <3> QED
            BY <3>1, <3>2, <3>3, <3>4 DEF BoundInv
    <2> QED
        BY <2>1, <2>2, <2>3
<1>7. ASSUME NEW d \in Calls
      PROVE  /\ call'[d].pc = "checked" \/ sent'[d] # None => Compared(d)'
             /\ sent'[d] # None => sent'[d].action = call'[d].taken["action"]
    <2>1. CASE d = c
        BY <1>6, <2>1
    <2>2. CASE d # c
        <3>1. call'[d] = call[d] /\ sent'[d] = sent[d]
            BY <1>3, <2>2
        <3>2. call[d].pc = "checked" \/ sent[d] # None => Compared(d)'
            BY <1>5, <3>1 DEF Compared
        <3> QED
            BY <3>1, <3>2 DEF BoundInv
    <2> QED
        BY <2>1, <2>2
<1> QED
    BY <1>1, <1>2, <1>7 DEF BoundInv

\* What is dispatched is the action the permit is bound to, in the state and
\* under the release the policy judged, whatever fields of the request are
\* edited while the policy decides, before execute and at its awaits.
THEOREM BoundAction == Spec => []DispatchedAsBound
<1>1. Init => IInv /\ BoundInv
    BY InitInv, BoundInit
<1>2. IInv /\ BoundInv /\ [Next]_vars => (IInv /\ BoundInv)'
    <2> SUFFICES ASSUME IInv, BoundInv, [Next]_vars PROVE BoundInv'
        BY StepInv
    <2>1. CASE World \/ UNCHANGED vars
        <3>1. UNCHANGED <<gate, permit, call, sent>>
            BY <2>1 DEF World, Tick, Jump, Decide, Reconfigure, Restart, ChangeCapability,
                   Disturb, Outside, vars, calls
        <3> QED
            BY <3>1 DEF BoundInv, Compared
    <2> QED
        BY <2>1, BoundEvaluation, BoundCall DEF Next
<1>3. BoundInv => DispatchedAsBound
    BY DEF BoundInv, Compared, DispatchedAsBound
<1> QED
    BY <1>1, <1>2, <1>3, PTL DEF Spec

=============================================================================
