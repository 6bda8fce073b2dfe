---------------------------- MODULE ReleaseGate ----------------------------
(***************************************************************************)
(* One evaluation by ReleaseExecutionGate and the execute calls that       *)
(* present its permit (packages/core/execution-gate.ts).  Everything       *)
(* between two awaits is one step; at an await the clocks, the release     *)
(* authority, the machine's configuration, the runtime, the other calls    *)
(* and the owner of the request object may all move.                       *)
(*                                                                         *)
(* The request was put together at monotonic instant 0 from observations   *)
(* made then, as the gateway does.  Its fields are the action, the hash    *)
(* claimed for it, the state, the release document, and "bound", which     *)
(* stands for the fields compared live with the permit (proposal, device,  *)
(* controller, time of the state).  A field has version 1 as assembled and *)
(* version 2 once its owner has edited it.                                 *)
(***************************************************************************)
EXTENDS ReleasePolicy, Functions, FiniteSets

CONSTANTS
    Calls,              \* execute calls presenting the permit
    MaxStateAge, MaxConfigurationAge, MaxAttestationAge, \* runtimePolicy
    PermitCap,          \* the gate's own limit on a permit's life (1 s)
    Expiry,             \* deployment.expiresAt
    Horizon,            \* bound: last monotonic instant
    Skew0, Skews,       \* wall clock minus monotonic clock: first, possible
    MaxChanges,         \* bound: disturbances, and edits after the evaluation
    EditedInEvaluation, \* bound: fields edited while the policy decides
    None                \* nothing observed, sent or written

Fields == {"action", "hash", "state", "release", "bound"}

ASSUME GateAssumption ==
    /\ {MaxStateAge, MaxConfigurationAge, MaxAttestationAge, PermitCap, Expiry,
        Horizon, MaxChanges} \cup Skews \subseteq Nat
    /\ Skew0 \in Skews
    /\ EditedInEvaluation \subseteq Fields

\* What a dispatch is remembered by.
Sends == [action : {1, 2}, at : Nat, dispatchedAt : Int]

ASSUME NoneAssumption == None \notin Sends \cup {"not_sent", "attempted", "lost"}

VARIABLES
    mono, skew,          \* the clocks
    record,              \* the release record the authority holds
    config,              \* the machine's configuration digest
    runtime,             \* incarnation (continuity token) and capability
    changes,             \* disturbances and edits so far (bounded)
    gate,                \* the evaluation: phase, its clock readings, request
    permit,              \* the issued permit and whether the map still has it
    call,                \* per execute call, where it is and what it holds
    sent,                \* per call, what it dispatched and when (history)
    ledger               \* per call, the evidence entry it left

settings == <<mono, skew, record, config, runtime>>
world == <<settings, changes>>
calls == <<call, sent, ledger>>
vars == <<world, gate, permit, calls>>

Document(version) ==
    [releaseId |-> "r", content |-> version, config |-> "approved",
     status |-> "approved", mode |-> "canary", devices |-> {"device"},
     expiresAt |-> Expiry]

RecordIn(stage) ==
    [releaseId |-> "r", state |-> stage,
     hash |-> ExecutablePolicyHash(Document(1)),
     approvedHash |-> ExecutablePolicyHash(Document(1)),
     approvedConfig |-> "approved"]

AsAssembled == [field \in Fields |-> 1]
Wall == mono + skew

Init ==
    /\ mono = 0 /\ skew = Skew0 /\ changes = 0
    /\ record \in {RecordIn("shadow"), RecordIn("canary")}
    /\ config = "approved"
    /\ runtime = [boot |-> 0, capable |-> TRUE]
    /\ gate = [phase |-> "assembled", releaseRecord |-> record,
               request |-> AsAssembled, startedAt |-> 0, evaluatedAt |-> 0]
    /\ permit = [held |-> FALSE]
    /\ call = [c \in Calls |-> [pc |-> "idle"]]
    /\ sent = [c \in Calls |-> None]
    /\ ledger = [c \in Calls |-> None]

TypeOK ==
    /\ mono \in 0..Horizon /\ skew \in Skews /\ changes \in 0..MaxChanges
    /\ record.state \in ReleaseStates
    /\ config \in {"approved", "drifted"}
    /\ runtime \in [boot : 0..MaxChanges, capable : BOOLEAN]
    /\ gate.phase \in {"assembled", "deciding", "refused", "allowed"}
    /\ gate.request \in [Fields -> {1, 2}]
    /\ permit.held \in BOOLEAN
    /\ \A c \in Calls :
          call[c].pc \in {"idle", "preflight", "record", "configuration",
                          "attestation", "final", "checked", "dispatching",
                          "done"}
    /\ \A c \in Calls : ledger[c] \in {None, "not_sent", "attempted", "lost"}

-----------------------------------------------------------------------------
\* The checks of an observation's age are one rule at three places.
Fresh(observedAt, maxAge, now) ==
    observedAt <= now /\ now - observedAt <= maxAge

\* evaluateConfigurationBinding in mode run; a failed observation is None.
ConfigurationAllowed(observed, now) ==
    /\ observed # None
    /\ Fresh(observed.at, MaxConfigurationAge, now)
    /\ observed.digest = "approved"

\* evaluateRuntimeAttestation with a non-empty list of requirements.
AttestationAllowed(attested, now) ==
    /\ attested # None
    /\ Fresh(attested.at, MaxAttestationAge, now)
    /\ attested.capable

\* What the request carries from its assembly.
FirstConfiguration == [digest |-> "approved", at |-> Skew0]
FirstAttestation == [boot |-> 0, capable |-> TRUE, at |-> Skew0]

Larger(m, n) == IF m > n THEN m ELSE n
Smaller(m, n) == IF m < n THEN m ELSE n

\* Slip: the wall clock alone.
ProjectedNowByWall(supplied) == IF supplied = Unset THEN Wall ELSE supplied

\* monotonicProjectedNow: neither clock may run the other back.
ProjectedNow(supplied) ==
    Larger(permit.authorizedAt + (mono - permit.issuedAt),
           IF supplied = Unset THEN Wall ELSE supplied)

\* The JavaScript thread is taken from a call's last checks to its dispatch.
ThreadFree == \A c \in Calls : call[c].pc # "checked"

-----------------------------------------------------------------------------
\* The world outside the gate.
Outside == UNCHANGED <<gate, permit, calls>>

Tick ==
    /\ mono < Horizon
    /\ mono' = mono + 1
    /\ UNCHANGED <<skew, record, config, runtime, changes>> /\ Outside

Decide(stage) ==
    /\ MayTransition(record, stage, Document(1), "operator", {})
    /\ record' = TransitionRelease(record, stage, Document(1))
    /\ UNCHANGED <<mono, skew, config, runtime, changes>> /\ Outside

Changed(n) ==
    /\ changes + n <= MaxChanges
    /\ changes' = changes + n

Disturb ==
    /\ Changed(1)
    /\ UNCHANGED <<mono, record>> /\ Outside

Jump == Disturb /\ skew' \in Skews \ {skew} /\ UNCHANGED <<config, runtime>>

Reconfigure ==
    /\ Disturb
    /\ config' = IF config = "approved" THEN "drifted" ELSE "approved"
    /\ UNCHANGED <<skew, runtime>>

Restart ==
    /\ Disturb
    /\ runtime' = [runtime EXCEPT !.boot = @ + 1]
    /\ UNCHANGED <<skew, config>>

ChangeCapability ==
    /\ Disturb
    /\ runtime' = [runtime EXCEPT !.capable = ~ @]
    /\ UNCHANGED <<skew, config>>

-----------------------------------------------------------------------------
\* evaluate()

\* The checks evaluate makes before and again after it has asked the policy.
EvaluationChecks(now) ==
    /\ Eligible(Document(gate.request["release"]), gate.releaseRecord,
                "device", now)
    /\ ConfigurationAllowed(FirstConfiguration, now)
    /\ AttestationAllowed(FirstAttestation, now)
    /\ Fresh(Skew0, MaxStateAge, now)

StartEvaluation ==
    /\ gate.phase = "assembled"
    /\ gate' = [gate EXCEPT
                  !.phase = IF EvaluationChecks(Wall) THEN "deciding"
                                                      ELSE "refused",
                  !.startedAt = mono, !.evaluatedAt = Wall]
    /\ UNCHANGED <<world, permit, call, sent, ledger>>

\* The request object is edited while the policy decides.
EditEvaluated(field) ==
    /\ gate.phase = "deciding" /\ ThreadFree
    /\ gate.request[field] = 1
    /\ gate' = [gate EXCEPT !.request[field] = 2]
    /\ UNCHANGED <<world, permit, call, sent, ledger>>

PolicyRefuses ==
    /\ gate.phase = "deciding"
    /\ gate' = [gate EXCEPT !.phase = "refused"]
    /\ UNCHANGED <<world, permit, call, sent, ledger>>

\* What the policy was shown was captured when the evaluation started.
UnchangedWhileDeciding ==
    \A field \in {"action", "state", "release"} : gate.request[field] = 1

AuthorizationNow == gate.evaluatedAt + (mono - gate.startedAt)

PolicyAllows ==
    /\ gate.phase = "deciding"
    /\ IF UnchangedWhileDeciding /\ EvaluationChecks(AuthorizationNow)
       THEN /\ gate' = [gate EXCEPT !.phase = "allowed"]
            /\ permit' = [held         |-> TRUE,
                          bindings     |-> gate.request,
                          evaluatedAt  |-> gate.evaluatedAt,
                          authorizedAt |-> AuthorizationNow,
                          issuedAt     |-> mono,
                          expiresAt    |-> mono + Smaller(PermitCap, MaxStateAge),
                          boot         |-> FirstAttestation.boot]
       ELSE /\ gate' = [gate EXCEPT !.phase = "refused"]
            /\ UNCHANGED permit
    /\ UNCHANGED <<world, call, sent, ledger>>

-----------------------------------------------------------------------------
\* execute()

\* The fields in which a request differs from the authorised one, which has
\* copies of action and state; each of them is an edit.
Edits(request) == Cardinality({f \in Fields : request[f] # permit.bindings[f]})

Presentable == {r \in [Fields -> {1, 2}] : changes + Edits(r) <= MaxChanges}

Move(c, pc) == call' = [call EXCEPT ![c].pc = pc]

\* FileEvidenceSink.append: the disk may fail, and an entry whose decision
\* time the wall clock has not reached is refused.
Append(c, entry, decisionMadeAt) ==
    \E outcome \in {entry, "lost"} :
        /\ outcome = entry => decisionMadeAt <= Wall
        /\ ledger' = [ledger EXCEPT ![c] = outcome]

\* A rejected call leaves a not_sent entry, or nothing when that fails too.
Reject(c, decisionMadeAt) ==
    /\ Move(c, "done")
    /\ Append(c, "not_sent", decisionMadeAt)
    /\ UNCHANGED <<settings, gate, sent>>

EntryChecks(supplied) ==
    /\ permit.held
    /\ mono < permit.expiresAt
    /\ supplied = Unset \/ supplied >= permit.evaluatedAt

\* The permit leaves the map before the first await, whatever follows, and
\* action, state and the release's hash are captured.
Enter(c, request, supplied) ==
    call' = [call EXCEPT ![c] =
               [pc |-> "preflight", supplied |-> supplied, live |-> request,
                taken |-> Restrict(request, {"action", "state", "release"}),
                record |-> gate.releaseRecord, config |-> None, attested |-> None,
                checkedAt |-> 0,
                tooLate |-> record.state = "revoked" \/ runtime.boot # permit.boot]]

\* The decision time of an entry about a call refused on entry.
EntryTime(supplied) ==
    IF permit.held THEN ProjectedNow(supplied)
    ELSE IF supplied = Unset THEN Wall ELSE supplied

Execute(c, request, supplied) ==
    /\ gate.phase = "allowed" /\ ThreadFree
    /\ call[c].pc = "idle"
    /\ permit' = [permit EXCEPT !.held = FALSE]
    /\ Changed(Edits(request))
    /\ IF EntryChecks(supplied)
       THEN Enter(c, request, supplied) /\ UNCHANGED <<settings, gate, sent, ledger>>
       ELSE Reject(c, EntryTime(supplied))

EditPresented(c, field) ==
    /\ call[c].pc \in {"preflight", "record", "configuration", "attestation",
                       "final"}
    /\ ThreadFree
    /\ Changed(1)
    /\ call' = [call EXCEPT ![c].live[field] = 3 - @]
    /\ UNCHANGED <<settings, gate, permit, sent, ledger>>

\* assertWritableBeforeDispatch; when it throws nothing is written.
SinkWritable(c) ==
    /\ call[c].pc = "preflight" /\ ThreadFree
    /\ Move(c, "record")
    /\ UNCHANGED <<world, gate, permit, sent, ledger>>

SinkFull(c) ==
    /\ call[c].pc = "preflight" /\ ThreadFree
    /\ Move(c, "done")
    /\ ledger' = [ledger EXCEPT ![c] = "lost"]
    /\ UNCHANGED <<world, gate, permit, sent>>

\* Slip: the record the request was assembled with is used again.
RefreshRecordReusing(c) ==
    /\ call[c].pc = "record" /\ ThreadFree
    /\ Move(c, "configuration")
    /\ UNCHANGED <<world, gate, permit, sent, ledger>>

RefreshRecord(c) ==
    /\ call[c].pc = "record" /\ ThreadFree
    /\ call' = [call EXCEPT ![c].record = record, ![c].pc = "configuration"]
    /\ UNCHANGED <<world, gate, permit, sent, ledger>>

RefreshRecordFails(c) ==
    /\ call[c].pc = "record" /\ ThreadFree
    /\ Reject(c, ProjectedNow(call[c].supplied))
    /\ UNCHANGED <<changes, permit>>

\* A refresh that throws counts as no observation at all.
RefreshConfiguration(c) ==
    /\ call[c].pc = "configuration" /\ ThreadFree
    /\ \E observed \in {None, [digest |-> config, at |-> Wall]} :
          call' = [call EXCEPT ![c].config = observed, ![c].pc = "attestation"]
    /\ UNCHANGED <<world, gate, permit, sent, ledger>>

RefreshAttestation(c) ==
    /\ call[c].pc = "attestation" /\ ThreadFree
    /\ \E observed \in {None, [boot |-> runtime.boot, at |-> Wall,
                               capable |-> runtime.capable]} :
          call' = [call EXCEPT ![c].attested = observed, ![c].pc = "final"]
    /\ UNCHANGED <<world, gate, permit, sent, ledger>>

\* Slip: the captured action is not hashed again.
BoundByClaimedHash(c) ==
    /\ permit.bindings["hash"] = call[c].live["hash"]
    /\ call[c].attested.boot = permit.boot

\* The permit's bindings: captured where the code captured, live elsewhere.
Bound(c) ==
    LET live == call[c].live
        taken == call[c].taken
    IN  /\ permit.bindings["hash"] = live["hash"]
        /\ permit.bindings["state"] = taken["state"]
        /\ permit.bindings["release"] = taken["release"]
        /\ permit.bindings["bound"] = live["bound"]
        /\ taken["action"] = live["hash"]
        /\ call[c].attested.boot = permit.boot

\* The checks made on what was refreshed, and made again before dispatch.
Current(c) ==
    LET now == ProjectedNow(call[c].supplied)
    IN  /\ mono < permit.expiresAt
        /\ Fresh(Skew0, MaxStateAge, now)
        /\ ConfigurationAllowed(call[c].config, now)
        /\ Eligible(Document(call[c].live["release"]), call[c].record,
                    "device", now)
        /\ AttestationAllowed(call[c].attested, now)

FinalCheck(c) ==
    /\ call[c].pc = "final" /\ ThreadFree
    /\ IF Current(c) /\ Bound(c)
       THEN /\ call' = [call EXCEPT ![c].pc = "checked",
                                    ![c].checkedAt = ProjectedNow(call[c].supplied)]
            /\ UNCHANGED <<world, gate, sent, ledger>>
       ELSE Reject(c, ProjectedNow(call[c].supplied))
    /\ UNCHANGED <<changes, permit>>

PreDispatch(c) ==
    /\ call[c].pc = "checked"
    /\ IF Current(c) /\ AttestationAllowed(FirstAttestation,
                                           ProjectedNow(call[c].supplied))
       THEN /\ Move(c, "dispatching")
            /\ sent' = [sent EXCEPT ![c] =
                           [action |-> call[c].taken["action"], at |-> mono,
                            dispatchedAt |-> ProjectedNow(call[c].supplied)]]
            /\ UNCHANGED <<world, gate, ledger>>
       ELSE Reject(c, IF mono < permit.expiresAt
                      THEN ProjectedNow(call[c].supplied) ELSE call[c].checkedAt)
    /\ UNCHANGED <<changes, permit>>

\* Slips: a failed dispatch gives the permit back, to be tried again; it is
\* written up with the default signal state.
DispatchSettlesRestoring(c) ==
    /\ call[c].pc = "dispatching" /\ ThreadFree
    /\ Move(c, "done")
    /\ Append(c, "attempted", sent[c].dispatchedAt)
    /\ \/ permit' = [permit EXCEPT !.held = TRUE]
       \/ UNCHANGED permit
    /\ UNCHANGED <<world, gate, sent>>

DispatchSettlesUnsent(c) ==
    /\ call[c].pc = "dispatching" /\ ThreadFree
    /\ Move(c, "done")
    /\ Append(c, "not_sent", sent[c].dispatchedAt)
    /\ UNCHANGED <<world, gate, permit, sent>>

\* The dispatcher answers or throws; both leave attempted_unconfirmed, with
\* the decision time frozen before the dispatch.
DispatchSettles(c) ==
    /\ call[c].pc = "dispatching" /\ ThreadFree
    /\ Move(c, "done")
    /\ Append(c, "attempted", sent[c].dispatchedAt)
    /\ UNCHANGED <<world, gate, permit, sent>>

-----------------------------------------------------------------------------
World ==
    \/ Tick
    \/ Jump
    \/ \E stage \in ReleaseStates : Decide(stage)
    \/ Reconfigure
    \/ Restart
    \/ ChangeCapability

Evaluation ==
    \/ StartEvaluation
    \/ \E field \in EditedInEvaluation : EditEvaluated(field)
    \/ PolicyRefuses
    \/ PolicyAllows

ExecuteCall(c) ==
    \/ /\ gate.phase = "allowed" /\ call[c].pc = "idle"
       /\ \E request \in Presentable, supplied \in {Unset, Wall} :
             Execute(c, request, supplied)
    \/ SinkWritable(c) \/ SinkFull(c)
    \/ RefreshRecord(c) \/ RefreshRecordFails(c)
    \/ RefreshConfiguration(c) \/ RefreshAttestation(c)
    \/ FinalCheck(c) \/ PreDispatch(c) \/ DispatchSettles(c)
    \/ \E field \in Fields : EditPresented(c, field)

Next ==
    \/ World
    \/ Evaluation
    \/ \E c \in Calls : ExecuteCall(c)

Spec == Init /\ [][Next]_vars

-----------------------------------------------------------------------------
\* A permit reaches the dispatcher at most once, however many execute calls
\* present it and however their awaits interleave.
DispatchOncePerPermit ==
    \A c, d \in Calls : sent[c] # None /\ sent[d] # None => c = d

\* What is dispatched is the action whose hash the permit is bound to, in the
\* state and under the release the policy judged, although the owner of the
\* request may edit it at every await of evaluate and of execute.
DispatchedAsBound ==
    \A c \in Calls : sent[c] # None =>
        /\ sent[c].action = permit.bindings["hash"]
        /\ call[c].taken["state"] = 1
        /\ call[c].taken["release"] = 1

\* A request that changes while it is evaluated fails closed
\* (docs/ARCHITECTURE.md:20-23), so that what is dispatched is the action the
\* policy judged.  It does not hold: the claimed hash is compared before the
\* policy is asked, and read again from the live request for the permit.
DispatchedAsJudged ==
    \A c \in Calls : sent[c] # None => sent[c].action = 1

\* The dispatch falls inside the permit's life and inside the age limit of
\* the state, both counted on the monotonic clock: the awaits of execute and
\* steps of the wall clock after the evaluation stretch neither.
FreshAtDispatch ==
    \A c \in Calls : sent[c] # None =>
        /\ sent[c].at < permit.issuedAt + Smaller(PermitCap, MaxStateAge)
        /\ sent[c].at + (gate.evaluatedAt - gate.startedAt)
              <= MaxStateAge + Skew0

\* A release revoked, or a runtime restarted, before execute was called is
\* never commanded, however old the request's own copies of both are.
NothingSentTooLate ==
    \A c \in Calls : sent[c] # None => ~call[c].tooLate

\* An entry that says not_sent means that nothing was sent, one that says
\* attempted that something was, and a dispatch is never written up as a
\* rejection: an entry about it can only be right or be lost with the sink.
EvidenceTruthful ==
    \A c \in Calls :
        /\ ledger[c] = "not_sent" => sent[c] = None
        /\ ledger[c] = "attempted" => sent[c] # None
        /\ sent[c] # None /\ call[c].pc = "done" =>
              ledger[c] \in {"attempted", "lost"}

=============================================================================
