-------------------------- MODULE ReferenceGateway --------------------------
(***************************************************************************)
(* `rlsok ros2' without a cloud: Ros2ReferenceGateway                      *)
(* (packages/ros2-reference-gateway/index.ts) handling one proposal after  *)
(* the other as runGateway has it (apps/cli/ros2.ts), composed with the    *)
(* evidence file (EvidenceSink).  The command is started again and again,  *)
(* on the same replay registry and a file of its own.                      *)
(*                                                                         *)
(* The gate appears by the times it takes and the entries it leaves; when  *)
(* it refuses is nondeterministic here (see ReleaseGate), and so is what   *)
(* the transport makes of a dispatch (see SidecarTransport).               *)
(***************************************************************************)
EXTENDS EvidenceSink, FiniteSets

CONSTANTS
    MaximumClaims,  \* capacity of the replay registry
    MaxDeliveries   \* bound: payloads received

ASSUME GatewayAssumption ==
    {MaximumClaims, MaxDeliveries} \subseteq Nat /\ None \notin Proposals

VARIABLES
    mode,        \* "shadow" or "run", as the release is deployed
    claimed,     \* what the registry on the disk holds
    job,         \* the payload being handled, or the one handled last
    goalCount,   \* the gateway's counter
    deliveries,
    goals        \* per proposal, goals the controller was sent (history)

gatewayVars == <<mode, claimed, job, goalCount, deliveries, goals>>
vars == <<sinkVars, gatewayVars>>

\* "told" is what the caller or the operator is told about a hardware signal,
\* "sent" whether a goal was really sent, "lost" why its entry was not appended.
NoJob ==
    [pc |-> "idle", proposal |-> None, refusing |-> FALSE, stateAt |-> None,
     now |-> 0, readAt |-> 0, before |-> 0, madeAt |-> 0,
     sent |-> FALSE, told |-> "none", lost |-> "none"]

TypeOK ==
    /\ SinkTypeOK
    /\ mode \in {"shadow", "run"}
    /\ claimed \subseteq Proposals /\ Cardinality(claimed) <= MaximumClaims
    /\ job.pc \in {"idle", "claim", "state", "assemble", "deciding", "execute",
                   "refreshing", "dispatching", "recordDecision",
                   "recordExecution", "over"}
    /\ job.proposal \in Proposals \cup {None}
    /\ goalCount <= deliveries /\ deliveries <= MaxDeliveries

Init ==
    /\ SinkInit
    /\ mode \in {"shadow", "run"}
    /\ claimed = {}
    /\ job = NoJob
    /\ goalCount = 0 /\ deliveries = 0
    /\ goals = [m \in Proposals |-> 0]

At(pc) == job.pc = pc
Goto(pc) == job' = [job EXCEPT !.pc = pc]

\* An entry about the current proposal goes to the sink.
Record(sent, madeAt, stateAt, then) ==
    /\ BeginAppend([proposal |-> job.proposal, sent |-> sent,
                    madeAt |-> madeAt, stateAt |-> stateAt])
    /\ job' = [NoJob EXCEPT !.pc = then, !.proposal = job.proposal,
                            !.sent = job.sent, !.before = job.before]

-----------------------------------------------------------------------------
(* Admission.                                                              *)

\* The processor hands over one payload at a time.  One that is not a proposal,
\* or has no release here, is over before anything happens.
HandlePayload(m) ==
    /\ sink.pc = "ready"
    /\ job.pc \in {"idle", "over"}
    /\ deliveries < MaxDeliveries
    /\ deliveries' = deliveries + 1
    /\ job' = [NoJob EXCEPT !.pc = "claim", !.proposal = m]
    /\ UNCHANGED <<sinkVars, mode, claimed, goalCount, goals>>

\* Slip: a registry that cannot answer does not stop the proposal.
ClaimGrantedUnlessDuplicate ==
    /\ At("claim") /\ job.proposal \notin claimed
    /\ claimed' \in {claimed, claimed \cup {job.proposal}}
    /\ Cardinality(claimed') <= MaximumClaims
    /\ \/ Goto("state")
       \/ job' = [job EXCEPT !.pc = "assemble", !.refusing = TRUE]
    /\ UNCHANGED <<sinkVars, mode, goalCount, deliveries, goals>>

\* The contract of the action is checked at once; a violation goes through the
\* gate too, with a policy that refuses.
ClaimGranted ==
    /\ At("claim")
    /\ job.proposal \notin claimed /\ Cardinality(claimed) < MaximumClaims
    /\ claimed' = claimed \cup {job.proposal}
    /\ \/ Goto("state")
       \/ job' = [job EXCEPT !.pc = "assemble", !.refusing = TRUE]
    /\ UNCHANGED <<sinkVars, mode, goalCount, deliveries, goals>>

\* A duplicate, a full registry, or one that fails, perhaps after it recorded
\* the claim.
ClaimRefused ==
    /\ At("claim")
    /\ \/ claimed' = claimed
       \/ Cardinality(claimed) < MaximumClaims
             /\ claimed' = claimed \cup {job.proposal}
    /\ Record(FALSE, Wall, None, "recordDecision")
    /\ UNCHANGED <<mode, goalCount, deliveries, goals>>

GetFreshJointState ==
    /\ At("state")
    /\ job' = [job EXCEPT !.pc = "assemble", !.stateAt = Wall]
    /\ UNCHANGED <<sinkVars, mode, claimed, goalCount, deliveries, goals>>

\* No joint state, or one without all the joints.
JointStateMissing ==
    /\ At("state")
    /\ job' = [job EXCEPT !.pc = "assemble", !.refusing = TRUE]
    /\ UNCHANGED <<sinkVars, mode, claimed, goalCount, deliveries, goals>>

\* After the observations both clocks are read and evaluate is called.
Assemble ==
    /\ At("assemble")
    /\ job' = [job EXCEPT !.pc = "deciding", !.now = Wall, !.readAt = mono,
                          !.stateAt = IF job.refusing THEN Wall ELSE @]
    /\ UNCHANGED <<sinkVars, mode, claimed, goalCount, deliveries, goals>>

-----------------------------------------------------------------------------
(* The gate.                                                               *)

\* The wall clock at the last reading, carried on by the monotonic clock.
Projected == job.now + (mono - job.readAt)

\* evaluate ends without a permit, before or after the projection.  In shadow
\* mode it always does: what would be allowed is only written up.
Refuse ==
    /\ At("deciding")
    /\ \E madeAt \in {job.now} \cup IF mode = "run" THEN {Projected} ELSE {} :
          Record(FALSE, madeAt, job.stateAt, "recordDecision")
    /\ UNCHANGED <<mode, claimed, goalCount, deliveries, goals>>

IssuePermit ==
    /\ At("deciding") /\ mode = "run"
    /\ ~job.refusing /\ job.stateAt <= job.now
    /\ job' = [job EXCEPT !.pc = "execute", !.now = Projected, !.readAt = mono,
                          !.before = goalCount]
    /\ UNCHANGED <<sinkVars, mode, claimed, goalCount, deliveries, goals>>

\* monotonicProjectedNow without a supplied time.
ExecutionNow == IF Projected > Wall THEN Projected ELSE Wall

\* Slip: an error is reported as a proposal that was blocked.
OverQuietly(lost) ==
    job' = [NoJob EXCEPT !.pc = "over", !.proposal = job.proposal,
                         !.sent = job.sent, !.lost = lost,
                         !.told = IF At("recordExecution") /\ lost = "none"
                                     /\ goalCount > job.before
                                  THEN "yes" ELSE "no"]

\* handlePayload returns, or throws out of the evaluation, which runGateway
\* reports as "NO"; what execute throws is caught.
Over(lost) ==
    job' = [NoJob EXCEPT !.pc = "over", !.proposal = job.proposal,
                         !.sent = job.sent, !.lost = lost,
                         !.told = IF At("recordExecution") /\ goalCount > job.before
                                  THEN "yes" ELSE "no"]

\* assertWritableBeforeDispatch throws: nothing is written, nothing sent.
NoRoomToDispatch ==
    /\ At("execute") /\ ~HasRoom
    /\ Over("none")
    /\ UNCHANGED <<sinkVars, mode, claimed, goalCount, deliveries, goals>>

EnterExecute ==
    /\ At("execute") /\ HasRoom
    /\ Goto("refreshing")
    /\ UNCHANGED <<sinkVars, mode, claimed, goalCount, deliveries, goals>>

\* The permit, a refreshed observation or a time is no longer good.
RefuseExecution ==
    /\ job.pc \in {"execute", "refreshing"}
    /\ Record(FALSE, ExecutionNow, job.stateAt, "recordExecution")
    /\ UNCHANGED <<mode, claimed, goalCount, deliveries, goals>>

\* The counter goes up before the transport is asked, which may not get so far
\* as to send anything.
DispatchTrajectory ==
    /\ At("refreshing")
    /\ goalCount' = goalCount + 1
    /\ \E sent \in BOOLEAN :
          /\ job' = [job EXCEPT !.pc = "dispatching", !.sent = sent,
                                !.madeAt = ExecutionNow]
          /\ goals' = [goals EXCEPT ![job.proposal] = @ + IF sent THEN 1 ELSE 0]
    /\ UNCHANGED <<sinkVars, mode, claimed, deliveries>>

\* The transport answers or fails; the entry has the time of the dispatch.
DispatchSettles ==
    /\ At("dispatching")
    /\ Record(TRUE, job.madeAt, job.stateAt, "recordExecution")
    /\ UNCHANGED <<mode, claimed, goalCount, deliveries, goals>>

AppendSettles ==
    /\ job.pc \in {"recordDecision", "recordExecution"}
    /\ ReadyAgain
    /\ Over(sink.reason)
    /\ UNCHANGED <<mode, claimed, goalCount, deliveries, goals>>

-----------------------------------------------------------------------------
(* The command, and what happens around it.                                *)

Start(path) == Reserve(path) /\ UNCHANGED gatewayVars

\* The process is gone, with its counter and the payload it was handling.
Gone == job' = NoJob /\ goalCount' = 0 /\ UNCHANGED <<mode, claimed, deliveries, goals>>

Gateway ==
    \/ \E m \in Proposals : HandlePayload(m)
    \/ ClaimGranted \/ ClaimRefused
    \/ GetFreshJointState \/ JointStateMissing \/ Assemble
    \/ Refuse \/ IssuePermit
    \/ NoRoomToDispatch \/ EnterExecute \/ RefuseExecution
    \/ DispatchTrajectory \/ DispatchSettles \/ AppendSettles

Next ==
    \/ \E path \in Paths : Start(path)
    \/ Gateway
    \/ WriteStep /\ UNCHANGED gatewayVars
    \/ Tick /\ UNCHANGED gatewayVars
    \/ \E s \in Skews : SetClock(s) /\ UNCHANGED gatewayVars
    \/ ProcessEnds /\ Gone
    \/ PowerLoss /\ Gone

Spec == Init /\ [][Next]_vars
-----------------------------------------------------------------------------
\* A proposal moves the robot at most once, although it is delivered again,
\* also to the command that is started after a crash.
OneGoalPerProposal == \A m \in Proposals : goals[m] <= 1

\* A caller or an operator is told that there was no hardware signal only if
\* there was none, whatever failed on the way and at whichever step.
ToldNoTruthfully == job.told = "no" => ~job.sent

\* A goal that was sent is in the evidence when its proposal is over.  The
\* entry is lost only with the disk, if the wall clock was set back while the
\* command ran, or if it is larger by itself than the margin kept for it.  (The
\* constructor's comment has the margin cover a complete record, ros2.ts:489;
\* it does not cover every proposal that is let in.)
DispatchRecorded ==
    At("over") /\ job.sent =>
        \/ \E k \in DOMAIN sink.entries :
              sink.entries[k].proposal = job.proposal /\ sink.entries[k].sent
        \/ job.lost = "disk"
        \/ job.lost = "time" /\ setBack
        \/ job.lost = "room" /\ Size[job.proposal] > DispatchReserve
=============================================================================
