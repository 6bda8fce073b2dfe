--------------------------- MODULE CloudDispatch ---------------------------
(***************************************************************************)
(* Cloud-connected execution of proposals in run mode: runProposal of      *)
(* CloudConnectedRos2Workflow, the CloudConnectedDispatchBoundary it ends  *)
(* in, and the requests of RlsokCloudClient (packages/cloud-client/        *)
(* ros2-workflow.ts, gate.ts, client.ts), composed with the replay         *)
(* registry they share (module ReplayRegistry, which FileReplayRegistry    *)
(* implements).                                                            *)
(*                                                                         *)
(* Each runtime process handles one proposal at a time; a proposal may be  *)
(* delivered again, to any runtime, at any time.  Requests and answers may *)
(* be lost and a lost request may still be carried out later.  Permit      *)
(* lifetimes and the observations of the machine are nondeterministic.     *)
(*                                                                         *)
(* The cloud service is not part of the repository: it is what the client  *)
(* relies on, a release that may be revoked and permits consumed at most   *)
(* once, where a repeated request with the same idempotency key gets the   *)
(* same answer (docs/CLOUD_CONTRACT_V1.md).                                *)
(***************************************************************************)
EXTENDS Naturals, FiniteSets

CONSTANTS Procs,        \* runtime processes sharing one replay registry
          Identities,   \* proposals
          Capacity,     \* Capacity[p]: maximumClaims of p's registry
          None,
          Attempts,     \* sends of one request: one retry (client.ts)
          MaxRuns       \* bound: deliveries of proposals

\* What is known of the consumption of a run's cloud permit, and what the
\* local evidence says: that, and whether a goal was sent.
Consumptions == {"not_consumed", "unknown", "consumed"}
Files == [sent : BOOLEAN, consumption : Consumptions]

ASSUME CloudAssumption ==
    /\ Attempts \in Nat \ {0} /\ MaxRuns \in Nat
    /\ None \notin Identities \cup Files
    /\ Capacity \in [Procs -> Nat \ {0}]

VARIABLES
    recorded, phase, asked, reply, granted,  \* the replay registry
    release,    \* the cloud's release state
    permit,     \* permit[p]: what became of the permit of p's run, in the cloud
    inflight,   \* processes whose abandoned consume request may still arrive
    run,        \* run[p]: the proposal being handled and how far
    file,       \* file[p]: the local evidence of p's run, or None
    goals,      \* goals[id]: controller goals sent for a proposal (history)
    runs        \* deliveries so far (bounded)

registry == <<recorded, phase, asked, reply, granted>>
cloud == <<release, permit, inflight>>
vars == <<registry, cloud, run, file, goals, runs>>

Registry == INSTANCE ReplayRegistry

\* The requests, and where a run continues when one cannot be completed.
\* Slip: a failure to consume is swallowed.
Requests == {"getRelease", "requestPermit", "finalRelease", "consume",
             "submit", "retrieve"}
AfterFailureSwallowed ==
    [getRelease |-> "catch", requestPermit |-> "catch",
     finalRelease |-> "persist", consume |-> "recheck",
     submit |-> "ended", retrieve |-> "ended"]
AfterFailure ==
    [getRelease |-> "catch", requestPermit |-> "catch",
     finalRelease |-> "persist", consume |-> "persist",
     submit |-> "ended", retrieve |-> "ended"]

InRun == Requests \cup {"claim", "observe", "jointState", "final",
                        "finalConfig", "authorize", "recheck", "dispatch",
                        "persist", "catch", "record", "denied"}

\* A run's result is what persistEvidence writes: whether a goal was sent and
\* what is known about the consumption of the cloud permit.
Fresh(id) ==
    [id |-> id, pc |-> "claim", tries |-> 1, sent |-> FALSE,
     consumption |-> "not_consumed", result |-> FALSE, failures |-> 0,
     late |-> FALSE]

Runs ==
    [id : Identities, pc : InRun \cup {"ended"}, tries : 1..Attempts, sent : BOOLEAN,
     consumption : Consumptions, result : BOOLEAN, failures : Nat, late : BOOLEAN]

Idle == [id |-> None, pc |-> "idle"]

TypeOK ==
    /\ Registry!TypeOK
    /\ release \in {"approved", "revoked"}
    /\ permit \in [Procs -> {"none", "issued", "consumed"}]
    /\ inflight \subseteq Procs
    /\ run \in [Procs -> Runs \cup {Idle}]
    /\ file \in [Procs -> Files \cup {None}]
    /\ goals \in [Identities -> Nat]
    /\ runs \in 0..MaxRuns

Init ==
    /\ Registry!Init
    /\ release \in {"approved", "revoked"}
    /\ permit = [p \in Procs |-> "none"]
    /\ inflight = {}
    /\ run = [p \in Procs |-> Idle]
    /\ file = [p \in Procs |-> None]
    /\ goals = [id \in Identities |-> 0]
    /\ runs = 0

At(p, pc) == run[p].pc = pc
Goto(p, pc) == run' = [run EXCEPT ![p].pc = pc, ![p].tries = 1]

\* A step of the workflow that only moves on.
Step(p, from, to) ==
    /\ At(p, from)
    /\ Goto(p, to)
    /\ UNCHANGED <<registry, cloud, file, goals, runs>>

-----------------------------------------------------------------------------
\* Delivery and the replay claim.

Receive(p, id) ==
    /\ At(p, "idle") /\ phase[p] = "idle"
    /\ runs < MaxRuns
    /\ runs' = runs + 1
    /\ run' = [run EXCEPT ![p] = Fresh(id)]
    /\ permit' = [permit EXCEPT ![p] = "none"]
    /\ file' = [file EXCEPT ![p] = None]
    /\ inflight' = inflight \ {p}   \* a request of an earlier run
    /\ Registry!Ask(p, id)
    /\ UNCHANGED <<release, goals>>

RegistryStep(p) ==
    /\ At(p, "claim")
    /\ \/ Registry!Record(p) \/ Registry!Grant(p)
       \/ Registry!Refuse(p) \/ Registry!Unavailable(p)
    /\ UNCHANGED <<cloud, run, file, goals, runs>>

\* Slip: a registry that cannot answer does not stop the run.
ClaimAnsweredUnlessDuplicate(p) ==
    /\ At(p, "claim")
    /\ Registry!Return(p)
    /\ IF reply[p] = "duplicate" THEN Goto(p, "denied")
                                 ELSE Goto(p, "observe")
    /\ UNCHANGED <<cloud, file, goals, runs>>

\* Only "claimed" goes on; every other answer is written up as a denial.
ClaimAnswered(p) ==
    /\ At(p, "claim")
    /\ Registry!Return(p)
    /\ IF reply[p] = "claimed" THEN Goto(p, "observe")
                               ELSE Goto(p, "denied")
    /\ UNCHANGED <<cloud, file, goals, runs>>

-----------------------------------------------------------------------------
\* Requests.  Every answer may be lost; the client sends the request again
\* with the same idempotency key, and gives up after the last attempt.

\* A consume request that got no answer may be carried out all the same.
Abandoned(p) ==
    inflight' = IF At(p, "consume") THEN inflight \cup {p} ELSE inflight

\* Slip: the attempts are not counted.
AnswerLostUncounted(p) ==
    /\ run[p].pc \in Requests
    /\ Abandoned(p)
    /\ UNCHANGED <<registry, release, permit, run, file, goals, runs>>

AnswerLost(p) ==
    /\ run[p].pc \in Requests
    /\ Abandoned(p)
    /\ IF run[p].tries < Attempts
       THEN run' = [run EXCEPT ![p].tries = @ + 1]
       ELSE Goto(p, AfterFailure[run[p].pc])
    /\ UNCHANGED <<registry, release, permit, file, goals, runs>>

\* An HTTP error or a malformed body is not retried.
Refused(p) ==
    /\ run[p].pc \in Requests
    /\ Goto(p, AfterFailure[run[p].pc])
    /\ UNCHANGED <<registry, cloud, file, goals, runs>>

\* What was observed of the machine is judged together with the release.
GetRelease(p) ==
    \/ release = "approved" /\ Step(p, "getRelease", "jointState")
    \/ Step(p, "getRelease", "persist")

RequestPermit(p) ==
    /\ At(p, "requestPermit")
    /\ permit' = [permit EXCEPT ![p] = "issued"]
    /\ Goto(p, "final")
    /\ UNCHANGED <<registry, release, inflight, file, goals, runs>>

\* Slip: the answer of the first query is relied on.
FinalReleaseUnread(p) == Step(p, "finalRelease", "authorize")

FinalRelease(p) ==
    Step(p, "finalRelease", IF release = "approved" THEN "authorize" ELSE "persist")

Consume(p) ==
    /\ At(p, "consume")
    /\ permit[p] \in {"issued", "consumed"}
    /\ permit' = [permit EXCEPT ![p] = "consumed"]
    /\ inflight' = inflight \ {p}
    /\ run' = [run EXCEPT ![p].pc = "recheck", ![p].consumption = "consumed"]
    /\ UNCHANGED <<registry, release, file, goals, runs>>

\* A submitted record is read back and compared with what was sent.
SubmitEvidence(p) == Step(p, "submit", "retrieve")
RetrieveEvidence(p) ==
    \E to \in {"record", "ended"} : Step(p, "retrieve", to)

-----------------------------------------------------------------------------
\* The workflow between its requests.

\* Configuration and attestation; a failing observer ends in the catch block.
Observe(p) == \E to \in {"getRelease", "catch"} : Step(p, "observe", to)

ObserveJointState(p) ==
    \E to \in {"requestPermit", "catch"} : Step(p, "jointState", to)

\* beginFinalBoundary: the local permit of one second may be over already, and
\* the hook that runs before may throw.
BeginFinalBoundary(p) ==
    /\ At(p, "final")
    /\ \E to \in {"finalConfig", "persist", "catch"} :
          run' = [run EXCEPT ![p].pc = to, ![p].late = release = "revoked"]
    /\ UNCHANGED <<registry, cloud, file, goals, runs>>

ObserveAgain(p) ==
    \E to \in {"finalRelease", "persist"} : Step(p, "finalConfig", to)

\* Slip: the state becomes unknown only when a request fails.
AuthorizeUnmarked(p) ==
    /\ At(p, "authorize")
    /\ \/ run' = [run EXCEPT ![p].pc = "consume"]
       \/ Goto(p, "persist")
    /\ UNCHANGED <<registry, cloud, file, goals, runs>>

\* Local authority and local permit are valid, or the run is blocked.  From
\* here on the consumption is unknown until the cloud has confirmed it.
Authorize(p) ==
    /\ At(p, "authorize")
    /\ \/ run' = [run EXCEPT ![p].pc = "consume", ![p].consumption = "unknown"]
       \/ Goto(p, "persist")
    /\ UNCHANGED <<registry, cloud, file, goals, runs>>

LocalPermitCurrent(p) ==
    \E to \in {"dispatch", "persist"} : Step(p, "recheck", to)

Dispatch(p) ==
    /\ At(p, "dispatch")
    /\ goals' = [goals EXCEPT ![run[p].id] = @ + 1]
    /\ run' = [run EXCEPT ![p].pc = "persist", ![p].sent = TRUE]
    /\ UNCHANGED <<registry, cloud, file, runs>>

\* writeLocalEvidence, which may fail.
Write(p, succeeded, failed) ==
    \/ /\ file' = [file EXCEPT ![p] = [sent |-> run[p].sent,
                                       consumption |-> run[p].consumption]]
       /\ run' = [run EXCEPT ![p].pc = succeeded, ![p].result = TRUE]
    \/ /\ run' = [run EXCEPT ![p].pc = failed, ![p].result = TRUE,
                             ![p].failures = @ + 1]
       /\ UNCHANGED file

\* persistEvidence: a denied claim is written outside the try block.
Persist(p) ==
    /\ \/ At(p, "persist") /\ Write(p, "submit", "catch")
       \/ At(p, "denied") /\ Write(p, "submit", "ended")
    /\ UNCHANGED <<registry, cloud, goals, runs>>

\* The second write, with the identity of the verified cloud record.
Record(p) ==
    /\ At(p, "record")
    /\ Write(p, "ended", "ended")
    /\ UNCHANGED <<registry, cloud, goals, runs>>

\* Slip: a result that exists is taken to be written.
CatchOnlyFresh(p) ==
    /\ At(p, "catch")
    /\ IF run[p].result THEN Goto(p, "ended") /\ UNCHANGED file
       ELSE Write(p, "ended", "ended")
    /\ UNCHANGED <<registry, cloud, goals, runs>>

\* The catch block writes the latest result, or a fresh one, if none has been.
Catch(p) ==
    /\ At(p, "catch")
    /\ IF file[p] = None THEN Write(p, "ended", "ended")
       ELSE Goto(p, "ended") /\ UNCHANGED file
    /\ UNCHANGED <<registry, cloud, goals, runs>>

Finish(p) ==
    /\ At(p, "ended")
    /\ run' = [run EXCEPT ![p] = Idle]
    /\ UNCHANGED <<registry, cloud, file, goals, runs>>

-----------------------------------------------------------------------------
\* Surroundings.

Crash(p) ==
    /\ ~At(p, "idle")
    /\ run' = [run EXCEPT ![p] = Idle]
    /\ Registry!Crash(p)
    /\ Abandoned(p)
    /\ UNCHANGED <<release, permit, file, goals, runs>>

PowerLoss ==
    /\ run' = [p \in Procs |-> Idle]
    /\ Registry!PowerLoss
    /\ inflight' = inflight \cup {p \in Procs : At(p, "consume")}
    /\ UNCHANGED <<release, permit, file, goals, runs>>

Revoke ==
    /\ release = "approved"
    /\ release' = "revoked"
    /\ UNCHANGED <<registry, permit, inflight, run, file, goals, runs>>

\* An abandoned request reaches the cloud after all, or never will.
LateConsume(p) ==
    /\ p \in inflight
    /\ permit[p] # "none"
    /\ permit' = [permit EXCEPT ![p] = "consumed"]
    /\ inflight' = inflight \ {p}
    /\ UNCHANGED <<registry, release, run, file, goals, runs>>

Vanish(p) ==
    /\ p \in inflight
    /\ inflight' = inflight \ {p}
    /\ UNCHANGED <<registry, release, permit, run, file, goals, runs>>

-----------------------------------------------------------------------------
Progress(p) ==
    \/ RegistryStep(p) \/ ClaimAnswered(p)
    \/ AnswerLost(p) \/ Refused(p)
    \/ GetRelease(p) \/ RequestPermit(p) \/ FinalRelease(p) \/ Consume(p)
    \/ SubmitEvidence(p) \/ RetrieveEvidence(p)
    \/ Observe(p) \/ ObserveJointState(p)
    \/ BeginFinalBoundary(p) \/ ObserveAgain(p) \/ Authorize(p)
    \/ LocalPermitCurrent(p) \/ Dispatch(p)
    \/ Persist(p) \/ Record(p) \/ Catch(p) \/ Finish(p)

Next ==
    \/ \E p \in Procs :
          \/ \E id \in Identities : Receive(p, id)
          \/ Progress(p) \/ Crash(p) \/ LateConsume(p) \/ Vanish(p)
    \/ Revoke
    \/ PowerLoss

Spec == Init /\ [][Next]_vars

\* A request ends by an answer, an error or its timeout.
FairSpec == Spec /\ \A p \in Procs : WF_vars(Progress(p))
-----------------------------------------------------------------------------
\* A proposal moves the robot at most once, although it may be delivered again
\* and again, to several runtimes, across their crashes and restarts.
OneGoalPerProposal == \A id \in Identities : goals[id] <= 1

\* No goal is sent unless the cloud has this run's permit as consumed: an
\* unknown outcome never leads to a dispatch
\* (docs/EXTERNAL_ROS2_SHADOW_VALIDATION.md).
GoalNeedsConsumedPermit ==
    \A p \in Procs : run[p].pc = "dispatch" \/ (run[p].pc # "idle" /\ run[p].sent)
                        => permit[p] = "consumed"

\* No goal is sent when the release was revoked before the final boundary of
\* the run was entered, whatever the first query of the run had answered.
NoGoalAfterRevocation ==
    \A p \in Procs : run[p].pc # "idle" /\ run[p].sent => ~run[p].late

\* The local evidence is right about the goal and about the cloud permit: it
\* says "consumed" only when it is, and "not_consumed" only when it is not and
\* never will be, however answers are lost or late.
FiledTruthfully ==
    \A p \in Procs : file[p] # None =>
        /\ run[p].pc # "idle" => file[p].sent = run[p].sent
        /\ file[p].consumption = "consumed" => permit[p] = "consumed"
        /\ file[p].consumption = "not_consumed" =>
              permit[p] # "consumed" /\ p \notin inflight

\* A run that sent a goal and was not killed leaves local evidence of it, unless
\* its first write and the one of the catch block both failed.
NoSilentGoal ==
    \A p \in Procs : run[p].pc = "ended" /\ run[p].sent /\ file[p] = None
                        => run[p].failures >= 2

\* Every run comes to an end or dies with its process, however lossy the
\* network is.
EveryRunEnds == \A p \in Procs : run[p].pc # "idle" ~> run[p].pc = "idle"
=============================================================================
