----------------------------- MODULE ShadowRun -----------------------------
(***************************************************************************)
(* One cloud-connected Shadow evaluation of one saved proposal: rlsok ros2 *)
(* shadow --proposal-file --once (src/apps/cli/ros2.ts) and the workflow   *)
(* it runs (src/packages/cloud-client/ros2-workflow.ts), as setup and      *)
(* finalize call it.  The files it reads and writes belong to those        *)
(* commands as well and are declared here, with the cloud service, which   *)
(* is not in the repository.                                               *)
(*                                                                         *)
(* A release is known by its name.  What a release file holds is a         *)
(* content: who drafted it, whether it is the approved form.  The hash of  *)
(* a content covers both.  A proposal is known by the command that made    *)
(* it.  Dispatch does not exist in this mode.                              *)
(***************************************************************************)
EXTENDS Integers, FiniteSets

CONSTANTS
    Commands,   \* commands of the operator, each a process
    Names,      \* release names
    Clouds,     \* cloud endpoints
    Paths,      \* result files: the names, and one for a validation session
    Reserved,   \* a result file that is still empty
    None

Contents == [name : Names, drafter : Commands, approved : BOOLEAN]
Results == [proposal : Commands, content : Contents, at : Clouds, allowed : BOOLEAN,
            reason : {"allowed", "duplicate", "registry", "content", "draft", "revoked",
                      "boundary", "failed"},
            verified : BOOLEAN]

\* A name is a path too: setup's result file carries it.
ASSUME RunAssumption ==
    /\ Names \subseteq Paths
    /\ None \notin Commands \cup Names \cup Clouds \cup Contents \cup Results
    /\ Reserved \notin Results \cup {None}

VARIABLES
    \* the clouds
    registered,   \* per endpoint and name, the content it holds, or None
    state,        \* per endpoint and name, "draft", "approved" or "revoked"
    \* this runtime's files
    credentials,  \* the endpoint of the stored credentials, or None
    releaseFile,  \* per name
    proposalFile, \* per name
    resultFile,   \* per path: None, Reserved or a result
    claimed,      \* the replay registry: pairs of a content and a proposal
    \* the commands
    pc,
    name, path,   \* what a command was told to run on
    endpoint,     \* the cloud its client was made for
    loaded,       \* the release it read
    running,      \* the proposal it runs
    outcome,      \* the result it reports
    late          \* history: runs revoked before their boundary, or their claim

cloudVars == <<registered, state>>
runVars == <<releaseFile, proposalFile, resultFile, claimed>>
localVars == <<name, path, endpoint, loaded, running, outcome, late>>
shadowVars == <<cloudVars, credentials, runVars, pc, localVars>>

Goto(c, place) == pc' = [pc EXCEPT ![c] = place]

\* A new machine, or one that was paired before.
ShadowInit ==
    /\ registered = [u \in Clouds |-> [n \in Names |-> None]]
    /\ state = [u \in Clouds |-> [n \in Names |-> "draft"]]
    /\ credentials \in Clouds \cup {None}
    /\ releaseFile = [n \in Names |-> None]
    /\ proposalFile = [n \in Names |-> None]
    /\ resultFile = [p \in Paths |-> None]
    /\ claimed = {}
    /\ pc = [c \in Commands |-> "new"]
    /\ name = [c \in Commands |-> None] /\ path = [c \in Commands |-> None]
    /\ endpoint = [c \in Commands |-> None]
    /\ loaded = [c \in Commands |-> None] /\ running = [c \in Commands |-> None]
    /\ outcome = [c \in Commands |-> None]
    /\ late = {}

\* A command ends: what it had in its memory is gone.
End(c, how) ==
    /\ Goto(c, how)
    /\ endpoint' = [endpoint EXCEPT ![c] = None]
    /\ loaded' = [loaded EXCEPT ![c] = None]
    /\ running' = [running EXCEPT ![c] = None]
    /\ outcome' = [outcome EXCEPT ![c] = None]
    /\ late' = late \ {c}
    /\ UNCHANGED <<name, path>>

Fail(c) == End(c, "failed") /\ UNCHANGED <<cloudVars, credentials, runVars>>

-----------------------------------------------------------------------------
(* The administrator, in the cloud.                                        *)

\* Approval finalizes the content: its hash is another one.
Approve(u, n) ==
    /\ registered[u][n] # None /\ state[u][n] = "draft"
    /\ state' = [state EXCEPT ![u][n] = "approved"]
    /\ registered' = [registered EXCEPT ![u][n].approved = TRUE]
    /\ UNCHANGED <<credentials, runVars, pc, localVars>>

\* Runs of the release that have claimed and not been through their boundary.
BeforeBoundary(u, n) ==
    {c \in Commands : pc[c] \in {"judge", "boundary"} /\ endpoint[c] = u /\ name[c] = n}

Revoke(u, n) ==
    /\ registered[u][n] # None /\ state[u][n] # "revoked"
    /\ state' = [state EXCEPT ![u][n] = "revoked"]
    /\ late' = late \cup BeforeBoundary(u, n)
    /\ UNCHANGED <<registered, credentials, runVars, pc, name, path, endpoint, loaded, running,
                   outcome>>

-----------------------------------------------------------------------------
(* The run.                                                                *)

\* What is known of the run so far, with its decision.
Answer(c, proposal, at, allowed, reason) ==
    [proposal |-> proposal, content |-> loaded[c], at |-> at, allowed |-> allowed,
     reason |-> reason, verified |-> FALSE]

Decided(c, allowed, reason) == Answer(c, running[c], endpoint[c], allowed, reason)

\* The release is read, the registry is ready, and the result file is
\* created; one that exists is never adopted.
ShadowOpen(c) ==
    /\ pc[c] = "shadow"
    /\ releaseFile[name[c]] # None
    /\ resultFile[path[c]] = None
    /\ loaded' = [loaded EXCEPT ![c] = releaseFile[name[c]]]
    /\ resultFile' = [resultFile EXCEPT ![path[c]] = Reserved]
    /\ Goto(c, "claim")
    /\ UNCHANGED <<cloudVars, credentials, releaseFile, proposalFile, claimed, name, path,
                   endpoint, running, outcome, late>>

ShadowNotOpened(c) ==
    /\ pc[c] = "shadow"
    /\ releaseFile[name[c]] = None \/ resultFile[path[c]] # None
    /\ Fail(c)

\* A release file that is not the approved form does not claim anything.
LocallyEligible(c) == loaded[c].approved /\ proposalFile[name[c]] # None

ShadowIneligible(c) ==
    /\ pc[c] = "claim" /\ (credentials = None \/ ~LocallyEligible(c))
    /\ Fail(c)

\* The client is made from the stored credentials, the saved proposal is
\* read and claimed before anything is asked of the cloud.
ShadowClaim(c) ==
    LET proposal == proposalFile[name[c]]
        claim == <<loaded[c], proposal>> IN
    /\ pc[c] = "claim" /\ credentials # None /\ LocallyEligible(c)
    /\ endpoint' = [endpoint EXCEPT ![c] = credentials]
    /\ running' = [running EXCEPT ![c] = proposal]
    /\ late' = IF state[credentials][name[c]] = "revoked" THEN late \cup {c} ELSE late
    /\ \/ /\ claim \notin claimed
          /\ claimed' = claimed \cup {claim}
          /\ Goto(c, "judge")
          /\ UNCHANGED outcome
       \/ \E refusal \in {"registry"} \cup (IF claim \in claimed THEN {"duplicate"} ELSE {}) :
             /\ outcome' = [outcome EXCEPT ![c] = Answer(c, proposal, credentials, FALSE, refusal)]
             /\ Goto(c, "report")
             /\ UNCHANGED claimed
    /\ UNCHANGED <<cloudVars, credentials, releaseFile, proposalFile, resultFile, name, path,
                   loaded>>

\* Whether the release can be asked of the endpoint at all.
Answers(c) == registered[endpoint[c]][name[c]] # None

\* Why the release denies the run, in the order of the checks; or not.
Denial(c) ==
    IF registered[endpoint[c]][name[c]] # loaded[c] THEN "content"
    ELSE IF state[endpoint[c]][name[c]] # "approved" THEN state[endpoint[c]][name[c]]
    ELSE "none"

\* The initial answer of the cloud, after the local observations.
ShadowJudge(c) ==
    /\ pc[c] = "judge" /\ Answers(c)
    /\ IF Denial(c) = "none"
       THEN Goto(c, "boundary") /\ UNCHANGED outcome
       ELSE /\ outcome' = [outcome EXCEPT ![c] = Decided(c, FALSE, Denial(c))]
            /\ Goto(c, "report")
    /\ UNCHANGED <<cloudVars, credentials, runVars, name, path, endpoint, loaded, running, late>>

\* Slip: the boundary goes by the first answer of the cloud.
ShadowBoundaryUnasked(c) ==
    /\ pc[c] = "boundary"
    /\ \E allowed \in BOOLEAN :
          outcome' = [outcome EXCEPT ![c] =
                         Decided(c, allowed, IF allowed THEN "allowed" ELSE "boundary")]
    /\ Goto(c, "report")
    /\ UNCHANGED <<cloudVars, credentials, runVars, name, path, endpoint, loaded, running, late>>

\* The final boundary: the release is asked again and the permit consumed;
\* evaluateShadow turns every error here into a blocked result.
ShadowBoundary(c) ==
    /\ pc[c] = "boundary"
    /\ \/ /\ Answers(c) /\ Denial(c) = "none"
          /\ outcome' = [outcome EXCEPT ![c] = Decided(c, TRUE, "allowed")]
       \/ outcome' = [outcome EXCEPT ![c] = Decided(c, FALSE, "boundary")]
    /\ Goto(c, "report")
    /\ UNCHANGED <<cloudVars, credentials, runVars, name, path, endpoint, loaded, running, late>>

\* An observation or a request fails before the boundary: the catch block
\* writes a result of its own and the command fails.
ShadowThrows(c) ==
    /\ pc[c] \in {"judge", "boundary"}
    /\ resultFile' = [resultFile EXCEPT ![path[c]] = Decided(c, FALSE, "failed")]
    /\ End(c, "failed")
    /\ UNCHANGED <<cloudVars, credentials, releaseFile, proposalFile, claimed>>

\* The result is written locally before the cloud has its evidence ...
ShadowReport(c) ==
    /\ pc[c] = "report"
    /\ resultFile' = [resultFile EXCEPT ![path[c]] = outcome[c]]
    /\ Goto(c, "submit")
    /\ UNCHANGED <<cloudVars, credentials, releaseFile, proposalFile, claimed, localVars>>

\* ... and again when the stored evidence was read back and matches.
ShadowVerified(c) ==
    /\ pc[c] = "submit"
    /\ outcome' = [outcome EXCEPT ![c].verified = TRUE]
    /\ resultFile' = [resultFile EXCEPT ![path[c]] = outcome'[c]]
    /\ Goto(c, "exit")
    /\ UNCHANGED <<cloudVars, credentials, releaseFile, proposalFile, claimed, name, path,
                   endpoint, loaded, running, late>>

ShadowStep(c) ==
    \/ ShadowOpen(c) \/ ShadowNotOpened(c)
    \/ ShadowIneligible(c) \/ ShadowClaim(c)
    \/ ShadowJudge(c) \/ ShadowBoundary(c) \/ ShadowThrows(c)
    \/ ShadowReport(c) \/ ShadowVerified(c)

\* An administrator of the machine clears the replay directory.
ClearClaims ==
    /\ claimed # {}
    /\ claimed' = {}
    /\ UNCHANGED <<cloudVars, credentials, releaseFile, proposalFile, resultFile, pc, localVars>>

=============================================================================
