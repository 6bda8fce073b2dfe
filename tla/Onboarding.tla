----------------------------- MODULE Onboarding -----------------------------
(***************************************************************************)
(* rlsok setup (src/apps/cli/setup.ts) with the pairing it may start       *)
(* (src/apps/cli/pair.ts, src/packages/cloud-client/credentials.ts): from  *)
(* the binding of the policy artifact to the file setup.json that the      *)
(* later commands rely on.  Setups run one after another or in two         *)
(* terminals, under new names or a name given again, and may be killed at  *)
(* any step.  Its files are written in place, except the credentials,      *)
(* which are renamed into place.                                           *)
(*                                                                         *)
(* There is one policy artifact; a changed copy has another digest.        *)
(***************************************************************************)
EXTENDS ShadowRun

CONSTANTS
    Setups,     \* the setup commands
    CloudOf,    \* the endpoint each setup is given with --cloud
    Terminals,  \* bound: commands at work at once
    MaxPolls,   \* polls that fit into a pairing's or an approval's time
    CopyChanges     \* what the owner may turn the protected copy into

ASSUME SetupAssumption ==
    /\ Setups \subseteq Commands /\ CloudOf \in [Setups -> Clouds]
    /\ MaxPolls \in Nat /\ CopyChanges \subseteq {"absent", "other"}

VARIABLES
    copy,       \* the protected copy of the artifact: "absent", "other", "whole"
    setupFile,  \* setup.json: None, or the setup it came from
    pairing,    \* per command, what the cloud says of its pairing
    polls       \* per command, polls left before the deadline

setupVars == <<copy, setupFile, pairing, polls>>

Ended == {"done", "failed"}
AtWork == {c \in Commands : pc[c] \notin Ended \cup {"new"}}
MayStart(c) == pc[c] = "new" /\ Cardinality(AtWork) < Terminals

\* An earlier setup may have left its copy, whole or not.
SetupInit ==
    /\ ShadowInit
    /\ copy \in {"absent", "other", "whole"} /\ setupFile = None
    /\ pairing = [c \in Commands |-> "none"]
    /\ polls = [c \in Commands |-> 0]

NoWait(c) ==
    /\ pairing' = [pairing EXCEPT ![c] = "none"]
    /\ polls' = [polls EXCEPT ![c] = 0]

SetupFail(c) == Fail(c) /\ NoWait(c) /\ UNCHANGED <<copy, setupFile>>

-----------------------------------------------------------------------------
(* Discovery, binding, pairing.                                            *)

\* The discovered system is supported, and the operator names cloud and
\* release; without --release-name the name is a new one.
Begin(c, n) ==
    /\ MayStart(c)
    /\ name' = [name EXCEPT ![c] = n] /\ path' = [path EXCEPT ![c] = n]
    /\ Goto(c, IF copy = "absent" THEN "copy" ELSE "digest")
    /\ UNCHANGED <<cloudVars, credentials, runVars, endpoint, loaded, running, outcome, late,
                   copy, setupFile, pairing, polls>>

\* copyFileSync, in place: an interrupted copy stays.
BeginCopy(c) ==
    /\ pc[c] = "copy"
    /\ copy' = "other" /\ Goto(c, "copying")
    /\ UNCHANGED <<cloudVars, credentials, runVars, localVars, setupFile, pairing, polls>>

EndCopy(c) ==
    /\ pc[c] = "copying"
    /\ copy' = "whole" /\ Goto(c, "digest")
    /\ UNCHANGED <<cloudVars, credentials, runVars, localVars, setupFile, pairing, polls>>

\* The copy is hashed, and the draft is written over what the name had.
CheckDigest(c) ==
    /\ pc[c] = "digest"
    /\ IF copy = "whole"
       THEN /\ releaseFile' = [releaseFile EXCEPT ![name[c]] =
                  [name |-> name[c], drafter |-> c, approved |-> FALSE]]
            /\ Goto(c, "pair")
            /\ UNCHANGED <<cloudVars, credentials, proposalFile, resultFile, claimed, localVars, setupVars>>
       ELSE SetupFail(c)

\* An existing pairing with the endpoint is used; any other is replaced.
Pair(c) ==
    /\ pc[c] = "pair"
    /\ Goto(c, IF credentials = CloudOf[c] THEN "connect"
               ELSE IF credentials = None THEN "pairNew" ELSE "pairReplace")
    /\ UNCHANGED <<cloudVars, credentials, runVars, localVars, setupVars>>

\* The pairing command reads the credentials again and starts a pairing.
StartPairing(c) ==
    /\ pc[c] \in {"pairNew", "pairReplace"}
    /\ IF pc[c] = "pairNew" /\ credentials # None
       THEN SetupFail(c)
       ELSE /\ pairing' = [pairing EXCEPT ![c] = "pending"]
            /\ polls' = [polls EXCEPT ![c] = MaxPolls]
            /\ Goto(c, "paired")
            /\ UNCHANGED <<cloudVars, credentials, runVars, localVars, copy, setupFile>>

\* The administrator answers the pairing, or lets it expire.
AnswerPairing(c, answer) ==
    /\ pairing[c] = "pending"
    /\ pairing' = [pairing EXCEPT ![c] = answer]
    /\ UNCHANGED <<shadowVars, copy, setupFile, polls>>

OneLess(c) == polls' = [polls EXCEPT ![c] = @ - 1]

\* One turn of the loop, up to the expiry the cloud set.
PollPairing(c) ==
    /\ pc[c] = "paired"
    /\ \/ /\ polls[c] > 0 /\ pairing[c] = "approved"
          /\ credentials' = CloudOf[c]
          /\ Goto(c, "connect") /\ NoWait(c)
          /\ UNCHANGED <<cloudVars, runVars, localVars, copy, setupFile>>
       \/ /\ polls[c] > 0 /\ pairing[c] = "pending"
          /\ OneLess(c)
          /\ UNCHANGED <<shadowVars, copy, setupFile, pairing>>
       \/ /\ polls[c] = 0 \/ pairing[c] \in {"revoked", "expired"}
          /\ SetupFail(c)

-----------------------------------------------------------------------------
(* Draft, approval, Shadow.                                                *)

\* The stored credentials are read once more; they say which cloud it is.
Connect(c) ==
    /\ pc[c] = "connect"
    /\ IF credentials = None
       THEN SetupFail(c)
       ELSE /\ endpoint' = [endpoint EXCEPT ![c] = credentials]
            /\ Goto(c, "draft")
            /\ UNCHANGED <<cloudVars, credentials, runVars, name, path, loaded, running,
                           outcome, late, setupVars>>

\* The draft is created in the cloud; its answer may be lost.
CreateDraft(c) ==
    /\ pc[c] = "draft"
    /\ IF registered[endpoint[c]][name[c]] # None
       THEN SetupFail(c)
       ELSE /\ registered' = [registered EXCEPT ![endpoint[c]][name[c]] =
                  [name |-> name[c], drafter |-> c, approved |-> FALSE]]
            /\ \/ Goto(c, "wait") /\ polls' = [polls EXCEPT ![c] = MaxPolls]
                  /\ UNCHANGED <<localVars, pairing>>
               \/ End(c, "failed") /\ NoWait(c)
            /\ UNCHANGED <<state, credentials, runVars, copy, setupFile>>

\* What ends the wait well.
ReadyToRun(c) == state[endpoint[c]][name[c]] = "approved" /\ registered[endpoint[c]][name[c]].approved

\* waitForApproval, one turn: the approved content replaces the draft file.
AwaitApproval(c) ==
    /\ pc[c] = "wait"
    /\ \/ /\ polls[c] > 0 /\ ReadyToRun(c)
          /\ releaseFile' = [releaseFile EXCEPT ![name[c]] = registered[endpoint[c]][name[c]]]
          /\ Goto(c, "rehash") /\ NoWait(c)
          /\ UNCHANGED <<cloudVars, credentials, proposalFile, resultFile, claimed, localVars, copy, setupFile>>
       \/ /\ polls[c] > 0 /\ state[endpoint[c]][name[c]] = "draft"
          /\ OneLess(c)
          /\ UNCHANGED <<shadowVars, copy, setupFile, pairing>>
       \/ /\ polls[c] = 0 \/ state[endpoint[c]][name[c]] = "revoked"
          /\ SetupFail(c)

\* The copy is hashed again, and a proposal is made from the live state.
Propose(c) ==
    /\ pc[c] = "rehash"
    /\ IF copy = "whole"
       THEN /\ proposalFile' = [proposalFile EXCEPT ![name[c]] = c]
            /\ Goto(c, "shadow")
            /\ UNCHANGED <<cloudVars, credentials, releaseFile, resultFile, claimed, localVars, setupVars>>
       ELSE SetupFail(c)

\* Slip: setup.json is written whatever the Shadow run said.
ShadowPassedAnyway(c) == resultFile[path[c]] \notin {None, Reserved}

\* Exit code and evidence of the Shadow run.
ShadowPassed(c) ==
    /\ outcome[c].allowed
    /\ resultFile[path[c]] \notin {None, Reserved}
    /\ resultFile[path[c]].allowed /\ resultFile[path[c]].verified

Complete(c) ==
    /\ pc[c] = "exit"
    /\ IF ShadowPassed(c)
       THEN /\ setupFile' = [name |-> name[c], by |-> c, cloud |-> CloudOf[c]]
            /\ End(c, "done")
            /\ UNCHANGED <<cloudVars, credentials, runVars, copy, pairing, polls>>
       ELSE SetupFail(c)

SetupStep(c) ==
    \/ BeginCopy(c) \/ EndCopy(c) \/ CheckDigest(c)
    \/ Pair(c) \/ StartPairing(c) \/ PollPairing(c)
    \/ Connect(c) \/ CreateDraft(c) \/ AwaitApproval(c) \/ Propose(c)
    \/ ShadowStep(c) /\ UNCHANGED setupVars
    \/ Complete(c)

-----------------------------------------------------------------------------
(* Kills, failures and the owner of the files.                             *)

\* A file that is being written in place when its command dies is unreadable.
TearSetup(c) ==
    \/ /\ pc[c] = "digest" /\ copy = "whole"
       /\ releaseFile' = [releaseFile EXCEPT ![name[c]] = None]
       /\ UNCHANGED <<proposalFile, setupFile>>
    \/ /\ pc[c] = "wait" /\ ReadyToRun(c)
       /\ releaseFile' = [releaseFile EXCEPT ![name[c]] = None]
       /\ UNCHANGED <<proposalFile, setupFile>>
    \/ /\ pc[c] = "rehash"
       /\ proposalFile' = [proposalFile EXCEPT ![name[c]] = None]
       /\ UNCHANGED <<releaseFile, setupFile>>
    \/ /\ pc[c] = "exit" /\ c \in Setups /\ ShadowPassed(c)
       /\ setupFile' = None
       /\ UNCHANGED <<releaseFile, proposalFile>>

\* A command is killed; or discovery, a file, the network or the cloud fails.
SetupBroken(c) ==
    /\ c \in AtWork
    /\ End(c, "failed") /\ NoWait(c)
    /\ TearSetup(c) \/ UNCHANGED <<releaseFile, proposalFile, setupFile>>
    /\ UNCHANGED <<cloudVars, credentials, resultFile, claimed, copy>>

\* The owner damages the protected copy, or removes a bad one as the error asks.
ChangeCopy(content) ==
    /\ copy = IF content = "absent" THEN "other" ELSE "whole"
    /\ copy' = content
    /\ UNCHANGED <<shadowVars, setupFile, pairing, polls>>

AnswerOf(c) == \E answer \in {"approved", "revoked", "expired"} : AnswerPairing(c, answer)

Administration ==
    \/ (\E u \in Clouds, n \in Names : Approve(u, n) \/ Revoke(u, n)) /\ UNCHANGED setupVars
    \/ \E content \in CopyChanges : ChangeCopy(content)

SetupNext ==
    \/ \E c \in Setups : (\E n \in Names : Begin(c, n)) \/ SetupStep(c) \/ SetupBroken(c) \/ AnswerOf(c)
    \/ Administration

-----------------------------------------------------------------------------
(***************************************************************************)
(* What a finished setup saved holds together, whatever other setups,      *)
(* kills and failures came before or after: the release file is the        *)
(* approved form of that setup's own draft, its evidence is a verified     *)
(* Shadow run of exactly this content and of the saved proposal, and no    *)
(* run allowed what was revoked before the run began.  A name given to a   *)
(* second setup is excepted: that setup writes over the files.             *)
(***************************************************************************)
NameReused(s) == \E c \in Setups \ {s.by} : name[c] = s.name

SetupHoldsTogether ==
    setupFile # None /\ ~NameReused(setupFile) =>
        LET n == setupFile.name IN
        /\ releaseFile[n] = [name |-> n, drafter |-> setupFile.by, approved |-> TRUE]
        /\ proposalFile[n] = setupFile.by
        /\ \E u \in Clouds :
              /\ registered[u][n] = releaseFile[n]
              /\ resultFile[n] = [proposal |-> setupFile.by, content |-> releaseFile[n], at |-> u,
                                  allowed |-> TRUE, reason |-> "allowed", verified |-> TRUE]

(***************************************************************************)
(* A Shadow run that is allowed ran the content the administrator          *)
(* approved, and neither was begun after its revocation nor had its final  *)
(* boundary still before it when the release was revoked: what the first   *)
(* answer of the cloud was is not enough.                                  *)
(***************************************************************************)
AllowedOnlyUnderApproval ==
    \A c \in Commands : outcome[c] # None /\ outcome[c].allowed =>
        /\ outcome[c].content = registered[outcome[c].at][name[c]] /\ outcome[c].content.approved
        /\ c \notin late

=============================================================================
