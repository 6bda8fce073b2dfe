--------------------------- MODULE UR5eValidation ---------------------------
(***************************************************************************)
(* rlsok validate-ur5e (src/apps/cli/validate-ur5e.ts): preflight, record  *)
(* and finalize fill one directory with the proof that a release was       *)
(* bound, evaluated in Shadow and refused after its revocation.  record    *)
(* starts from what setup saved; finalize submits the saved proposal once  *)
(* more, by a Shadow run of its own.  Each command checks everything the   *)
(* commands before it left, by hash; there is no lock.  A file is written  *)
(* in place, so that a killed command may leave it torn.                   *)
(*                                                                         *)
(* The robot and its discovery are the same throughout.  A file stands for *)
(* its hash.                                                               *)
(***************************************************************************)
EXTENDS Onboarding

CONSTANTS
    Preflights, Records, Finalizes,   \* the commands of the validation
    Operators,
    Session,              \* the result file of finalize, in the directory
    Torn,                 \* a file whose writer was killed
    ClaimsMayBeCleared    \* whether the replay directory may be cleared

Validations == Preflights \cup Records \cup Finalizes

\* A process runs one command.
ASSUME ValidationAssumption ==
    /\ Validations \subseteq Commands \ Setups
    /\ Session \in Paths \ Names
    /\ ClaimsMayBeCleared \in BOOLEAN

VARIABLES
    dir,        \* per file of the directory, its content or None
    manifest,   \* manifest.json
    sums,       \* SHA256SUMS
    operator,   \* per command, who runs it
    memo        \* per command, what it has read

dirVars == <<dir, manifest, sums>>
validationVars == <<dirVars, operator, memo>>
fieldVars == <<shadowVars, setupVars, validationVars>>

FileNames == {"preflight", "shadow", "binding", "negative", "record", "result"}
Recorded == {"preflight", "shadow", "binding", "negative", "record"}

NoMemo == [session |-> None, setup |-> None, release |-> None, proposal |-> None, files |-> None]

FieldInit ==
    /\ SetupInit
    /\ dir = [f \in FileNames |-> None]
    /\ manifest = None /\ sums = None
    /\ operator = [c \in Commands |-> None]
    /\ memo = [c \in Commands |-> NoMemo]

Forget(c) ==
    /\ memo' = [memo EXCEPT ![c] = NoMemo]
    /\ operator' = [operator EXCEPT ![c] = None]

ValidationFail(c) == Fail(c) /\ Forget(c) /\ UNCHANGED <<setupVars, dirVars>>

\* A validation begins while no other is at work; a setup may be.
BeginValidation(c, place, who) ==
    /\ MayStart(c) /\ AtWork \cap Validations = {}
    /\ operator' = [operator EXCEPT ![c] = who]
    /\ Goto(c, place)
    /\ UNCHANGED <<cloudVars, credentials, runVars, localVars, setupVars, dirVars, memo>>

-----------------------------------------------------------------------------
(* The directory.                                                          *)

Content(f) == IF f = "revocation" THEN resultFile[Session] ELSE dir[f]

\* filesBelow: every file but the two that describe the others.
Listing ==
    LET there == {f \in FileNames \cup {"revocation"} : Content(f) # None} IN
    [f \in there |-> Content(f)]

Readable(f) == dir[f] \notin {None, Torn}

\* readVerifiedManifest; further files in the directory are not looked at.
Verified(phase, status, required) ==
    /\ manifest \notin {None, Torn}
    /\ manifest.phase = phase /\ manifest.status = status
    /\ \A f \in DOMAIN manifest.files : Content(f) = manifest.files[f]
    /\ required \subseteq DOMAIN manifest.files
    /\ sums = [files |-> manifest.files, manifest |-> manifest]

\* writeProtected of one file.
Write(c, f, content, next) ==
    /\ dir' = [dir EXCEPT ![f] = content]
    /\ Goto(c, next)
    /\ UNCHANGED <<cloudVars, credentials, runVars, localVars, setupVars, manifest, sums, operator, memo>>

\* writeManifest, first half; what it listed is used again for the sums.
WriteManifest(c, status, phase) ==
    /\ manifest' = [status |-> status, phase |-> phase, session |-> memo[c].session, files |-> Listing]
    /\ memo' = [memo EXCEPT ![c].files = Listing]
    /\ Goto(c, "sums")
    /\ UNCHANGED <<cloudVars, credentials, runVars, localVars, setupVars, dir, sums, operator>>

\* Second half: the sum of the manifest is that of the file as it is now.
WriteSums(c) ==
    /\ pc[c] = "sums"
    /\ sums' = [files |-> memo[c].files, manifest |-> manifest]
    /\ End(c, "done") /\ Forget(c)
    /\ UNCHANGED <<cloudVars, credentials, runVars, setupVars, dir, manifest>>

-----------------------------------------------------------------------------
(* preflight                                                               *)

Empty == DOMAIN Listing = {} /\ manifest = None /\ sums = None

\* Only an empty directory is taken; the session is a new one.
BeginPreflight(c) ==
    /\ pc[c] = "preflight"
    /\ IF Empty
       THEN /\ memo' = [memo EXCEPT ![c].session = c]
            /\ Goto(c, "preflightFile")
            /\ UNCHANGED <<cloudVars, credentials, runVars, localVars, setupVars, dirVars, operator>>
       ELSE ValidationFail(c)

WritePreflight(c) ==
    /\ pc[c] = "preflightFile"
    /\ Write(c, "preflight", [session |-> c, operator |-> operator[c]], "preflightManifest")

PreflightManifest(c) ==
    /\ pc[c] = "preflightManifest" /\ WriteManifest(c, "PENDING", "preflight")

-----------------------------------------------------------------------------
(* record                                                                  *)

\* assertSessionIdentity
SameSession(c, f) ==
    /\ dir[f].session = manifest.session
    /\ dir[f].operator = operator[c]

\* readSetup, readRelease and assertSetupReleaseBinding, with the copy.
SetupIsBound ==
    /\ setupFile # None
    /\ releaseFile[setupFile.name] # None
    /\ releaseFile[setupFile.name].approved
    /\ copy = "whole"
    /\ proposalFile[setupFile.name] # None

\* The Shadow run of setup, of the saved proposal.
ShadowIsProven ==
    LET result == resultFile[setupFile.name] IN
    /\ result \notin {None, Reserved}
    /\ result.allowed /\ result.verified
    /\ result.proposal = proposalFile[setupFile.name]

\* cloudConfigForSetup
SetupCloud == credentials = setupFile.cloud

\* What record checks before it asks the cloud.
BeginRecord(c) ==
    /\ pc[c] = "record"
    /\ IF /\ Verified("preflight", "PENDING", {"preflight"})
          /\ Readable("preflight") /\ SameSession(c, "preflight")
          /\ SetupIsBound /\ ShadowIsProven /\ SetupCloud
       THEN /\ memo' = [memo EXCEPT ![c] =
                  [session |-> manifest.session, setup |-> setupFile,
                   release |-> releaseFile[setupFile.name],
                   proposal |-> proposalFile[setupFile.name], files |-> None]]
            /\ Goto(c, "recordEvidence")
            /\ UNCHANGED <<cloudVars, credentials, runVars, localVars, setupVars, dirVars, operator>>
       ELSE ValidationFail(c)

\* The cloud's copy of the evidence names the release that was read; and
\* the evidence is copied as the file is by now.
CopyEvidence(c) ==
    LET result == resultFile[memo[c].setup.name] IN
    /\ pc[c] = "recordEvidence"
    /\ IF result.content = memo[c].release /\ result.at = memo[c].setup.cloud
       THEN Write(c, "shadow", result, "recordBinding")
       ELSE ValidationFail(c)

\* The files are hashed after the wait, the release as it was read before.
WriteBinding(c) ==
    LET setup == memo[c].setup
        n == setup.name IN
    /\ pc[c] = "recordBinding"
    /\ IF setupFile = None \/ releaseFile[n] = None \/ proposalFile[n] = None
       THEN ValidationFail(c)
       ELSE Write(c, "binding",
                [session |-> memo[c].session, operator |-> operator[c], name |-> n,
                 release |-> memo[c].release, setup |-> setup, setupFile |-> setupFile,
                 releaseFile |-> releaseFile[n], proposal |-> proposalFile[n],
                 evidence |-> resultFile[n]], "recordNegative")

WriteNegative(c) ==
    /\ pc[c] = "recordNegative"
    /\ Write(c, "negative", [session |-> memo[c].session, name |-> memo[c].setup.name], "recordRecord")

WriteRecord(c) ==
    /\ pc[c] = "recordRecord"
    /\ Write(c, "record",
          [session |-> memo[c].session, operator |-> operator[c], name |-> memo[c].setup.name,
           binding |-> dir["binding"], negative |-> dir["negative"], shadow |-> dir["shadow"]],
          "recordManifest")

RecordManifest(c) == pc[c] = "recordManifest" /\ WriteManifest(c, "PENDING", "record")

-----------------------------------------------------------------------------
(* finalize                                                                *)

\* The recorded files belong together.
RecordIsWhole(c) ==
    /\ Verified("record", "PENDING", Recorded)
    /\ \A f \in Recorded : Readable(f)
    /\ \A f \in {"preflight", "binding", "record"} : SameSession(c, f)
    /\ dir["negative"].session = manifest.session
    /\ dir["binding"].name = dir["record"].name /\ dir["negative"].name = dir["record"].name
    /\ \A f \in {"binding", "negative", "shadow"} : dir["record"][f] = dir[f]

\* What setup saved is what was recorded.
SetupUnchanged ==
    LET binding == dir["binding"]
        n == setupFile.name IN
    /\ SetupIsBound
    /\ binding.setupFile = setupFile /\ binding.setup = setupFile
    /\ binding.releaseFile = releaseFile[n] /\ binding.release = releaseFile[n]
    /\ binding.proposal = proposalFile[n]
    /\ binding.evidence = resultFile[n]

BeginFinalize(c) ==
    /\ pc[c] = "finalize"
    /\ IF RecordIsWhole(c) /\ SetupUnchanged /\ SetupCloud
       THEN /\ memo' = [memo EXCEPT ![c] =
                  [session |-> manifest.session, setup |-> setupFile,
                   release |-> releaseFile[setupFile.name],
                   proposal |-> None, files |-> None]]
            /\ Goto(c, "finalizeRelease")
            /\ UNCHANGED <<cloudVars, credentials, runVars, localVars, setupVars, dirVars, operator>>
       ELSE ValidationFail(c)

\* The cloud says the exact release is revoked; the Shadow run begins.
ConfirmRevoked(c) ==
    LET n == memo[c].setup.name
        cloud == memo[c].setup.cloud IN
    /\ pc[c] = "finalizeRelease"
    /\ IF registered[cloud][n] = memo[c].release /\ state[cloud][n] = "revoked"
       THEN /\ name' = [name EXCEPT ![c] = n]
            /\ path' = [path EXCEPT ![c] = Session]
            /\ Goto(c, "shadow")
            /\ UNCHANGED <<cloudVars, credentials, runVars, endpoint, loaded, running, outcome,
                           late, setupVars, validationVars>>
       ELSE ValidationFail(c)

\* Slip: any denial of the run is taken for the denial by the revocation.
RevocationBlocked(c) == ~outcome[c].allowed

\* Exit code, evidence file and the cloud's copy of the evidence.
RevocationProven(c) ==
    /\ ~outcome[c].allowed
    /\ resultFile[Session].reason = "revoked" /\ resultFile[Session].verified
    /\ resultFile[Session].proposal = proposalFile[memo[c].setup.name]
    /\ resultFile[Session].content = memo[c].release
    /\ resultFile[Session].at = memo[c].setup.cloud

WriteResult(c) ==
    /\ pc[c] = "exit"
    /\ IF RevocationProven(c)
       THEN Write(c, "result",
                [session |-> memo[c].session, operator |-> operator[c], name |-> memo[c].setup.name],
                "finalizeManifest")
       ELSE ValidationFail(c)

FinalizeManifest(c) == pc[c] = "finalizeManifest" /\ WriteManifest(c, "PASSED", "finalize")

-----------------------------------------------------------------------------
PreflightStep(c) == BeginPreflight(c) \/ WritePreflight(c) \/ PreflightManifest(c) \/ WriteSums(c)

RecordStep(c) ==
    \/ BeginRecord(c) \/ CopyEvidence(c) \/ WriteBinding(c) \/ WriteNegative(c)
    \/ WriteRecord(c) \/ RecordManifest(c) \/ WriteSums(c)

FinalizeStep(c) ==
    \/ BeginFinalize(c) \/ ConfirmRevoked(c)
    \/ /\ ShadowStep(c)
       /\ IF pc'[c] = "failed" THEN Forget(c) ELSE UNCHANGED <<memo, operator>>
       /\ UNCHANGED <<setupVars, dirVars>>
    \/ WriteResult(c) \/ FinalizeManifest(c) \/ WriteSums(c)

\* The file a command would write next, torn by a kill.
TearNext(c) ==
    LET Writing == [preflightFile |-> "preflight", recordEvidence |-> "shadow",
                    recordBinding |-> "binding", recordNegative |-> "negative",
                    recordRecord |-> "record"] IN
    \/ /\ pc[c] \in DOMAIN Writing
       /\ dir' = [dir EXCEPT ![Writing[pc[c]]] = Torn]
       /\ UNCHANGED <<manifest, sums>>
    \/ /\ pc[c] = "exit" /\ RevocationProven(c)
       /\ dir' = [dir EXCEPT !["result"] = Torn]
       /\ UNCHANGED <<manifest, sums>>
    \/ /\ pc[c] \in {"preflightManifest", "recordManifest", "finalizeManifest"}
       /\ manifest' = Torn /\ UNCHANGED <<dir, sums>>
    \/ /\ pc[c] = "sums"
       /\ sums' = Torn /\ UNCHANGED <<dir, manifest>>

\* A command is killed, or a file, the discovery or the network fails it.
ValidationBroken(c) ==
    /\ c \in AtWork
    /\ End(c, "failed") /\ Forget(c)
    /\ TearNext(c) \/ UNCHANGED dirVars
    /\ UNCHANGED <<cloudVars, credentials, runVars, setupVars>>

FieldNext ==
    \/ SetupNext /\ UNCHANGED validationVars
    \/ ClaimsMayBeCleared /\ ClearClaims /\ UNCHANGED <<setupVars, validationVars>>
    \/ \E who \in Operators :
          \/ \E c \in Preflights : BeginValidation(c, "preflight", who)
          \/ \E c \in Records : BeginValidation(c, "record", who)
          \/ \E c \in Finalizes : BeginValidation(c, "finalize", who)
    \/ \E c \in Preflights : PreflightStep(c)
    \/ \E c \in Records : RecordStep(c)
    \/ \E c \in Finalizes : FinalizeStep(c)
    \/ \E c \in Validations : ValidationBroken(c)

FieldSpec == FieldInit /\ [][FieldNext]_fieldVars

-----------------------------------------------------------------------------
(***************************************************************************)
(* A directory whose manifest says PASSED and whose sums agree proves what *)
(* it claims: one operator and one session throughout, a verified Shadow   *)
(* run that allowed the approved release, and a verified denial of the     *)
(* same proposal and content because the release is revoked; whatever      *)
(* commands were killed, repeated or given other names in between.         *)
(***************************************************************************)
PassedIsProven ==
    Verified("finalize", "PASSED", {}) =>
        LET binding == dir["binding"]
            shadow == dir["shadow"]
            denial == resultFile[Session]
            signed == {dir["preflight"], binding, dir["record"], dir["result"]} IN
        /\ {f.session : f \in signed} = {manifest.session}
        /\ Cardinality({f.operator : f \in signed}) = 1
        /\ dir["record"].binding = binding /\ dir["record"].shadow = shadow
        /\ shadow.allowed /\ shadow.verified /\ shadow.content = binding.release
        /\ denial.reason = "revoked" /\ denial.verified
        /\ denial.content = binding.release /\ denial.proposal = shadow.proposal
        /\ registered[denial.at][binding.name] = binding.release
        /\ state[denial.at][binding.name] = "revoked" /\ denial.at = shadow.at

(***************************************************************************)
(* finalize submits the same bound proposal and gets the denial of a       *)
(* revoked release, as docs/PHYSICAL_UR5E_VALIDATION.md says of it.        *)
(***************************************************************************)
RevocationIsTheReason ==
    \A c \in Finalizes : pc[c] = "exit" => outcome[c].reason = "revoked"

=============================================================================
