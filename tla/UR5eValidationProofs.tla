------------------------ MODULE UR5eValidationProofs ------------------------
(***************************************************************************)
(* That setup saves what belongs together, that a Shadow run is allowed    *)
(* only under an approval, and that a UR5e validation which says PASSED    *)
(* proves what it claims: for any commands, names, clouds and result files, *)
(* and whatever commands are killed or run at the same time.               *)
(***************************************************************************)
EXTENDS UR5eValidation, FiniteSetTheorems, TLAPS

-----------------------------------------------------------------------------
(* The inductive invariant: the clouds and the runs.                       *)

\* From the opening of the result file to the end of a run.
RunPlaces == {"claim", "judge", "boundary", "report", "submit", "exit"}
InRun(c) == pc[c] \in RunPlaces

SetupPlaces ==
    RunPlaces \cup {"new", "copy", "copying", "digest", "pair", "pairNew", "pairReplace",
                    "paired", "connect", "draft", "wait", "rehash", "shadow", "done", "failed"}

SetupRecords == [name : Names, by : Setups, cloud : Clouds]

RunTypes ==
    /\ registered \in [Clouds -> [Names -> Contents \cup {None}]]
    /\ state \in [Clouds -> [Names -> {"draft", "approved", "revoked"}]]
    /\ credentials \in Clouds \cup {None}
    /\ releaseFile \in [Names -> Contents \cup {None}]
    /\ proposalFile \in [Names -> Commands \cup {None}]
    /\ resultFile \in [Paths -> Results \cup {None, Reserved}]

CommandTypes ==
    /\ DOMAIN pc = Commands
    /\ name \in [Commands -> Names \cup {None}]
    /\ path \in [Commands -> Paths \cup {None}]
    /\ endpoint \in [Commands -> Clouds \cup {None}]
    /\ loaded \in [Commands -> Contents \cup {None}]
    /\ running \in [Commands -> Commands \cup {None}]
    /\ outcome \in [Commands -> Results \cup {None}]
    /\ setupFile \in SetupRecords \cup {None}

Types == RunTypes /\ CommandTypes

\* A release that is approved is past its draft, and the other way round unless
\* the draft was revoked; it was drafted by a setup of its name.
CloudInv ==
    \A u \in Clouds, n \in Names :
        /\ registered[u][n] = None => state[u][n] = "draft"
        /\ registered[u][n] # None =>
              /\ registered[u][n].approved => state[u][n] # "draft"
              /\ state[u][n] = "approved" => registered[u][n].approved
              /\ registered[u][n].name = n
              /\ registered[u][n].drafter \in Setups
              /\ name[registered[u][n].drafter] = n
              /\ pc[registered[u][n].drafter] # "new"

\* Which command runs on which files.
KindOf(c) ==
    /\ c \in Setups =>
          /\ pc[c] \in SetupPlaces
          /\ IF pc[c] = "new" THEN name[c] = None ELSE name[c] \in Names /\ path[c] = name[c]
    /\ c \notin Setups /\ pc[c] \in RunPlaces \cup {"shadow"} => name[c] \in Names /\ path[c] = Session

\* What a command in a run knows, by how far it is.
RunOf(c) ==
    /\ pc[c] \in {"draft", "wait"} => endpoint[c] # None
    /\ InRun(c) => loaded[c] # None /\ resultFile[path[c]] # None
    /\ pc[c] \in {"claim", "judge", "boundary", "report"} => resultFile[path[c]] = Reserved
    /\ pc[c] \in RunPlaces \ {"claim"} => endpoint[c] # None /\ running[c] # None /\ loaded[c].approved
    /\ pc[c] \in {"report", "submit", "exit"} =>
          /\ outcome[c] # None
          /\ outcome[c].content = loaded[c]
          /\ outcome[c].at = endpoint[c]
          /\ outcome[c].proposal = running[c]
    /\ pc[c] \in {"submit", "exit"} => resultFile[path[c]] = outcome[c]
    /\ pc[c] \in {"report", "submit"} => ~outcome[c].verified

OutcomeOf(c) ==
    /\ outcome[c] # None => pc[c] \in {"report", "submit", "exit", "finalizeManifest", "sums"}
    /\ outcome[c] # None /\ outcome[c].allowed =>
          /\ outcome[c].reason = "allowed"
          /\ name[c] \in Names
          /\ outcome[c].content = registered[outcome[c].at][name[c]]
          /\ outcome[c].content.approved
          /\ c \notin late

LateOf(c) ==
    c \in late =>
        /\ pc[c] \in {"judge", "boundary", "report", "submit", "exit", "finalizeManifest", "sums"}
        /\ pc[c] \in {"judge", "boundary"} => state[endpoint[c]][name[c]] = "revoked"

\* A result file belongs to the run that created it.
PathsApart ==
    \A c, d \in Commands : InRun(c) /\ InRun(d) /\ path[c] = path[d] => c = d

CommandOf(c) == KindOf(c) /\ RunOf(c) /\ OutcomeOf(c) /\ LateOf(c)

RunInv ==
    /\ Types /\ CloudInv /\ PathsApart
    /\ \A c \in Commands : CommandOf(c)

-----------------------------------------------------------------------------
(* The inductive invariant: what a setup owns.                             *)

\* No other setup was given the name.
Alone(c) == \A d \in Setups \ {c} : name[d] # name[c]

SetupOf(c) ==
    Alone(c) =>
        /\ pc[c] \in RunPlaces \cup {"rehash", "shadow"} =>
              releaseFile[name[c]] = [name |-> name[c], drafter |-> c, approved |-> TRUE]
        /\ pc[c] \in RunPlaces \cup {"shadow"} => proposalFile[name[c]] = c
        /\ InRun(c) => loaded[c] = releaseFile[name[c]]
        /\ pc[c] \in RunPlaces \ {"claim"} => running[c] = c

SetupFileInv ==
    setupFile # None =>
        pc[setupFile.by] = "done" /\ name[setupFile.by] = setupFile.name

SetupInv ==
    /\ \A c \in Setups : SetupOf(c)
    /\ SetupFileInv
    /\ SetupHoldsTogether

\* With one cloud for all setups, a name is drafted once, and only the setup
\* that drafted it gets to a proposal and a run.
Drafter(cloud, n) == registered[cloud][n].drafter

DraftOf(cloud, c) ==
    /\ pc[c] \in RunPlaces \cup {"connect", "draft", "wait", "rehash", "shadow"} => credentials = cloud
    /\ pc[c] \in {"draft", "wait"} => endpoint[c] = cloud
    /\ pc[c] \in RunPlaces \cup {"wait", "rehash", "shadow"} =>
          registered[cloud][name[c]] # None /\ Drafter(cloud, name[c]) = c
    /\ pc[c] \in RunPlaces \ {"claim"} => running[c] = proposalFile[name[c]]

EvidenceOf(cloud, n) ==
    resultFile[n] # None =>
        /\ registered[cloud][n] # None
        /\ pc[Drafter(cloud, n)] \in RunPlaces \cup {"done", "failed"}
        /\ resultFile[n] # Reserved => resultFile[n].proposal = proposalFile[n]

DraftedOnce(cloud) ==
    /\ \A c \in Setups : DraftOf(cloud, c)
    /\ \A n \in Names : EvidenceOf(cloud, n)

-----------------------------------------------------------------------------
(* The inductive invariant: the validation.                                *)

RecordPlaces == {"recordEvidence", "recordBinding", "recordNegative", "recordRecord", "recordManifest"}
DenialPlaces == RunPlaces \cup {"shadow", "finalizeManifest"}
FinalizePlaces == DenialPlaces \cup {"finalizeRelease"}

OneValidation ==
    \A c, d \in Validations : c \in AtWork /\ d \in AtWork => c = d

Phase(phase) == manifest \notin {None, Torn} /\ manifest.phase = phase

\* The Shadow run of setup, as the cloud confirmed it for the release.
Proof(result, setup, release) ==
    /\ setup \in SetupRecords
    /\ result = resultFile[setup.name] /\ result \in Results
    /\ result.allowed /\ result.verified
    /\ result.content = release /\ result.at = setup.cloud

RecordOf(c) ==
    LET setup == memo[c].setup IN
    /\ pc[c] \in {"preflightFile", "preflightManifest"} => manifest = None
    /\ pc[c] \in RecordPlaces =>
          /\ Phase("preflight")
          /\ setup \in SetupRecords
          /\ resultFile[setup.name] \in Results
          /\ resultFile[setup.name].allowed /\ resultFile[setup.name].verified
    /\ pc[c] \in RecordPlaces \ {"recordEvidence"} => Proof(dir["shadow"], setup, memo[c].release)
    /\ pc[c] \in RecordPlaces \ {"recordEvidence", "recordBinding"} =>
          /\ dir["binding"].name = setup.name /\ dir["binding"].setup = setup
          /\ dir["binding"].release = memo[c].release

\* A record, by whatever command it was written, has the proof in it.
RecordFileInv ==
    dir["record"] \notin {None, Torn} =>
        LET binding == dir["record"].binding IN
        /\ Proof(dir["record"].shadow, binding.setup, binding.release)
        /\ binding.name = binding.setup.name

\* What the directory holds for a command that found it whole.
Whole(session, who) ==
    /\ \A f \in {"preflight", "binding", "record"} :
          dir[f].session = session /\ dir[f].operator = who
    /\ dir["record"] \notin {None, Torn}
    /\ dir["record"].binding = dir["binding"] /\ dir["record"].shadow = dir["shadow"]

RevokedIn(cloud, n, release) == registered[cloud][n] = release /\ state[cloud][n] = "revoked"

\* The denial in the directory is of the recorded release and its proposal.
Denied ==
    LET binding == dir["binding"]
        denial == resultFile[Session] IN
    /\ denial \in Results /\ denial.reason = "revoked" /\ denial.verified
    /\ denial.content = binding.release
    /\ denial.at = binding.setup.cloud
    /\ denial.proposal = dir["shadow"].proposal
    /\ RevokedIn(binding.setup.cloud, binding.name, binding.release)

FinalizeOf(c) ==
    LET setup == memo[c].setup IN
    /\ pc[c] \in FinalizePlaces =>
          /\ Phase("record")
          /\ Whole(memo[c].session, operator[c])
          /\ setup = dir["binding"].setup /\ memo[c].release = dir["binding"].release
    /\ pc[c] \in DenialPlaces =>
          RevokedIn(setup.cloud, setup.name, memo[c].release)
    /\ pc[c] = "finalizeManifest" =>
          /\ dir["result"].session = memo[c].session /\ dir["result"].operator = operator[c]
          /\ Denied

PassedInv ==
    Phase("finalize") =>
        /\ Whole(manifest.session, dir["result"].operator)
        /\ dir["result"].session = manifest.session
        /\ Denied

ValidationInv ==
    /\ DOMAIN dir = FileNames /\ DOMAIN memo = Commands /\ DOMAIN operator = Commands
    /\ OneValidation
    /\ \A c \in Validations : RecordOf(c) /\ FinalizeOf(c)
    /\ RecordFileInv
    /\ PassedInv

-----------------------------------------------------------------------------
(* What a step of one command leaves to the others.                        *)

\* A run whose release is revoked while its boundary is still before it.
RevokedNow(d) ==
    pc[d] \in {"judge", "boundary"} /\ state'[endpoint[d]][name[d]] = "revoked"

Isolated(c) ==
    \A d \in Commands \ {c} :
        /\ pc'[d] = pc[d] /\ name'[d] = name[d] /\ path'[d] = path[d]
        /\ loaded'[d] = loaded[d] /\ endpoint'[d] = endpoint[d]
        /\ running'[d] = running[d] /\ outcome'[d] = outcome[d]
        /\ d \in late' => d \in late \/ RevokedNow(d)

\* Only its own files, and no result that is verified.
FilesKept(c) ==
    /\ \A p \in Paths : resultFile'[p] # resultFile[p] =>
          /\ c \in Commands /\ p = path[c]
          /\ pc[c] \in RunPlaces \ {"exit"} \/ (pc[c] = "shadow" /\ resultFile[p] = None)
          /\ resultFile'[p] # None
    /\ \A n \in Names :
          /\ releaseFile'[n] # releaseFile[n] => c \in Setups /\ name[c] = n
          /\ proposalFile'[n] # proposalFile[n] => c \in Setups /\ name[c] = n /\ pc[c] = "rehash"

\* The cloud forgets nothing, and what is approved or revoked is final.
CloudGrows ==
    \A u \in Clouds, n \in Names :
        registered[u][n] # None =>
            /\ registered'[u][n] # None /\ registered'[u][n].drafter = registered[u][n].drafter
            /\ state[u][n] # "draft" => registered'[u][n] = registered[u][n]
            /\ state[u][n] = "revoked" => state'[u][n] = "revoked"

\* A command that has begun keeps its name and does not begin again.
Begun(c) ==
    /\ pc[c] \notin Ended
    /\ pc'[c] # "new"
    /\ c \in Setups /\ pc[c] # "new" => name'[c] = name[c] /\ path'[c] = path[c]

Frame(c) == Isolated(c) /\ FilesKept(c) /\ CloudGrows /\ (c \in Commands => Begun(c))

\* A run begins with a file of its own.
OpensOwn(c) ==
    InRun(c)' => path'[c] = path[c] /\ (InRun(c) \/ resultFile[path[c]] = None)

USE SetupAssumption, RunAssumption, ValidationAssumption DEF Goto

LEMMA OthersKeep ==
    ASSUME RunInv, Types', NEW c, Frame(c), NEW d \in Commands, d # c
    PROVE  CommandOf(d)'
<1> USE DEF Frame
<1>1. CommandOf(d) /\ (InRun(c) /\ InRun(d) /\ c \in Commands => path[c] # path[d])
  BY DEF RunInv, PathsApart
<1>2. KindOf(d)'
  BY <1>1 DEF CommandOf, KindOf, Isolated
<1>3. RunOf(d)'
  <2>1. InRun(d) => path[d] \in Paths
    BY <1>1 DEF CommandOf, KindOf, InRun, RunPlaces
  <2>2. InRun(d) => resultFile'[path[d]] = resultFile[path[d]]
    BY <1>1, <2>1 DEF CommandOf, RunOf, FilesKept, InRun, RunPlaces
  <2>3. resultFile'[path[d]] = resultFile[path[d]] \/ ~InRun(d)
    BY <2>2
  <2> QED
    BY <1>1, <2>3 DEF CommandOf, RunOf, Isolated, InRun, RunPlaces
<1>4. OutcomeOf(d)'
  <2>1. ASSUME outcome[d] # None, outcome[d].allowed
        PROVE  registered'[outcome[d].at][name[d]] = registered[outcome[d].at][name[d]]
    <3>1. outcome[d].at \in Clouds /\ outcome[d].content \in Contents /\ name[d] \in Names
      BY <1>1, <2>1 DEF RunInv, Types, CommandTypes, Results, CommandOf, OutcomeOf
    <3> QED
      BY <1>1, <2>1, <3>1 DEF CommandOf, OutcomeOf, CloudGrows, RunInv, CloudInv
  <2> QED
    BY <1>1, <2>1 DEF CommandOf, OutcomeOf, Isolated, RevokedNow
<1>5. LateOf(d)'
  <2>1. pc[d] \in {"judge", "boundary"} => endpoint[d] \in Clouds /\ name[d] \in Names
    BY <1>1 DEF CommandOf, RunOf, KindOf, RunInv, Types, CommandTypes, RunPlaces
  <2> QED
    BY <1>1, <2>1 DEF CommandOf, LateOf, Isolated, RevokedNow, CloudGrows, RunInv, CloudInv
<1> QED
  BY <1>2, <1>3, <1>4, <1>5 DEF CommandOf

StepOf(c) == Types' /\ Frame(c) /\ CommandOf(c)' /\ OpensOwn(c)

\* A step that is isolated keeps the invariant if it keeps it for its command.
LEMMA StepKeepsRun ==
    ASSUME RunInv, NEW c \in Commands, StepOf(c), CloudInv'
    PROVE  RunInv'
<1>1. \A d \in Commands : CommandOf(d)'
  BY OthersKeep DEF StepOf
<1>2. PathsApart'
  <2> SUFFICES ASSUME NEW d \in Commands, NEW e \in Commands, InRun(d)', InRun(e)',
                      path'[d] = path'[e], d # e
               PROVE  FALSE
    BY DEF PathsApart
  <2>1. \A f \in Commands \ {c} : path'[f] = path[f] /\ (InRun(f)' <=> InRun(f))
    BY DEF StepOf, Frame, Isolated, InRun
  <2>2. \A f \in Commands : InRun(f) => resultFile[path[f]] # None
    BY DEF RunInv, CommandOf, RunOf
  <2> QED
    BY <2>1, <2>2 DEF StepOf, OpensOwn, RunInv, PathsApart
<1> QED
  BY <1>1, <1>2 DEF RunInv, StepOf

LEMMA CloudKept ==
    ASSUME RunInv, NEW c \in Commands, Frame(c), UNCHANGED cloudVars
    PROVE  CloudInv'
<1>1. \A d \in Setups : pc[d] # "new" => name'[d] = name[d] /\ pc'[d] # "new"
  BY DEF Frame, Isolated, Begun
<1> QED
  BY <1>1 DEF RunInv, CloudInv, cloudVars

\* A command outside a run that goes from one place to another.
LEMMA LocalStep ==
    ASSUME RunInv, NEW c \in Commands, NEW q, Goto(c, q),
           ~InRun(c), outcome[c] = None, c \notin late, pc[c] \notin Ended,
           c \in Setups => pc[c] # "new" /\ q \in SetupPlaces,
           q \notin RunPlaces \cup {"new"}, c \in Setups \/ q # "shadow",
           q \in {"draft", "wait"} => endpoint[c] # None,
           UNCHANGED localVars,
           FilesKept(c), CloudGrows, RunTypes', setupFile' \in SetupRecords \cup {None}
    PROVE  StepOf(c)
<1>1. Types'
  BY DEF RunInv, Types, CommandTypes, localVars
<1>2. pc'[c] = q /\ Isolated(c)
  BY DEF RunInv, Types, CommandTypes, localVars, Isolated
<1>3. Frame(c)
  BY <1>2 DEF Frame, Begun, localVars
<1>4. CommandOf(c)'
  BY <1>2 DEF RunInv, CommandOf, KindOf, RunOf, OutcomeOf, LateOf, InRun, RunPlaces, localVars
<1>5. OpensOwn(c)
  BY <1>2 DEF OpensOwn, InRun
<1> QED
  BY <1>1, <1>3, <1>4, <1>5 DEF StepOf

LEMMA EndStep ==
    ASSUME RunInv, NEW c \in Commands, NEW how \in Ended, End(c, how),
           pc[c] \notin Ended, pc[c] # "new",
           FilesKept(c), CloudGrows, RunTypes', setupFile' \in SetupRecords \cup {None}
    PROVE  StepOf(c)
<1>1. Types'
  BY DEF RunInv, Types, CommandTypes, End
<1>2. /\ pc'[c] = how /\ outcome'[c] = None /\ c \notin late'
      /\ name' = name /\ path' = path /\ Isolated(c)
  BY DEF RunInv, Types, CommandTypes, End, Isolated
<1>3. how \in {"done", "failed"}
  BY DEF Ended
<1>4. Frame(c)
  BY <1>2, <1>3 DEF Frame, Begun
<1>5. CommandOf(c)'
  BY <1>2, <1>3 DEF RunInv, CommandOf, KindOf, RunOf, OutcomeOf, LateOf, InRun, RunPlaces, SetupPlaces
<1>6. OpensOwn(c)
  BY <1>2, <1>3 DEF OpensOwn, InRun, RunPlaces
<1> QED
  BY <1>1, <1>4, <1>5, <1>6 DEF StepOf

LEMMA NothingTouched ==
    ASSUME NEW c, UNCHANGED <<cloudVars, releaseFile, proposalFile, resultFile>>
    PROVE  FilesKept(c) /\ CloudGrows
BY DEF FilesKept, CloudGrows, cloudVars

LEMMA FailStep ==
    ASSUME RunInv, NEW c \in Commands, Fail(c), pc[c] \notin Ended, pc[c] # "new",
           UNCHANGED setupFile
    PROVE  StepOf(c) /\ UNCHANGED cloudVars
<1>1. End(c, "failed") /\ "failed" \in Ended /\ UNCHANGED <<cloudVars, credentials, runVars>>
  BY DEF Fail, Ended
<1>2. FilesKept(c) /\ CloudGrows
  BY <1>1, NothingTouched DEF runVars
<1>3. RunTypes' /\ setupFile' \in SetupRecords \cup {None}
  BY <1>1 DEF RunInv, Types, RunTypes, CommandTypes, cloudVars, runVars
<1> QED
  BY <1>1, <1>2, <1>3, EndStep

-----------------------------------------------------------------------------
(* The setups.                                                             *)

LEMMA NothingKnown ==
    ASSUME RunInv, NEW c \in Commands,
           pc[c] \notin (RunPlaces \ {"claim"}) \cup {"finalizeManifest", "sums"}
    PROVE  outcome[c] = None /\ c \notin late
BY DEF RunInv, CommandOf, OutcomeOf, LateOf, RunPlaces

\* A setup between two of its places outside the run.
LEMMA SetupLocal ==
    ASSUME RunInv, NEW c \in Setups, NEW q \in SetupPlaces, Goto(c, q),
           pc[c] \notin RunPlaces \cup {"new", "done", "failed"},
           q \notin RunPlaces \cup {"new"},
           q \in {"draft", "wait"} => endpoint[c] # None,
           UNCHANGED localVars,
           FilesKept(c), CloudGrows, RunTypes', UNCHANGED setupFile
    PROVE  StepOf(c)
<1>1. c \in Commands /\ pc[c] \in SetupPlaces
  BY DEF RunInv, CommandOf, KindOf
<1>2. pc[c] \notin {"finalizeManifest", "sums"}
  BY <1>1 DEF SetupPlaces, RunPlaces
<1>3. setupFile' \in SetupRecords \cup {None} /\ pc[c] \notin Ended
  BY DEF RunInv, Types, CommandTypes, Ended
<1> QED
  BY <1>1, <1>2, <1>3, NothingKnown, LocalStep DEF InRun

LEMMA BeginRun ==
    ASSUME RunInv, NEW c \in Setups, NEW n \in Names, Begin(c, n)
    PROVE  StepOf(c) /\ UNCHANGED cloudVars
<1> DEFINE q == IF copy = "absent" THEN "copy" ELSE "digest"
<1>1. /\ c \in Commands /\ pc[c] = "new" /\ Goto(c, q) /\ q \in {"copy", "digest"}
      /\ name' = [name EXCEPT ![c] = n] /\ path' = [path EXCEPT ![c] = n]
      /\ UNCHANGED <<cloudVars, credentials, runVars, endpoint, loaded, running, outcome, late, setupFile>>
  BY DEF Begin, MayStart
<1> HIDE DEF q
<1>2. outcome[c] = None /\ c \notin late
  BY <1>1, NothingKnown DEF RunPlaces
<1>3. Types'
  BY <1>1 DEF RunInv, Types, RunTypes, CommandTypes, cloudVars, runVars
<1>4. pc'[c] = q /\ name'[c] = n /\ path'[c] = n /\ Isolated(c)
  BY <1>1 DEF RunInv, Types, CommandTypes, Isolated
<1>5. FilesKept(c) /\ CloudGrows
  BY <1>1, NothingTouched DEF runVars
<1>6. Frame(c)
  BY <1>1, <1>4, <1>5 DEF Frame, Begun, Ended
<1>7. CommandOf(c)'
  BY <1>1, <1>2, <1>4 DEF CommandOf, KindOf, RunOf, OutcomeOf, LateOf, InRun, RunPlaces, SetupPlaces
<1>8. OpensOwn(c)
  BY <1>1, <1>4 DEF OpensOwn, InRun, RunPlaces
<1> QED
  BY <1>1, <1>3, <1>6, <1>7, <1>8 DEF StepOf

LEMMA CopyRun ==
    ASSUME RunInv, NEW c \in Setups, BeginCopy(c) \/ EndCopy(c)
    PROVE  StepOf(c) /\ UNCHANGED cloudVars
<1>1. PICK q \in {"copying", "digest"} : Goto(c, q)
  BY DEF BeginCopy, EndCopy
<1>2. /\ pc[c] \in {"copy", "copying"}
      /\ UNCHANGED <<cloudVars, credentials, runVars, localVars, setupFile>>
  BY DEF BeginCopy, EndCopy
<1>3. FilesKept(c) /\ CloudGrows /\ RunTypes'
  BY <1>2, NothingTouched DEF RunInv, Types, RunTypes, cloudVars, runVars
<1> QED
  BY <1>1, <1>2, <1>3, SetupLocal DEF RunPlaces, SetupPlaces

LEMMA SetupFailRun ==
    ASSUME RunInv, NEW c \in Setups, SetupFail(c), pc[c] \notin {"new", "done", "failed"}
    PROVE  StepOf(c) /\ UNCHANGED cloudVars
BY FailStep DEF SetupFail, Ended

LEMMA CheckDigestRun ==
    ASSUME RunInv, NEW c \in Setups, CheckDigest(c)
    PROVE  StepOf(c) /\ UNCHANGED cloudVars
<1>1. CASE copy # "whole"
  BY <1>1, SetupFailRun DEF CheckDigest
<1>2. CASE copy = "whole"
  <2> DEFINE draft == [name |-> name[c], drafter |-> c, approved |-> FALSE]
  <2>1. /\ pc[c] = "digest" /\ Goto(c, "pair")
        /\ releaseFile' = [releaseFile EXCEPT ![name[c]] = draft]
        /\ UNCHANGED <<cloudVars, credentials, proposalFile, resultFile, localVars, setupFile>>
    BY <1>2 DEF CheckDigest, setupVars
  <2>2. name[c] \in Names
    BY <2>1 DEF RunInv, CommandOf, KindOf
  <2>3. draft \in Contents
    BY <2>2 DEF Contents
  <2> HIDE DEF draft
  <2>4. FilesKept(c) /\ CloudGrows
    BY <2>1, <2>2 DEF FilesKept, CloudGrows, RunInv, Types, RunTypes, cloudVars
  <2>5. RunTypes'
    BY <2>1, <2>2, <2>3 DEF RunInv, Types, RunTypes, cloudVars
  <2> QED
    BY <2>1, <2>4, <2>5, SetupLocal DEF RunPlaces, SetupPlaces
<1> QED
  BY <1>1, <1>2

LEMMA PairRun ==
    ASSUME RunInv, NEW c \in Setups, Pair(c) \/ StartPairing(c)
    PROVE  StepOf(c) /\ UNCHANGED cloudVars
<1>1. CASE SetupFail(c)
  BY <1>1, SetupFailRun DEF Pair, StartPairing
<1>2. CASE ~SetupFail(c)
  <2>1. PICK q \in {"connect", "pairNew", "pairReplace", "paired"} : Goto(c, q)
    BY <1>2 DEF Pair, StartPairing
  <2>2. /\ pc[c] \in {"pair", "pairNew", "pairReplace"}
        /\ UNCHANGED <<cloudVars, credentials, runVars, localVars, setupFile>>
    BY <1>2 DEF Pair, StartPairing, setupVars
  <2>3. FilesKept(c) /\ CloudGrows /\ RunTypes'
    BY <2>2, NothingTouched DEF RunInv, Types, RunTypes, cloudVars, runVars
  <2> QED
    BY <2>1, <2>2, <2>3, SetupLocal DEF RunPlaces, SetupPlaces
<1> QED
  BY <1>1, <1>2

\* Where nothing of the run changes, its invariant is kept.
LEMMA RunUntouched ==
    ASSUME RunInv, UNCHANGED <<shadowVars, setupFile>>
    PROVE  RunInv'
<1>1. UNCHANGED <<registered, state, credentials, releaseFile, proposalFile, resultFile, pc, name,
                  path, endpoint, loaded, running, outcome, late, setupFile>>
  BY DEF shadowVars, cloudVars, runVars, localVars
<1>2. Types' /\ CloudInv'
  BY <1>1 DEF RunInv, Types, RunTypes, CommandTypes, CloudInv
<1>3. PathsApart'
  BY <1>1 DEF RunInv, PathsApart, InRun
<1>4. \A c \in Commands : CommandOf(c)'
  BY <1>1 DEF RunInv, CommandOf, KindOf, RunOf, OutcomeOf, LateOf, InRun
<1> QED
  BY <1>2, <1>3, <1>4 DEF RunInv

LEMMA PollPairingRun ==
    ASSUME RunInv, NEW c \in Setups, PollPairing(c)
    PROVE  (StepOf(c) /\ UNCHANGED cloudVars) \/ UNCHANGED <<shadowVars, setupFile>>
<1>1. CASE SetupFail(c)
  BY <1>1, SetupFailRun DEF PollPairing
<1>2. CASE ~SetupFail(c) /\ ~UNCHANGED <<shadowVars, setupFile>>
  <2>1. /\ pc[c] = "paired" /\ Goto(c, "connect") /\ credentials' = CloudOf[c]
        /\ UNCHANGED <<cloudVars, runVars, localVars, setupFile>>
    BY <1>2 DEF PollPairing
  <2>2. FilesKept(c) /\ CloudGrows /\ RunTypes'
    BY <2>1, NothingTouched DEF RunInv, Types, RunTypes, cloudVars, runVars
  <2> QED
    BY <2>1, <2>2, SetupLocal DEF RunPlaces, SetupPlaces
<1> QED
  BY <1>1, <1>2

LEMMA ConnectRun ==
    ASSUME RunInv, NEW c \in Setups, Connect(c)
    PROVE  StepOf(c) /\ UNCHANGED cloudVars
<1>1. CASE SetupFail(c)
  BY <1>1, SetupFailRun DEF Connect
<1>2. CASE ~SetupFail(c)
  <2>1. /\ pc[c] = "connect" /\ Goto(c, "draft") /\ credentials # None
        /\ endpoint' = [endpoint EXCEPT ![c] = credentials]
        /\ UNCHANGED <<cloudVars, credentials, runVars, name, path, loaded, running, outcome,
                       late, setupFile>>
    BY <1>2 DEF Connect, setupVars
  <2>2. c \in Commands /\ outcome[c] = None /\ c \notin late
    BY <2>1, NothingKnown DEF RunPlaces
  <2>3. FilesKept(c) /\ CloudGrows
    BY <2>1, NothingTouched DEF runVars
  <2>4. Types'
    BY <2>1 DEF RunInv, Types, RunTypes, CommandTypes, cloudVars, runVars
  <2>5. pc'[c] = "draft" /\ endpoint'[c] # None /\ Isolated(c)
    BY <2>1 DEF RunInv, Types, CommandTypes, Isolated
  <2>6. Frame(c)
    BY <2>1, <2>3, <2>5 DEF Frame, Begun, Ended
  <2>7. CommandOf(c)'
    BY <2>1, <2>2, <2>5 DEF RunInv, CommandOf, KindOf, RunOf, OutcomeOf, LateOf, InRun, RunPlaces, SetupPlaces
  <2>8. OpensOwn(c)
    BY <2>5 DEF OpensOwn, InRun, RunPlaces
  <2> QED
    BY <2>1, <2>4, <2>6, <2>7, <2>8 DEF StepOf
<1> QED
  BY <1>1, <1>2

LEMMA CreateDraftRun ==
    ASSUME RunInv, NEW c \in Setups, CreateDraft(c)
    PROVE  StepOf(c) /\ CloudInv'
<1>1. CASE SetupFail(c)
  BY <1>1, SetupFailRun, CloudKept DEF CreateDraft, StepOf
<1>2. CASE ~SetupFail(c)
  <2> DEFINE n == name[c]
             u == endpoint[c]
             draft == [name |-> n, drafter |-> c, approved |-> FALSE]
  <2>1. /\ pc[c] = "draft" /\ registered[u][n] = None
        /\ registered' = [registered EXCEPT ![u][n] = draft]
        /\ (Goto(c, "wait") /\ UNCHANGED localVars) \/ End(c, "failed")
        /\ UNCHANGED <<state, credentials, runVars, setupFile>>
    BY <1>2 DEF CreateDraft
  <2>2. n \in Names /\ c \in Commands
    BY <2>1 DEF RunInv, CommandOf, KindOf
  <2>3. FilesKept(c) /\ CloudGrows
    BY <2>1, <2>2 DEF FilesKept, CloudGrows, RunInv, Types, RunTypes, runVars
  <2>4. draft \in Contents /\ draft.name = n /\ draft.drafter = c /\ ~draft.approved
    BY <2>2 DEF Contents
  <2> HIDE DEF draft
  <2>5. RunTypes'
    BY <2>1, <2>2, <2>4 DEF RunInv, Types, RunTypes, runVars
  <2>6. StepOf(c)
    <3>1. CASE End(c, "failed")
      BY <2>1, <2>2, <2>3, <2>5, <3>1, EndStep DEF Ended, RunInv, Types, CommandTypes
    <3>2. CASE Goto(c, "wait") /\ UNCHANGED localVars
      <4>1. endpoint[c] # None
        BY <2>1, <2>2 DEF RunInv, CommandOf, RunOf
      <4> QED
        BY <4>1, <2>1, <2>2, <2>3, <2>5, <3>2, SetupLocal DEF RunPlaces, SetupPlaces
    <3> QED
      BY <2>1, <3>1, <3>2
  <2>7. ASSUME NEW v \in Clouds, NEW m \in Names
        PROVE  registered'[v][m] = registered[v][m]
                  \/ (v = u /\ m = n /\ registered'[v][m] = draft /\ state'[v][m] = "draft")
    BY <2>1 DEF RunInv, Types, RunTypes, CloudInv
  <2>8. \A d \in Setups : pc[d] # "new" => name'[d] = name[d] /\ pc'[d] # "new"
    BY <2>6 DEF StepOf, Frame, Isolated, Begun
  <2>9. name'[c] = n /\ pc'[c] # "new"
    BY <2>1, <2>8
  <2>10. CloudInv'
    BY <2>1, <2>4, <2>7, <2>8, <2>9 DEF RunInv, CloudInv
  <2> QED
    BY <2>6, <2>10
<1> QED
  BY <1>1, <1>2

LEMMA AwaitApprovalRun ==
    ASSUME RunInv, NEW c \in Setups, AwaitApproval(c)
    PROVE  (StepOf(c) /\ UNCHANGED cloudVars) \/ UNCHANGED <<shadowVars, setupFile>>
<1>1. CASE SetupFail(c)
  BY <1>1, SetupFailRun DEF AwaitApproval
<1>2. CASE ~SetupFail(c) /\ ~UNCHANGED <<shadowVars, setupFile>>
  <2>1. /\ pc[c] = "wait" /\ Goto(c, "rehash")
        /\ releaseFile' = [releaseFile EXCEPT ![name[c]] = registered[endpoint[c]][name[c]]]
        /\ UNCHANGED <<cloudVars, credentials, proposalFile, resultFile, localVars, setupFile>>
        /\ ReadyToRun(c)
    BY <1>2 DEF AwaitApproval
  <2>2. name[c] \in Names
    BY <2>1 DEF RunInv, CommandOf, KindOf
  <2>3. FilesKept(c) /\ CloudGrows
    BY <2>1, <2>2 DEF FilesKept, CloudGrows, RunInv, Types, RunTypes, cloudVars
  <2>4. endpoint[c] \in Clouds
    BY <2>1 DEF RunInv, CommandOf, RunOf, Types, CommandTypes
  <2>5. RunTypes'
    BY <2>1, <2>2, <2>4 DEF RunInv, Types, RunTypes, cloudVars
  <2> QED
    BY <2>1, <2>3, <2>5, SetupLocal DEF RunPlaces, SetupPlaces
<1> QED
  BY <1>1, <1>2

LEMMA ProposeRun ==
    ASSUME RunInv, NEW c \in Setups, Propose(c)
    PROVE  StepOf(c) /\ UNCHANGED cloudVars
<1>1. CASE copy # "whole"
  BY <1>1, SetupFailRun DEF Propose
<1>2. CASE copy = "whole"
  <2>1. /\ pc[c] = "rehash" /\ Goto(c, "shadow")
        /\ proposalFile' = [proposalFile EXCEPT ![name[c]] = c]
        /\ UNCHANGED <<cloudVars, credentials, releaseFile, resultFile, localVars, setupFile>>
    BY <1>2 DEF Propose, setupVars
  <2>2. name[c] \in Names /\ c \in Commands
    BY <2>1 DEF RunInv, CommandOf, KindOf
  <2>3. FilesKept(c) /\ CloudGrows
    BY <2>1, <2>2 DEF FilesKept, CloudGrows, RunInv, Types, RunTypes, cloudVars
  <2>4. RunTypes'
    BY <2>1, <2>2 DEF RunInv, Types, RunTypes, cloudVars
  <2> QED
    BY <2>1, <2>3, <2>4, SetupLocal DEF RunPlaces, SetupPlaces
<1> QED
  BY <1>1, <1>2

\* A setup ends, by itself or by a kill that may tear the file it is writing.
LEMMA CompleteRun ==
    ASSUME RunInv, NEW c \in Setups, Complete(c)
    PROVE  StepOf(c) /\ UNCHANGED cloudVars
<1>1. CASE ~ShadowPassed(c)
  BY <1>1, SetupFailRun DEF Complete
<1>2. CASE ShadowPassed(c)
  <2>1. /\ pc[c] = "exit" /\ End(c, "done") /\ UNCHANGED <<cloudVars, credentials, runVars>>
        /\ setupFile' = [name |-> name[c], by |-> c, cloud |-> CloudOf[c]]
    BY <1>2 DEF Complete
  <2>2. name[c] \in Names
    BY <2>1 DEF RunInv, CommandOf, KindOf
  <2>3. setupFile' \in SetupRecords
    BY <2>1, <2>2 DEF SetupRecords
  <2>4. FilesKept(c) /\ CloudGrows /\ RunTypes'
    BY <2>1, NothingTouched DEF RunInv, Types, RunTypes, cloudVars, runVars
  <2> QED
    BY <2>1, <2>3, <2>4, EndStep DEF Ended
<1> QED
  BY <1>1, <1>2

LEMMA SetupBrokenRun ==
    ASSUME RunInv, NEW c \in Setups, SetupBroken(c)
    PROVE  StepOf(c) /\ UNCHANGED cloudVars
<1>1. /\ c \in Commands /\ pc[c] \notin Ended /\ pc[c] # "new" /\ End(c, "failed")
      /\ TearSetup(c) \/ UNCHANGED <<releaseFile, proposalFile, setupFile>>
      /\ UNCHANGED <<cloudVars, credentials, resultFile>>
  BY DEF SetupBroken, AtWork
<1>2. name[c] \in Names
  BY <1>1 DEF RunInv, CommandOf, KindOf
<1>3. FilesKept(c) /\ CloudGrows
  BY <1>1, <1>2 DEF FilesKept, CloudGrows, RunInv, Types, RunTypes, cloudVars, TearSetup
<1>4. RunTypes' /\ setupFile' \in SetupRecords \cup {None}
  BY <1>1, <1>2 DEF RunInv, Types, RunTypes, CommandTypes, cloudVars, TearSetup
<1> QED
  BY <1>1, <1>3, <1>4, EndStep DEF Ended

-----------------------------------------------------------------------------
(* The steps of a run, of a setup or of a validation.                      *)

LEMMA Reached ==
    ASSUME RunInv, NEW c \in Commands, InRun(c) \/ pc[c] = "shadow"
    PROVE  /\ name[c] \in Names /\ path[c] \in Paths
           /\ pc[c] \notin Ended /\ pc[c] # "new"
           /\ InRun(c) => loaded[c] \in Contents
           /\ pc[c] \in RunPlaces \ {"claim"} => endpoint[c] \in Clouds /\ running[c] \in Commands
           /\ pc[c] \in {"report", "submit", "exit"} => outcome[c] \in Results
BY DEF RunInv, Types, CommandTypes, CommandOf, KindOf, RunOf, InRun, RunPlaces, Ended

\* What makes a step inside a run isolated.
LEMMA RunStep ==
    ASSUME RunInv, NEW c \in Commands, pc[c] \in RunPlaces \ {"exit"}, NEW q \in RunPlaces, Goto(c, q),
           UNCHANGED <<cloudVars, credentials, releaseFile, proposalFile, name, path, loaded, setupFile>>,
           resultFile' = resultFile \/ \E r \in Results : resultFile' = [resultFile EXCEPT ![path[c]] = r],
           endpoint' = endpoint \/ \E u \in Clouds : endpoint' = [endpoint EXCEPT ![c] = u],
           running' = running \/ \E m \in Commands : running' = [running EXCEPT ![c] = m],
           outcome' = outcome \/ \E r \in Results : outcome' = [outcome EXCEPT ![c] = r],
           late' = late \/ late' = late \cup {c}
    PROVE  Types' /\ Frame(c) /\ OpensOwn(c) /\ KindOf(c)' /\ pc'[c] = q
<1>1. name[c] \in Names /\ path[c] \in Paths /\ pc[c] \notin Ended /\ pc[c] # "new"
  BY Reached DEF InRun
<1>2. RunTypes' /\ CommandTypes'
  <2>1. RunTypes'
    BY <1>1 DEF RunInv, Types, RunTypes, cloudVars
  <2>2. endpoint' \in [Commands -> Clouds \cup {None}]
    BY DEF RunInv, Types, CommandTypes
  <2>3. running' \in [Commands -> Commands \cup {None}]
    BY DEF RunInv, Types, CommandTypes
  <2>4. outcome' \in [Commands -> Results \cup {None}]
    BY DEF RunInv, Types, CommandTypes
  <2>5. DOMAIN pc' = Commands
    BY DEF RunInv, Types, CommandTypes
  <2> QED
    BY <2>1, <2>2, <2>3, <2>4, <2>5 DEF RunInv, Types, CommandTypes
<1>3. pc'[c] = q /\ Isolated(c)
  <2>1. \A d \in Commands \ {c} :
          endpoint'[d] = endpoint[d] /\ running'[d] = running[d] /\ outcome'[d] = outcome[d]
    BY DEF RunInv, Types, CommandTypes
  <2>2. pc'[c] = q /\ \A d \in Commands \ {c} : pc'[d] = pc[d]
    BY DEF RunInv, Types, CommandTypes
  <2> QED
    BY <2>1, <2>2 DEF Isolated
<1>4. FilesKept(c) /\ CloudGrows
  BY <1>1 DEF RunInv, Types, RunTypes, FilesKept, CloudGrows, cloudVars
<1>5. Frame(c)
  BY <1>1, <1>3, <1>4 DEF Frame, Begun, RunPlaces
<1>6. OpensOwn(c) /\ KindOf(c)'
  BY <1>1, <1>3 DEF OpensOwn, RunInv, CommandOf, KindOf, InRun, RunPlaces, SetupPlaces
<1> QED
  BY <1>2, <1>3, <1>5, <1>6 DEF Types

LEMMA OpenRun ==
    ASSUME RunInv, NEW c \in Commands, ShadowOpen(c), UNCHANGED setupFile
    PROVE  StepOf(c)
<1>1. /\ pc[c] = "shadow" /\ Goto(c, "claim")
      /\ releaseFile[name[c]] # None /\ resultFile[path[c]] = None
      /\ loaded' = [loaded EXCEPT ![c] = releaseFile[name[c]]]
      /\ resultFile' = [resultFile EXCEPT ![path[c]] = Reserved]
      /\ UNCHANGED <<cloudVars, credentials, releaseFile, proposalFile, name, path, endpoint,
                     running, outcome, late>>
  BY DEF ShadowOpen
<1>2. name[c] \in Names /\ path[c] \in Paths /\ outcome[c] = None /\ c \notin late
  BY <1>1, Reached, NothingKnown DEF RunPlaces
<1>3. RunTypes' /\ CommandTypes'
  BY <1>1, <1>2 DEF RunInv, Types, RunTypes, CommandTypes, cloudVars
<1>4. /\ pc'[c] = "claim" /\ loaded'[c] # None /\ resultFile'[path[c]] = Reserved
      /\ Isolated(c)
  BY <1>1, <1>2 DEF RunInv, Types, RunTypes, CommandTypes, Isolated
<1>5. FilesKept(c) /\ CloudGrows
  BY <1>1, <1>2 DEF RunInv, Types, RunTypes, FilesKept, CloudGrows, cloudVars
<1>6. Frame(c)
  BY <1>1, <1>4, <1>5 DEF Frame, Begun, Ended
<1>7. CommandOf(c)'
  BY <1>1, <1>2, <1>4 DEF RunInv, CommandOf, KindOf, RunOf, OutcomeOf, LateOf, InRun, RunPlaces, SetupPlaces
<1>8. OpensOwn(c)
  BY <1>1 DEF OpensOwn
<1> QED
  BY <1>3, <1>6, <1>7, <1>8 DEF StepOf, Types

LEMMA ClaimRun ==
    ASSUME RunInv, NEW c \in Commands, ShadowClaim(c), UNCHANGED setupFile
    PROVE  StepOf(c)
<1> DEFINE proposal == proposalFile[name[c]]
<1>1. /\ pc[c] = "claim" /\ credentials # None /\ loaded[c].approved /\ proposal # None
      /\ endpoint' = [endpoint EXCEPT ![c] = credentials]
      /\ running' = [running EXCEPT ![c] = proposal]
      /\ late' = IF state[credentials][name[c]] = "revoked" THEN late \cup {c} ELSE late
      /\ UNCHANGED <<cloudVars, credentials, releaseFile, proposalFile, resultFile, name, path, loaded>>
      /\ \/ Goto(c, "judge") /\ UNCHANGED outcome
         \/ \E refusal \in {"registry", "duplicate"} :
               /\ outcome' = [outcome EXCEPT ![c] = Answer(c, proposal, credentials, FALSE, refusal)]
               /\ Goto(c, "report")
  BY DEF ShadowClaim, LocallyEligible
<1>2. InRun(c) /\ name[c] \in Names /\ path[c] \in Paths /\ loaded[c] \in Contents
  BY <1>1, Reached DEF InRun, RunPlaces
<1>3. credentials \in Clouds /\ proposal \in Commands /\ outcome[c] = None /\ c \notin late
  BY <1>1, <1>2, NothingKnown DEF RunInv, Types, RunTypes
<1>4. resultFile[path[c]] = Reserved
  BY <1>1 DEF RunInv, CommandOf, RunOf
<1>5. endpoint'[c] = credentials /\ running'[c] = proposal
  BY <1>1 DEF RunInv, Types, CommandTypes
<1> HIDE DEF proposal
<1>6. CASE Goto(c, "judge") /\ UNCHANGED outcome
  <2>1. Types' /\ Frame(c) /\ OpensOwn(c) /\ KindOf(c)' /\ pc'[c] = "judge"
    BY <1>1, <1>2, <1>3, <1>6, RunStep DEF RunPlaces
  <2>2. RunOf(c)' /\ OutcomeOf(c)' /\ LateOf(c)'
    BY <1>1, <1>2, <1>3, <1>4, <1>5, <1>6, <2>1 DEF RunOf, OutcomeOf, LateOf, InRun, RunPlaces, cloudVars
  <2> QED
    BY <2>1, <2>2 DEF StepOf, CommandOf
<1>7. ASSUME NEW refusal \in {"registry", "duplicate"}, Goto(c, "report"),
             outcome' = [outcome EXCEPT ![c] = Answer(c, proposal, credentials, FALSE, refusal)]
      PROVE  StepOf(c)
  <2> DEFINE answer == Answer(c, proposal, credentials, FALSE, refusal)
  <2>1. /\ answer \in Results /\ answer.proposal = proposal /\ answer.content = loaded[c]
        /\ answer.at = credentials /\ ~answer.allowed /\ ~answer.verified
    BY <1>2, <1>3 DEF Answer, Results
  <2> HIDE DEF answer
  <2>2. outcome' = [outcome EXCEPT ![c] = answer]
    BY <1>7 DEF answer
  <2>3. Types' /\ Frame(c) /\ OpensOwn(c) /\ KindOf(c)' /\ pc'[c] = "report"
    BY <1>1, <1>2, <1>3, <1>7, <2>1, <2>2, RunStep DEF RunPlaces
  <2>4. outcome'[c] = answer
    BY <2>2 DEF RunInv, Types, CommandTypes
  <2>5. RunOf(c)' /\ OutcomeOf(c)' /\ LateOf(c)'
    BY <1>1, <1>2, <1>3, <1>4, <1>5, <2>1, <2>3, <2>4
       DEF RunOf, OutcomeOf, LateOf, InRun, RunPlaces, cloudVars
  <2> QED
    BY <2>3, <2>5 DEF StepOf, CommandOf
<1> QED
  BY <1>1, <1>6, <1>7

\* What is decided, is reported.
LEMMA DecidedRun ==
    ASSUME RunInv, NEW c \in Commands, pc[c] \in {"judge", "boundary"}, Goto(c, "report"),
           NEW allowed \in BOOLEAN,
           NEW reason \in {"allowed", "content", "draft", "revoked", "boundary"},
           outcome' = [outcome EXCEPT ![c] = Decided(c, allowed, reason)],
           allowed => /\ reason = "allowed" /\ c \notin late
                      /\ registered[endpoint[c]][name[c]] = loaded[c],
           UNCHANGED <<cloudVars, credentials, runVars, name, path, endpoint, loaded, running,
                       late, setupFile>>
    PROVE  StepOf(c)
<1> DEFINE answer == Decided(c, allowed, reason)
<1>1. /\ InRun(c) /\ name[c] \in Names /\ path[c] \in Paths /\ loaded[c] \in Contents
      /\ endpoint[c] \in Clouds /\ running[c] \in Commands
  BY Reached DEF InRun, RunPlaces
<1>2. /\ answer \in Results /\ answer.proposal = running[c] /\ answer.content = loaded[c]
      /\ answer.at = endpoint[c] /\ answer.allowed = allowed /\ answer.reason = reason
      /\ ~answer.verified
  BY <1>1 DEF Decided, Answer, Results
<1>3. outcome' = [outcome EXCEPT ![c] = answer]
  OBVIOUS
<1> HIDE DEF answer
<1>4. Types' /\ Frame(c) /\ OpensOwn(c) /\ KindOf(c)' /\ pc'[c] = "report"
  BY <1>1, <1>2, <1>3, RunStep DEF RunPlaces, runVars
<1>5. outcome'[c] = answer
  BY <1>3 DEF RunInv, Types, CommandTypes
<1>6. resultFile[path[c]] = Reserved /\ loaded[c].approved
  BY DEF RunInv, CommandOf, RunOf, RunPlaces
<1>7. RunOf(c)' /\ OutcomeOf(c)' /\ LateOf(c)'
  BY <1>1, <1>2, <1>4, <1>5, <1>6 DEF RunOf, OutcomeOf, LateOf, InRun, RunPlaces, cloudVars, runVars
<1> QED
  BY <1>4, <1>7 DEF StepOf, CommandOf

LEMMA JudgeRun ==
    ASSUME RunInv, NEW c \in Commands, ShadowJudge(c), UNCHANGED setupFile
    PROVE  StepOf(c)
<1>1. /\ pc[c] = "judge"
      /\ UNCHANGED <<cloudVars, credentials, runVars, name, path, endpoint, loaded, running, late, setupFile>>
  BY DEF ShadowJudge
<1>2. /\ InRun(c) /\ name[c] \in Names /\ endpoint[c] \in Clouds
  BY <1>1, Reached DEF InRun, RunPlaces
<1>3. CASE Denial(c) = "none"
  <2>1. Goto(c, "boundary") /\ UNCHANGED outcome
    BY <1>3 DEF ShadowJudge
  <2>2. Types' /\ Frame(c) /\ OpensOwn(c) /\ KindOf(c)' /\ pc'[c] = "boundary"
    BY <1>1, <1>2, <2>1, RunStep DEF RunPlaces, runVars
  <2>3. RunOf(c)' /\ OutcomeOf(c)' /\ LateOf(c)'
    BY <1>1, <2>1, <2>2
       DEF RunInv, CommandOf, RunOf, OutcomeOf, LateOf, InRun, RunPlaces, cloudVars, runVars
  <2> QED
    BY <2>2, <2>3 DEF StepOf, CommandOf
<1>4. CASE Denial(c) # "none"
  <2>1. Denial(c) \in {"content", "draft", "revoked"}
    BY <1>2, <1>4 DEF Denial, RunInv, Types, RunTypes
  <2>2. Goto(c, "report") /\ outcome' = [outcome EXCEPT ![c] = Decided(c, FALSE, Denial(c))]
    BY <1>4 DEF ShadowJudge
  <2> QED
    BY <1>1, <2>1, <2>2, DecidedRun
<1> QED
  BY <1>3, <1>4

LEMMA BoundaryRun ==
    ASSUME RunInv, NEW c \in Commands, ShadowBoundary(c), UNCHANGED setupFile
    PROVE  StepOf(c)
<1>1. /\ pc[c] = "boundary" /\ Goto(c, "report")
      /\ UNCHANGED <<cloudVars, credentials, runVars, name, path, endpoint, loaded, running, late, setupFile>>
  BY DEF ShadowBoundary
<1>2. CASE /\ Denial(c) = "none"
           /\ outcome' = [outcome EXCEPT ![c] = Decided(c, TRUE, "allowed")]
  <2>1. /\ registered[endpoint[c]][name[c]] = loaded[c]
        /\ state[endpoint[c]][name[c]] = "approved"
    <3>1. name[c] \in Names /\ endpoint[c] \in Clouds
      BY <1>1, Reached DEF InRun, RunPlaces
    <3>2. state[endpoint[c]][name[c]] # "none"
      BY <3>1 DEF RunInv, Types, RunTypes
    <3> QED
      BY <1>2, <3>2 DEF Denial
  <2>2. c \notin late
    BY <1>1, <2>1 DEF RunInv, CommandOf, LateOf
  <2> QED
    BY <1>1, <1>2, <2>1, <2>2, DecidedRun
<1>3. CASE outcome' = [outcome EXCEPT ![c] = Decided(c, FALSE, "boundary")]
  BY <1>1, <1>3, DecidedRun
<1> QED
  BY <1>2, <1>3 DEF ShadowBoundary

LEMMA ThrowsRun ==
    ASSUME RunInv, NEW c \in Commands, ShadowThrows(c), UNCHANGED setupFile
    PROVE  StepOf(c)
<1> DEFINE answer == Decided(c, FALSE, "failed")
<1>1. /\ pc[c] \in {"judge", "boundary"} /\ End(c, "failed")
      /\ resultFile' = [resultFile EXCEPT ![path[c]] = answer]
      /\ UNCHANGED <<cloudVars, credentials, releaseFile, proposalFile>>
  BY DEF ShadowThrows
<1>2. /\ InRun(c) /\ name[c] \in Names /\ path[c] \in Paths /\ loaded[c] \in Contents
      /\ endpoint[c] \in Clouds /\ running[c] \in Commands
      /\ pc[c] \notin Ended /\ pc[c] # "new"
  BY <1>1, Reached DEF InRun, RunPlaces
<1>3. answer \in Results
  BY <1>2 DEF Decided, Answer, Results
<1> HIDE DEF answer
<1>4. FilesKept(c) /\ CloudGrows
  BY <1>1, <1>2, <1>3 DEF FilesKept, CloudGrows, RunInv, Types, RunTypes, cloudVars, RunPlaces
<1>5. RunTypes' /\ setupFile' \in SetupRecords \cup {None}
  BY <1>1, <1>2, <1>3 DEF RunInv, Types, RunTypes, CommandTypes, cloudVars
<1> QED
  BY <1>1, <1>2, <1>4, <1>5, EndStep DEF Ended

LEMMA ReportRun ==
    ASSUME RunInv, NEW c \in Commands, ShadowReport(c), UNCHANGED setupFile
    PROVE  StepOf(c)
<1>1. /\ pc[c] = "report" /\ Goto(c, "submit")
      /\ resultFile' = [resultFile EXCEPT ![path[c]] = outcome[c]]
      /\ UNCHANGED <<cloudVars, credentials, releaseFile, proposalFile, name, path, endpoint,
                     loaded, running, outcome, late>>
  BY DEF ShadowReport, localVars
<1>2. InRun(c) /\ path[c] \in Paths /\ outcome[c] \in Results
  BY <1>1, Reached DEF InRun, RunPlaces
<1>3. Types' /\ Frame(c) /\ OpensOwn(c) /\ KindOf(c)' /\ pc'[c] = "submit"
  BY <1>1, <1>2, RunStep DEF RunPlaces
<1>4. resultFile'[path[c]] = outcome[c]
  BY <1>1, <1>2 DEF RunInv, Types, RunTypes
<1>5. RunOf(c)' /\ OutcomeOf(c)' /\ LateOf(c)'
  BY <1>1, <1>2, <1>3, <1>4 DEF RunInv, CommandOf, RunOf, OutcomeOf, LateOf, InRun, RunPlaces, cloudVars
<1> QED
  BY <1>3, <1>5 DEF StepOf, CommandOf

LEMMA VerifiedRun ==
    ASSUME RunInv, NEW c \in Commands, ShadowVerified(c), UNCHANGED setupFile
    PROVE  StepOf(c)
<1> DEFINE answer == [outcome[c] EXCEPT !.verified = TRUE]
<1>1. /\ pc[c] = "submit" /\ Goto(c, "exit")
      /\ outcome' = [outcome EXCEPT ![c] = answer]
      /\ resultFile' = [resultFile EXCEPT ![path[c]] = outcome'[c]]
      /\ UNCHANGED <<cloudVars, credentials, releaseFile, proposalFile, name, path, endpoint,
                     loaded, running, late>>
  BY DEF ShadowVerified
<1>2. InRun(c) /\ path[c] \in Paths /\ outcome[c] \in Results
  BY <1>1, Reached DEF InRun, RunPlaces
<1>3. /\ answer \in Results /\ answer.proposal = outcome[c].proposal
      /\ answer.content = outcome[c].content /\ answer.at = outcome[c].at
      /\ answer.allowed = outcome[c].allowed /\ answer.reason = outcome[c].reason
  BY <1>2 DEF Results
<1> HIDE DEF answer
<1>4. outcome'[c] = answer
  BY <1>1 DEF RunInv, Types, CommandTypes
<1>5. Types' /\ Frame(c) /\ OpensOwn(c) /\ KindOf(c)' /\ pc'[c] = "exit"
  BY <1>1, <1>2, <1>3, <1>4, RunStep DEF RunPlaces
<1>6. resultFile'[path[c]] = answer
  BY <1>1, <1>2, <1>4 DEF RunInv, Types, RunTypes
<1>7. outcome[c] # None /\ answer # None
  BY <1>2, <1>3
<1>8. RunOf(c)' /\ OutcomeOf(c)' /\ LateOf(c)'
  BY <1>1, <1>2, <1>3, <1>4, <1>5, <1>6, <1>7
     DEF RunInv, CommandOf, RunOf, OutcomeOf, LateOf, InRun, RunPlaces, cloudVars
<1> QED
  BY <1>5, <1>8 DEF StepOf, CommandOf

LEMMA ShadowStepRun ==
    ASSUME RunInv, NEW c \in Commands, ShadowStep(c), UNCHANGED setupFile
    PROVE  StepOf(c) /\ UNCHANGED cloudVars
<1>1. CASE Fail(c) /\ pc[c] \in {"shadow", "claim"}
  BY <1>1, FailStep DEF Ended
<1>2. CASE ~(Fail(c) /\ pc[c] \in {"shadow", "claim"})
  <2>1. StepOf(c)
    BY <1>2, OpenRun, ClaimRun, JudgeRun, BoundaryRun, ThrowsRun, ReportRun, VerifiedRun
       DEF ShadowStep, ShadowNotOpened, ShadowIneligible
  <2>2. UNCHANGED cloudVars
    BY <1>2 DEF ShadowStep, ShadowNotOpened, ShadowIneligible, ShadowOpen, ShadowClaim,
                ShadowJudge, ShadowBoundary, ShadowThrows, ShadowReport, ShadowVerified
  <2> QED
    BY <2>1, <2>2
<1> QED
  BY <1>1, <1>2

-----------------------------------------------------------------------------
(* The administrators.                                                     *)

LEMMA AdminRun ==
    ASSUME RunInv, NEW u \in Clouds, NEW n \in Names, Approve(u, n) \/ Revoke(u, n),
           UNCHANGED setupFile
    PROVE  RunInv' /\ Frame(None)
<1>1. /\ registered[u][n] # None
      /\ UNCHANGED <<credentials, releaseFile, proposalFile, resultFile, pc, name, path, endpoint,
                     loaded, running, outcome>>
  BY DEF Approve, Revoke, runVars, localVars
<1> DEFINE held == [registered[u][n] EXCEPT !.approved = TRUE]
<1>2. /\ held \in Contents /\ held.approved /\ held.name = registered[u][n].name
      /\ held.drafter = registered[u][n].drafter /\ held # None
  <2>1. registered[u][n] \in Contents
    BY <1>1 DEF RunInv, Types, RunTypes
  <2>2. held \in Contents /\ held.approved /\ held.name = registered[u][n].name
        /\ held.drafter = registered[u][n].drafter
    BY <2>1 DEF Contents
  <2> QED
    BY <2>2
<1>3. \/ /\ Approve(u, n) /\ state[u][n] = "draft"
         /\ state' = [state EXCEPT ![u] = [state[u] EXCEPT ![n] = "approved"]]
         /\ registered' = [registered EXCEPT ![u] = [registered[u] EXCEPT ![n] = held]]
      \/ /\ Revoke(u, n) /\ registered' = registered
         /\ state' = [state EXCEPT ![u] = [state[u] EXCEPT ![n] = "revoked"]]
  BY DEF Approve, Revoke
<1> HIDE DEF held
<1>4. RunTypes'
  <2> DEFINE Phases == {"draft", "approved", "revoked"}
  <2>1. registered[u] \in [Names -> Contents \cup {None}] /\ state[u] \in [Names -> Phases]
    BY DEF RunInv, Types, RunTypes
  <2>2. /\ [registered[u] EXCEPT ![n] = held] \in [Names -> Contents \cup {None}]
        /\ \A phase \in Phases : [state[u] EXCEPT ![n] = phase] \in [Names -> Phases]
    <3>1. [registered[u] EXCEPT ![n] = held] \in [Names -> Contents \cup {None}]
      BY <1>2, <2>1
    <3>2. ASSUME NEW phase \in Phases
          PROVE  [state[u] EXCEPT ![n] = phase] \in [Names -> Phases]
      <4> HIDE DEF Phases
      <4> QED BY <2>1
    <3> QED
      BY <3>1, <3>2
  <2> HIDE DEF Phases
  <2>3. registered' \in [Clouds -> [Names -> Contents \cup {None}]]
    <3>1. registered \in [Clouds -> [Names -> Contents \cup {None}]]
      BY DEF RunInv, Types, RunTypes
    <3>2. CASE registered' = [registered EXCEPT ![u] = [registered[u] EXCEPT ![n] = held]]
      <4> DEFINE row == [registered[u] EXCEPT ![n] = held]
      <4>1. row \in [Names -> Contents \cup {None}]
        BY <2>2
      <4>2. registered' = [registered EXCEPT ![u] = row]
        BY <3>2
      <4> HIDE DEF row
      <4> QED
        BY <3>1, <4>1, <4>2
    <3> QED
      BY <1>3, <3>1, <3>2
  <2>4. "approved" \in Phases /\ "revoked" \in Phases
    BY DEF Phases
  <2>5. state \in [Clouds -> [Names -> Phases]]
    BY DEF Phases, RunInv, Types, RunTypes
  <2>6. state' \in [Clouds -> [Names -> Phases]]
    BY <1>3, <2>2, <2>4, <2>5
  <2> QED
    BY <1>1, <2>3, <2>6 DEF Phases, RunInv, Types, RunTypes
<1>10. ASSUME NEW v \in Clouds, NEW m \in Names
       PROVE  \/ /\ registered'[v][m] = registered[v][m]
                 /\ state'[v][m] = state[v][m]
              \/ /\ v = u /\ m = n /\ state[v][m] = "draft"
                 /\ registered'[v][m] = held /\ state'[v][m] = "approved"
              \/ /\ v = u /\ m = n
                 /\ registered'[v][m] = registered[v][m] /\ state'[v][m] = "revoked"
  BY <1>3 DEF RunInv, Types, RunTypes
<1>5. Types'
  BY <1>1, <1>4 DEF RunInv, Types, CommandTypes
<1>6. Frame(None)
  <2>1. CloudGrows
    BY <1>1, <1>2, <1>10 DEF CloudGrows
  <2>2. ASSUME NEW d \in Commands, d \in late'
        PROVE  d \in late \/ RevokedNow(d)
    <3>1. CASE late' = late
      BY <2>2, <3>1
    <3>2. CASE Revoke(u, n) /\ d \in BeforeBoundary(u, n)
      <4>1. /\ pc[d] \in {"judge", "boundary"} /\ endpoint[d] = u /\ name[d] = n
        BY <3>2 DEF BeforeBoundary
      <4>2. state'[u][n] = "revoked"
        BY <3>2 DEF Revoke, RunInv, Types, RunTypes
      <4> QED
        BY <4>1, <4>2 DEF RevokedNow
    <3> QED
      BY <2>2, <3>1, <3>2 DEF Approve, Revoke, localVars
  <2> QED
    BY <1>1, <2>1, <2>2 DEF Frame, Isolated, FilesKept
<1>7. \A d \in Commands : CommandOf(d)'
  BY <1>5, <1>6, OthersKeep
<1>8. CloudInv'
  BY <1>1, <1>2, <1>10 DEF RunInv, CloudInv
<1>9. PathsApart'
  BY <1>1 DEF RunInv, PathsApart, InRun
<1> QED
  BY <1>5, <1>6, <1>7, <1>8, <1>9 DEF RunInv

LEMMA ClearRun ==
    ASSUME RunInv, ClearClaims, UNCHANGED setupFile
    PROVE  RunInv' /\ Frame(None)
<1>1. UNCHANGED <<registered, state, credentials, releaseFile, proposalFile, resultFile, pc, name,
                  path, endpoint, loaded, running, outcome, late, setupFile>>
  BY DEF ClearClaims, cloudVars, localVars
<1>2. Types' /\ CloudInv'
  BY <1>1 DEF RunInv, Types, RunTypes, CommandTypes, CloudInv
<1>3. PathsApart'
  BY <1>1 DEF RunInv, PathsApart, InRun
<1>4. \A c \in Commands : CommandOf(c)'
  BY <1>1 DEF RunInv, CommandOf, KindOf, RunOf, OutcomeOf, LateOf, InRun
<1>5. Frame(None)
  BY <1>1 DEF Frame, Isolated, FilesKept, CloudGrows
<1> QED
  BY <1>2, <1>3, <1>4, <1>5 DEF RunInv

-----------------------------------------------------------------------------
(* The validations.                                                        *)

\* What finalize read of setup.json is a setup.
MemoInv ==
    /\ DOMAIN memo = Commands
    /\ \A c \in Validations : pc[c] = "finalizeRelease" => memo[c].setup \in SetupRecords

LEMMA ValidationLocal ==
    ASSUME RunInv, NEW c \in Validations, NEW q, Goto(c, q),
           pc[c] \notin RunPlaces \cup {"done", "failed", "finalizeManifest", "sums"},
           q \notin RunPlaces \cup {"new", "shadow", "draft", "wait"},
           UNCHANGED <<cloudVars, credentials, runVars, localVars, setupVars>>
    PROVE  StepOf(c)
<1>1. c \in Commands /\ c \notin Setups
  OBVIOUS
<1>2. FilesKept(c) /\ CloudGrows
  BY NothingTouched DEF runVars
<1>3. RunTypes' /\ setupFile' \in SetupRecords \cup {None}
  BY DEF RunInv, Types, RunTypes, CommandTypes, cloudVars, runVars, setupVars
<1> QED
  BY <1>1, <1>2, <1>3, NothingKnown, LocalStep DEF Ended, InRun

\* Between the end of its run and its manifest finalize still knows the outcome.
LEMMA AfterRun ==
    ASSUME RunInv, NEW c \in Validations, NEW q \in {"finalizeManifest", "sums"}, Goto(c, q),
           pc[c] \in {"exit", "finalizeManifest"},
           UNCHANGED <<cloudVars, credentials, runVars, localVars, setupVars>>
    PROVE  StepOf(c)
<1>1. c \in Commands /\ c \notin Setups
  OBVIOUS
<1>2. FilesKept(c) /\ CloudGrows
  BY NothingTouched DEF runVars
<1>3. Types'
  BY DEF RunInv, Types, RunTypes, CommandTypes, cloudVars, runVars, localVars, setupVars
<1>4. pc'[c] = q /\ Isolated(c)
  BY <1>1 DEF RunInv, Types, CommandTypes, localVars, Isolated
<1>5. Frame(c)
  BY <1>1, <1>2, <1>4 DEF Frame, Begun, Ended
<1>6. CommandOf(c)'
  BY <1>1, <1>4 DEF RunInv, CommandOf, KindOf, RunOf, OutcomeOf, LateOf, InRun, RunPlaces,
                    localVars, cloudVars
<1>7. OpensOwn(c)
  BY <1>4 DEF OpensOwn, InRun, RunPlaces
<1> QED
  BY <1>3, <1>5, <1>6, <1>7 DEF StepOf

LEMMA ConfirmRun ==
    ASSUME RunInv, MemoInv, NEW c \in Validations, ConfirmRevoked(c), ~ValidationFail(c)
    PROVE  StepOf(c)
<1>1. /\ pc[c] = "finalizeRelease" /\ Goto(c, "shadow")
      /\ name' = [name EXCEPT ![c] = memo[c].setup.name] /\ path' = [path EXCEPT ![c] = Session]
      /\ UNCHANGED <<cloudVars, credentials, runVars, endpoint, loaded, running, outcome, late, setupVars>>
  BY DEF ConfirmRevoked
<1>2. c \in Commands /\ c \notin Setups /\ memo[c].setup.name \in Names /\ Session \in Paths
  BY <1>1 DEF MemoInv, SetupRecords
<1>3. outcome[c] = None /\ c \notin late
  BY <1>1, <1>2, NothingKnown DEF RunPlaces
<1>4. FilesKept(c) /\ CloudGrows
  BY <1>1, NothingTouched DEF runVars
<1>5. Types'
  BY <1>1, <1>2 DEF RunInv, Types, RunTypes, CommandTypes, cloudVars, runVars, setupVars
<1>6. /\ pc'[c] = "shadow" /\ name'[c] \in Names /\ path'[c] = Session
      /\ Isolated(c)
  BY <1>1, <1>2 DEF RunInv, Types, CommandTypes, Isolated
<1>7. Frame(c)
  BY <1>1, <1>2, <1>4, <1>6 DEF Frame, Begun, Ended
<1>8. CommandOf(c)'
  BY <1>1, <1>2, <1>3, <1>6 DEF CommandOf, KindOf, RunOf, OutcomeOf, LateOf, InRun, RunPlaces
<1>9. OpensOwn(c)
  BY <1>6 DEF OpensOwn, InRun, RunPlaces
<1> QED
  BY <1>5, <1>7, <1>8, <1>9 DEF StepOf

LEMMA ValidationFailRun ==
    ASSUME RunInv, NEW c \in Validations, ValidationFail(c), pc[c] \notin {"new", "done", "failed"}
    PROVE  StepOf(c)
BY FailStep DEF ValidationFail, Ended, setupVars

LEMMA EndValidationRun ==
    ASSUME RunInv, NEW c \in Validations, NEW how \in Ended, End(c, how),
           pc[c] \notin {"new", "done", "failed"},
           UNCHANGED <<cloudVars, credentials, runVars, setupVars>>
    PROVE  StepOf(c)
<1>1. FilesKept(c) /\ CloudGrows
  BY NothingTouched DEF runVars
<1>2. RunTypes' /\ setupFile' \in SetupRecords \cup {None}
  BY DEF RunInv, Types, RunTypes, CommandTypes, cloudVars, runVars, setupVars
<1> QED
  BY <1>1, <1>2, EndStep DEF Ended

-----------------------------------------------------------------------------
(* The steps of the field: of the administrators, of a setup, of a         *)
(* validation.                                                             *)

AdminMove ==
    \/ (\E u \in Clouds, n \in Names : Approve(u, n) \/ Revoke(u, n)) /\ UNCHANGED setupFile
    \/ ClearClaims /\ UNCHANGED setupFile
    \/ UNCHANGED <<shadowVars, setupFile>>

SetupMove(c) == (\E n \in Names : Begin(c, n)) \/ SetupStep(c) \/ SetupBroken(c)

ValidationMove(c) ==
    \/ \E who \in Operators, place \in {"preflight", "record", "finalize"} : BeginValidation(c, place, who)
    \/ PreflightStep(c) \/ RecordStep(c) \/ FinalizeStep(c)
    \/ ValidationBroken(c)

LEMMA FieldMoves ==
    ASSUME [FieldNext]_fieldVars
    PROVE  \/ AdminMove /\ UNCHANGED validationVars
           \/ \E c \in Setups : SetupMove(c) /\ UNCHANGED validationVars
           \/ \E c \in Validations : ValidationMove(c)
<1>1. CASE UNCHANGED fieldVars
  BY <1>1 DEF fieldVars, AdminMove, setupVars
<1>2. CASE SetupNext /\ UNCHANGED validationVars
  <2>1. CASE \E c \in Setups : AnswerOf(c)
    BY <1>2, <2>1 DEF AnswerOf, AnswerPairing, AdminMove
  <2>2. CASE Administration
    BY <1>2, <2>2 DEF Administration, ChangeCopy, AdminMove, setupVars
  <2> QED
    BY <1>2, <2>1, <2>2 DEF SetupNext, SetupMove
<1>3. CASE ClearClaims /\ UNCHANGED <<setupVars, validationVars>>
  BY <1>3 DEF AdminMove, setupVars
<1>4. CASE \E who \in Operators :
             \/ \E c \in Preflights : BeginValidation(c, "preflight", who)
             \/ \E c \in Records : BeginValidation(c, "record", who)
             \/ \E c \in Finalizes : BeginValidation(c, "finalize", who)
  BY <1>4 DEF ValidationMove, Validations
<1>5. CASE \/ \E c \in Preflights : PreflightStep(c)
           \/ \E c \in Records : RecordStep(c)
           \/ \E c \in Finalizes : FinalizeStep(c)
           \/ \E c \in Validations : ValidationBroken(c)
  BY <1>5 DEF ValidationMove, Validations
<1> QED
  BY <1>1, <1>2, <1>3, <1>4, <1>5 DEF FieldNext

LEMMA AdminMoveRun ==
    ASSUME RunInv, AdminMove
    PROVE  RunInv' /\ Frame(None)
<1>1. CASE UNCHANGED <<shadowVars, setupFile>>
  <2>1. UNCHANGED <<registered, state, releaseFile, proposalFile, resultFile, pc, name, path,
                    endpoint, loaded, running, outcome, late>>
    BY <1>1 DEF shadowVars, cloudVars, runVars, localVars
  <2>2. Frame(None)
    BY <2>1 DEF Frame, Isolated, FilesKept, CloudGrows
  <2> QED
    BY <1>1, <2>2, RunUntouched
<1> QED
  BY <1>1, AdminRun, ClearRun DEF AdminMove

LEMMA SetupMoveRun ==
    ASSUME RunInv, NEW c \in Setups, SetupMove(c)
    PROVE  RunInv' /\ (StepOf(c) \/ UNCHANGED <<shadowVars, setupFile>>)
<1>1. c \in Commands
  OBVIOUS
<1>2. CASE CreateDraft(c)
  BY <1>1, <1>2, CreateDraftRun, StepKeepsRun
<1>3. CASE ~CreateDraft(c)
  <2>1. (StepOf(c) /\ UNCHANGED cloudVars) \/ UNCHANGED <<shadowVars, setupFile>>
    <3>1. CASE BeginCopy(c) \/ EndCopy(c) \/ CheckDigest(c) \/ Pair(c) \/ StartPairing(c)
      BY <3>1, CopyRun, CheckDigestRun, PairRun
    <3>2. CASE PollPairing(c) \/ Connect(c) \/ AwaitApproval(c) \/ Propose(c) \/ Complete(c)
      BY <3>2, PollPairingRun, ConnectRun, AwaitApprovalRun, ProposeRun, CompleteRun
    <3> QED
      BY <1>1, <1>3, <3>1, <3>2, ShadowStepRun, BeginRun, SetupBrokenRun
         DEF SetupMove, SetupStep, setupVars
  <2>2. CASE UNCHANGED <<shadowVars, setupFile>>
    BY <2>2, RunUntouched
  <2>3. CASE StepOf(c) /\ UNCHANGED cloudVars
    BY <1>1, <2>3, CloudKept, StepKeepsRun DEF StepOf
  <2> QED
    BY <2>1, <2>2, <2>3
<1> QED
  BY <1>2, <1>3

LEMMA ValidationMoveRun ==
    ASSUME RunInv, MemoInv, NEW c \in Validations, ValidationMove(c)
    PROVE  RunInv' /\ StepOf(c) /\ UNCHANGED <<cloudVars, setupFile>>
<1>1. c \in Commands /\ c \notin Setups
  OBVIOUS
<1>2. UNCHANGED <<cloudVars, setupFile>>
  <2>1. CASE ShadowStep(c) /\ UNCHANGED setupVars
    BY <1>1, <2>1, ShadowStepRun DEF setupVars
  <2> QED
    BY <2>1 DEF ValidationMove, PreflightStep, RecordStep, FinalizeStep, ValidationBroken, setupVars,
         BeginValidation, BeginPreflight, WritePreflight, PreflightManifest, WriteSums,
         BeginRecord, CopyEvidence, WriteBinding, WriteNegative, WriteRecord, RecordManifest,
         BeginFinalize, ConfirmRevoked, WriteResult, FinalizeManifest, Write, WriteManifest,
         ValidationFail, Fail
<1>3. StepOf(c)
  <2>1. CASE \E who \in Operators, place \in {"preflight", "record", "finalize"} :
               BeginValidation(c, place, who)
    BY <2>1, ValidationLocal DEF BeginValidation, MayStart, RunPlaces
  <2>2. CASE ValidationBroken(c)
    BY <1>1, <2>2, EndValidationRun DEF ValidationBroken, AtWork, Ended
  <2>3. CASE WriteSums(c)
    BY <1>1, <2>3, EndValidationRun DEF WriteSums, Ended
  <2>4. CASE ShadowStep(c) /\ UNCHANGED setupVars
    BY <1>1, <2>4, ShadowStepRun DEF setupVars
  <2>5. CASE BeginPreflight(c) \/ WritePreflight(c) \/ PreflightManifest(c)
    BY <1>1, <2>5, ValidationLocal, ValidationFailRun
       DEF BeginPreflight, WritePreflight, PreflightManifest, Write, WriteManifest, RunPlaces
  <2>6. CASE BeginRecord(c) \/ CopyEvidence(c) \/ WriteBinding(c)
    BY <1>1, <2>6, ValidationLocal, ValidationFailRun
       DEF BeginRecord, CopyEvidence, WriteBinding, Write, RunPlaces
  <2>7. CASE WriteNegative(c) \/ WriteRecord(c) \/ RecordManifest(c) \/ BeginFinalize(c)
    BY <1>1, <2>7, ValidationLocal, ValidationFailRun
       DEF WriteNegative, WriteRecord, RecordManifest, BeginFinalize, Write, WriteManifest, RunPlaces
  <2>8. CASE ConfirmRevoked(c)
    BY <1>1, <2>8, ConfirmRun, ValidationFailRun DEF ConfirmRevoked
  <2>9. CASE WriteResult(c) \/ FinalizeManifest(c)
    BY <1>1, <2>9, AfterRun, ValidationFailRun DEF WriteResult, FinalizeManifest, Write, WriteManifest
  <2> QED
    BY <2>1, <2>2, <2>3, <2>4, <2>5, <2>6, <2>7, <2>8, <2>9
       DEF ValidationMove, PreflightStep, RecordStep, FinalizeStep
<1> QED
  BY <1>1, <1>2, <1>3, CloudKept, StepKeepsRun DEF StepOf

-----------------------------------------------------------------------------
(* A run is allowed only under an approval.                                *)

FieldInv == RunInv /\ MemoInv

LEMMA InitField ==
    ASSUME FieldInit
    PROVE  FieldInv
<1> USE DEF FieldInit, SetupInit, ShadowInit
<1>1. Types
  BY DEF Types, RunTypes, CommandTypes
<1>2. CloudInv /\ PathsApart
  BY DEF CloudInv, PathsApart, InRun, RunPlaces
<1>3. \A c \in Commands : CommandOf(c)
  BY DEF CommandOf, KindOf, RunOf, OutcomeOf, LateOf, InRun, RunPlaces, SetupPlaces
<1>4. MemoInv
  BY DEF MemoInv
<1> QED
  BY <1>1, <1>2, <1>3, <1>4 DEF FieldInv, RunInv

LEMMA MemoKept ==
    ASSUME RunInv, MemoInv, NEW c \in Validations, ValidationMove(c), StepOf(c)
    PROVE  MemoInv'
<1>1. c \in Commands /\ \A d \in Commands \ {c} : pc'[d] = pc[d]
  BY DEF StepOf, Frame, Isolated
<1>2. DOMAIN memo' = Commands /\ \A d \in Commands \ {c} : memo'[d] = memo[d]
  <2>1. memo' = memo \/ \E m : memo' = [memo EXCEPT ![c] = m]
    BY DEF ValidationMove, PreflightStep, RecordStep, FinalizeStep, ValidationBroken, Forget,
         BeginValidation, BeginPreflight, WritePreflight, PreflightManifest, WriteSums,
         BeginRecord, CopyEvidence, WriteBinding, WriteNegative, WriteRecord, RecordManifest,
         BeginFinalize, ConfirmRevoked, WriteResult, FinalizeManifest, Write, WriteManifest,
         ValidationFail, validationVars
  <2> QED
    BY <2>1 DEF MemoInv
<1>3. pc'[c] = "finalizeRelease" => BeginFinalize(c)
  <2>1. ASSUME NEW q, Goto(c, q)
        PROVE  pc'[c] = q
    BY <1>1, <2>1 DEF RunInv, Types, CommandTypes
  <2> HIDE DEF Goto
  <2>2. ASSUME ShadowStep(c)
        PROVE  pc'[c] # "finalizeRelease"
    BY <2>1, <2>2 DEF ShadowStep, ShadowOpen, ShadowNotOpened, ShadowIneligible, ShadowClaim,
         ShadowJudge, ShadowBoundary, ShadowThrows, ShadowReport, ShadowVerified, Fail, End
  <2> QED
    BY <2>1, <2>2
      DEF ValidationMove, PreflightStep, RecordStep, FinalizeStep, ValidationBroken,
         BeginValidation, BeginPreflight, WritePreflight, PreflightManifest, WriteSums,
         BeginRecord, CopyEvidence, WriteBinding, WriteNegative, WriteRecord, RecordManifest,
         BeginFinalize, ConfirmRevoked, WriteResult, FinalizeManifest, Write, WriteManifest,
         ValidationFail, Fail, End
<1>4. ASSUME pc'[c] = "finalizeRelease"
      PROVE  memo'[c].setup \in SetupRecords
  <2>1. BeginFinalize(c) /\ SetupUnchanged /\ memo'[c].setup = setupFile
    <3>1. ~ValidationFail(c)
      BY <1>1, <1>4 DEF ValidationFail, Fail, End, RunInv, Types, CommandTypes
    <3> QED
      BY <1>1, <1>3, <1>4, <3>1 DEF BeginFinalize, MemoInv
  <2> QED
    BY <2>1 DEF SetupUnchanged, SetupIsBound, RunInv, Types, CommandTypes
<1> QED
  BY <1>1, <1>2, <1>4 DEF MemoInv

LEMMA FieldStep ==
    ASSUME FieldInv, [FieldNext]_fieldVars
    PROVE  FieldInv'
<1>1. CASE AdminMove /\ UNCHANGED validationVars
  BY <1>1, AdminMoveRun DEF FieldInv, MemoInv, Frame, Isolated, validationVars
<1>2. ASSUME NEW c \in Setups, SetupMove(c), UNCHANGED validationVars
      PROVE  FieldInv'
  <2>1. \A d \in Validations : pc'[d] = pc[d]
    BY <1>2, SetupMoveRun DEF FieldInv, StepOf, Frame, Isolated, shadowVars
  <2> QED
    BY <1>2, <2>1, SetupMoveRun DEF FieldInv, MemoInv, validationVars
<1>3. ASSUME NEW c \in Validations, ValidationMove(c)
      PROVE  FieldInv'
  BY <1>3, ValidationMoveRun, MemoKept DEF FieldInv
<1> QED
  BY <1>1, <1>2, <1>3, FieldMoves

\* Where every Shadow run stands, and what it has read and written, in every
\* behaviour.
THEOREM FieldInvariant == FieldSpec => []FieldInv
<1>1. FieldInit => FieldInv
  BY InitField
<1>2. FieldInv /\ [FieldNext]_fieldVars => FieldInv'
  BY FieldStep
<1> QED
  BY <1>1, <1>2, PTL DEF FieldSpec

(***************************************************************************)
(* A Shadow run of rlsok ros2 shadow that is allowed ran the content the   *)
(* administrator approved, and had not been begun after its revocation.    *)
(***************************************************************************)
THEOREM AllowedUnderApproval == FieldSpec => []AllowedOnlyUnderApproval
<1>1. FieldInv => AllowedOnlyUnderApproval
  BY DEF FieldInv, RunInv, CommandOf, OutcomeOf, AllowedOnlyUnderApproval
<1> QED
  BY <1>1, FieldInvariant, PTL

-----------------------------------------------------------------------------
(* What setup saved holds together.                                        *)

\* No step of another command touches the files of a name that is given once.
LEMMA OwnKept ==
    ASSUME RunInv, NEW c, Frame(c), NEW d \in Setups, d # c, pc[d] # "new", Alone(d)'
    PROVE  /\ Alone(d) /\ name[d] \in Names /\ name'[d] = name[d] /\ pc'[d] = pc[d]
           /\ releaseFile'[name[d]] = releaseFile[name[d]]
           /\ proposalFile'[name[d]] = proposalFile[name[d]]
           /\ resultFile'[name[d]] = resultFile[name[d]]
<1>1. name[d] \in Names /\ name'[d] = name[d] /\ pc'[d] = pc[d]
  BY DEF RunInv, CommandOf, KindOf, Frame, Isolated
<1>2. ASSUME NEW e \in Setups, e # d
      PROVE  name[e] # name[d]
  <2>1. name[e] = name[d] => name'[e] = name[e]
    BY <1>1 DEF RunInv, CommandOf, KindOf, Frame, Isolated, Begun
  <2> QED
    BY <1>1, <1>2, <2>1 DEF Alone
<1>3. Alone(d) /\ (c \in Setups => name[c] # name[d])
  BY <1>2 DEF Alone
<1>4. ASSUME resultFile'[name[d]] # resultFile[name[d]]
      PROVE  FALSE
  <2>1. c \in Commands /\ name[d] = path[c] /\ pc[c] \in RunPlaces \cup {"shadow"}
    BY <1>1, <1>4 DEF Frame, FilesKept, InRun
  <2>2. pc[c] # "new"
    BY <2>1 DEF RunPlaces
  <2> QED
    BY <1>1, <1>3, <2>1, <2>2 DEF RunInv, CommandOf, KindOf
<1> QED
  BY <1>1, <1>3, <1>4 DEF Frame, FilesKept

LEMMA OtherSetups ==
    ASSUME RunInv, SetupInv, NEW c, Frame(c), NEW d \in Setups, d # c
    PROVE  SetupOf(d)'
<1>1. SetupOf(d) /\ pc'[d] = pc[d] /\ loaded'[d] = loaded[d] /\ running'[d] = running[d]
  BY DEF SetupInv, Frame, Isolated
<1>2. CASE pc[d] = "new"
  BY <1>1, <1>2 DEF SetupOf, InRun, RunPlaces
<1>3. CASE pc[d] # "new"
  <2> SUFFICES ASSUME Alone(d)'
               PROVE  SetupOf(d)'
    BY DEF SetupOf
  <2>1. /\ Alone(d) /\ name'[d] = name[d] /\ releaseFile'[name[d]] = releaseFile[name[d]]
        /\ proposalFile'[name[d]] = proposalFile[name[d]]
    BY <1>3, OwnKept
  <2> QED
    BY <1>1, <2>1 DEF SetupOf, InRun
<1> QED
  BY <1>2, <1>3

LEMMA SavedKept ==
    ASSUME RunInv, SetupInv, NEW c, Frame(c), UNCHANGED setupFile
    PROVE  SetupFileInv' /\ SetupHoldsTogether'
<1> DEFINE s == setupFile.by
           n == setupFile.name
<1>1. SUFFICES ASSUME setupFile # None
               PROVE  SetupFileInv' /\ SetupHoldsTogether'
  BY DEF SetupFileInv, SetupHoldsTogether
<1>2. s \in Setups /\ n \in Names /\ pc[s] = "done" /\ name[s] = n
  BY <1>1 DEF RunInv, Types, CommandTypes, SetupRecords, SetupInv, SetupFileInv
<1>3. s # c /\ s \in Commands
  BY <1>2 DEF Frame, Begun, Ended
<1>4. pc'[s] = "done" /\ name'[s] = n
  BY <1>2, <1>3 DEF Frame, Isolated
<1>5. SetupFileInv'
  BY <1>4 DEF SetupFileInv
<1>6. ASSUME \A d \in Setups \ {s} : name'[d] # n
      PROVE  LET final == [name |-> n, drafter |-> s, approved |-> TRUE] IN
             /\ releaseFile'[n] = final /\ proposalFile'[n] = s
             /\ \E u \in Clouds :
                   /\ registered'[u][n] = final
                   /\ resultFile'[n] = [proposal |-> s, content |-> final, at |-> u, allowed |-> TRUE,
                                        reason |-> "allowed", verified |-> TRUE]
  <2> DEFINE final == [name |-> n, drafter |-> s, approved |-> TRUE]
  <2>1. Alone(s)'
    BY <1>4, <1>6 DEF Alone
  <2>2. Alone(s) /\ releaseFile'[n] = releaseFile[n] /\ proposalFile'[n] = proposalFile[n]
        /\ resultFile'[n] = resultFile[n]
    BY <1>2, <1>3, <2>1, OwnKept
  <2>3. ~NameReused(setupFile)
    BY <1>2, <2>2 DEF NameReused, Alone
  <2>4. PICK u \in Clouds :
          /\ releaseFile[n] = final /\ proposalFile[n] = s /\ registered[u][n] = final
          /\ resultFile[n] = [proposal |-> s, content |-> final, at |-> u, allowed |-> TRUE,
                              reason |-> "allowed", verified |-> TRUE]
    BY <1>1, <2>3 DEF SetupInv, SetupHoldsTogether
  <2>5. registered[u][n] # None /\ registered[u][n].approved
    <3>1. final \in Contents /\ final.approved
      BY <1>2 DEF Contents
    <3> QED
      BY <2>4, <3>1
  <2>6. registered'[u][n] = registered[u][n]
    BY <1>2, <2>5 DEF RunInv, CloudInv, Frame, CloudGrows
  <2> QED
    BY <2>2, <2>4, <2>6
<1>7. SetupHoldsTogether'
  BY <1>6 DEF SetupHoldsTogether, NameReused
<1> QED
  BY <1>5, <1>7

Placed == RunPlaces \cup {"rehash", "shadow"}

LEMMA PlaceOf ==
    ASSUME RunInv, NEW c \in Commands, NEW q, Goto(c, q) \/ End(c, q)
    PROVE  pc'[c] = q
BY DEF RunInv, Types, CommandTypes, End

\* Where a setup gets to the places its files matter at.
LEMMA SetupPlaced ==
    ASSUME RunInv, NEW c \in Setups, SetupMove(c), pc'[c] \in Placed
    PROVE  \/ AwaitApproval(c) /\ pc[c] = "wait" /\ pc'[c] = "rehash"
           \/ Propose(c) /\ pc[c] = "rehash" /\ pc'[c] = "shadow"
           \/ ShadowOpen(c) /\ pc[c] = "shadow" /\ pc'[c] = "claim"
           \/ ShadowClaim(c) /\ pc[c] = "claim" /\ pc'[c] \in {"judge", "report"}
           \/ (ShadowJudge(c) \/ ShadowBoundary(c) \/ ShadowReport(c) \/ ShadowVerified(c))
              /\ pc[c] \in RunPlaces \ {"claim"} /\ pc'[c] \in RunPlaces \ {"claim"}
<1>1. c \in Commands
  OBVIOUS
<1>2. ASSUME NEW q, Goto(c, q) \/ End(c, q)
      PROVE  pc'[c] = q
  BY <1>1, <1>2, PlaceOf
<1> HIDE DEF Goto
<1>3. ~SetupFail(c) /\ ~Fail(c)
  BY <1>2 DEF SetupFail, Fail, Placed, RunPlaces
<1>4. ~SetupBroken(c) /\ ~ShadowThrows(c) /\ ~Complete(c)
  BY <1>2, <1>3 DEF SetupBroken, ShadowThrows, Complete, Placed, RunPlaces
<1>5. ~Pair(c) /\ ~StartPairing(c) /\ ~BeginCopy(c) /\ ~EndCopy(c) /\ \A n \in Names : ~Begin(c, n)
  BY <1>2, <1>3 DEF Pair, StartPairing, BeginCopy, EndCopy, Begin, Placed, RunPlaces
<1>6. ~PollPairing(c) /\ ~Connect(c) /\ ~CreateDraft(c) /\ ~CheckDigest(c)
  BY <1>2, <1>3 DEF PollPairing, Connect, CreateDraft, CheckDigest, shadowVars, Placed, RunPlaces
<1>7. AwaitApproval(c) => pc[c] = "wait" /\ pc'[c] = "rehash"
  BY <1>2, <1>3 DEF AwaitApproval, shadowVars, Placed, RunPlaces
<1>8. Propose(c) => pc[c] = "rehash" /\ pc'[c] = "shadow"
  BY <1>2, <1>3 DEF Propose
<1>9. /\ ShadowOpen(c) => pc[c] = "shadow" /\ pc'[c] = "claim"
      /\ ShadowClaim(c) => pc[c] = "claim" /\ pc'[c] \in {"judge", "report"}
      /\ ShadowJudge(c) => pc[c] = "judge" /\ pc'[c] \in {"boundary", "report"}
      /\ ShadowBoundary(c) => pc[c] = "boundary" /\ pc'[c] = "report"
      /\ ShadowReport(c) => pc[c] = "report" /\ pc'[c] = "submit"
      /\ ShadowVerified(c) => pc[c] = "submit" /\ pc'[c] = "exit"
  BY <1>2 DEF ShadowOpen, ShadowClaim, ShadowJudge, ShadowBoundary, ShadowReport, ShadowVerified
<1> QED
  BY <1>3, <1>4, <1>5, <1>6, <1>7, <1>8, <1>9
     DEF SetupMove, SetupStep, ShadowStep, ShadowNotOpened, ShadowIneligible, RunPlaces

LEMMA SetupOwn ==
    ASSUME RunInv, SetupInv, NEW c \in Setups, SetupMove(c), StepOf(c)
    PROVE  SetupOf(c)'
<1>1. SUFFICES ASSUME Alone(c)', pc'[c] \in Placed
               PROVE  SetupOf(c)'
  BY DEF SetupOf, InRun, Placed
<1>2. c \in Commands /\ pc[c] # "new" /\ pc[c] \in Placed \cup {"wait"}
  BY <1>1, SetupPlaced DEF Placed, RunPlaces
<1>3. name'[c] = name[c] /\ name[c] \in Names /\ path[c] = name[c]
  BY <1>2 DEF StepOf, Frame, Begun, RunInv, CommandOf, KindOf
<1>4. Alone(c)
  <2>1. \A d \in Setups \ {c} : name'[d] = name[d]
    BY DEF StepOf, Frame, Isolated
  <2> QED
    BY <1>1, <1>3, <2>1 DEF Alone
<1>5. SetupOf(c)
  BY DEF SetupInv
<1> DEFINE final == [name |-> name[c], drafter |-> c, approved |-> TRUE]
<1>6. CASE AwaitApproval(c) /\ pc[c] = "wait" /\ pc'[c] = "rehash"
  <2>1. ReadyToRun(c) /\ releaseFile' = [releaseFile EXCEPT ![name[c]] = registered[endpoint[c]][name[c]]]
    BY <1>6 DEF AwaitApproval, SetupFail, Fail, End, shadowVars, RunInv, Types, CommandTypes
  <2>2. endpoint[c] \in Clouds
    BY <1>2, <1>6 DEF RunInv, CommandOf, RunOf, Types, CommandTypes
  <2> DEFINE held == registered[endpoint[c]][name[c]]
  <2>3. held \in Contents \cup {None} /\ held # None /\ held.approved
    <3>1. held # None
      BY <1>3, <2>1, <2>2 DEF ReadyToRun, RunInv, CloudInv
    <3> QED
      BY <1>3, <2>1, <2>2, <3>1 DEF ReadyToRun, RunInv, Types, RunTypes
  <2>4. held.name = name[c] /\ held.drafter \in Setups /\ name[held.drafter] = name[c]
    BY <1>3, <2>2, <2>3 DEF RunInv, CloudInv
  <2>5. held.drafter = c
    BY <1>4, <2>4 DEF Alone
  <2>6. held = final
    BY <2>3, <2>4, <2>5 DEF Contents
  <2>7. releaseFile'[name[c]] = final
    BY <1>3, <2>1, <2>6 DEF RunInv, Types, RunTypes
  <2> QED
    BY <1>3, <1>6, <2>7 DEF SetupOf, InRun, RunPlaces
<1>7. CASE Propose(c) /\ pc[c] = "rehash" /\ pc'[c] = "shadow"
  <2>1. proposalFile' = [proposalFile EXCEPT ![name[c]] = c] /\ UNCHANGED releaseFile
    BY <1>7 DEF Propose, SetupFail, Fail, End, RunInv, Types, CommandTypes
  <2>2. proposalFile'[name[c]] = c /\ releaseFile'[name[c]] = final
    BY <1>3, <1>4, <1>5, <1>7, <2>1 DEF SetupOf, RunInv, Types, RunTypes
  <2> QED
    BY <1>3, <1>7, <2>2 DEF SetupOf, InRun, RunPlaces
<1>8. CASE ShadowOpen(c) /\ pc[c] = "shadow" /\ pc'[c] = "claim"
  <2>1. loaded'[c] = releaseFile[name[c]] /\ UNCHANGED <<releaseFile, proposalFile>>
    BY <1>2, <1>8 DEF ShadowOpen, RunInv, Types, CommandTypes
  <2> QED
    BY <1>3, <1>4, <1>5, <1>8, <2>1 DEF SetupOf, InRun, RunPlaces
<1>9. CASE ShadowClaim(c) /\ pc[c] = "claim" /\ pc'[c] \in {"judge", "report"}
  <2>1. running'[c] = proposalFile[name[c]] /\ UNCHANGED <<releaseFile, proposalFile, loaded>>
    BY <1>2, <1>9 DEF ShadowClaim, RunInv, Types, CommandTypes
  <2> QED
    BY <1>3, <1>4, <1>5, <1>9, <2>1 DEF SetupOf, InRun, RunPlaces
<1>10. CASE /\ ShadowJudge(c) \/ ShadowBoundary(c) \/ ShadowReport(c) \/ ShadowVerified(c)
            /\ pc[c] \in RunPlaces \ {"claim"} /\ pc'[c] \in RunPlaces \ {"claim"}
  <2>1. UNCHANGED <<releaseFile, proposalFile, loaded, running>>
    BY <1>10 DEF ShadowJudge, ShadowBoundary, ShadowReport, ShadowVerified, runVars, localVars
  <2> QED
    BY <1>3, <1>4, <1>5, <1>10, <2>1 DEF SetupOf, InRun, RunPlaces
<1> QED
  BY <1>1, <1>6, <1>7, <1>8, <1>9, <1>10, SetupPlaced

\* setup.json is left, torn, or written by a setup whose run was allowed.
LEMMA SetupFileStep ==
    ASSUME NEW c \in Setups, SetupMove(c)
    PROVE  \/ setupFile' = setupFile \/ setupFile' = None
           \/ /\ pc[c] = "exit" /\ ShadowPassed(c) /\ End(c, "done")
              /\ setupFile' = [name |-> name[c], by |-> c, cloud |-> CloudOf[c]]
              /\ UNCHANGED <<cloudVars, credentials, runVars>>
<1>1. SetupFail(c) => UNCHANGED setupFile
  BY DEF SetupFail
<1>2. CASE SetupBroken(c) \/ Complete(c)
  BY <1>1, <1>2 DEF SetupBroken, TearSetup, Complete
<1>3. CASE BeginCopy(c) \/ EndCopy(c) \/ CheckDigest(c) \/ Pair(c) \/ StartPairing(c)
           \/ PollPairing(c) \/ Connect(c)
  BY <1>1, <1>3 DEF BeginCopy, EndCopy, CheckDigest, Pair, StartPairing, PollPairing, Connect, setupVars
<1>4. CASE \/ CreateDraft(c) \/ AwaitApproval(c) \/ Propose(c)
           \/ ShadowStep(c) /\ UNCHANGED setupVars
           \/ \E n \in Names : Begin(c, n)
  BY <1>1, <1>4 DEF CreateDraft, AwaitApproval, Propose, Begin, setupVars
<1> QED
  BY <1>2, <1>3, <1>4 DEF SetupMove, SetupStep

LEMMA Completed ==
    ASSUME RunInv, SetupInv, NEW c \in Setups, StepOf(c), pc[c] = "exit", ShadowPassed(c), End(c, "done"),
           setupFile' = [name |-> name[c], by |-> c, cloud |-> CloudOf[c]],
           UNCHANGED <<cloudVars, credentials, runVars>>
    PROVE  SetupFileInv' /\ SetupHoldsTogether'
<1> DEFINE n == name[c]
           final == [name |-> n, drafter |-> c, approved |-> TRUE]
<1>1. c \in Commands /\ n \in Names /\ path[c] = n /\ name' = name
  BY DEF RunInv, CommandOf, KindOf, RunPlaces, End
<1>2. pc'[c] = "done"
  BY <1>1, PlaceOf
<1>3. SetupFileInv'
  BY <1>1, <1>2 DEF SetupFileInv
<1>4. CASE \E d \in Setups \ {c} : name[d] = n
  <2>1. NameReused(setupFile)'
    BY <1>1, <1>4 DEF NameReused
  <2> QED
    BY <1>3, <2>1 DEF SetupHoldsTogether
<1>5. CASE Alone(c)
  <2>1. releaseFile[n] = final /\ proposalFile[n] = c /\ loaded[c] = final /\ running[c] = c
    BY <1>5 DEF SetupInv, SetupOf, InRun, RunPlaces
  <2>2. /\ outcome[c] \in Results /\ outcome[c].content = final /\ outcome[c].at \in Clouds
        /\ outcome[c].proposal = c /\ outcome[c].allowed
        /\ resultFile[n] = outcome[c] /\ outcome[c].verified
    <3>1. /\ outcome[c] # None /\ outcome[c].content = loaded[c] /\ outcome[c].at = endpoint[c]
          /\ outcome[c].proposal = running[c] /\ resultFile[n] = outcome[c]
      BY <1>1 DEF RunInv, CommandOf, RunOf
    <3>2. outcome[c] \in Results
      BY <1>1, <3>1 DEF RunInv, Types, CommandTypes
    <3> QED
      BY <1>1, <2>1, <3>1, <3>2 DEF ShadowPassed, Results
  <2>3. outcome[c].reason = "allowed" /\ registered[outcome[c].at][n] = final
    BY <1>1, <2>2 DEF RunInv, CommandOf, OutcomeOf
  <2>4. outcome[c] = [proposal |-> c, content |-> final, at |-> outcome[c].at, allowed |-> TRUE,
                      reason |-> "allowed", verified |-> TRUE]
    BY <2>2, <2>3 DEF Results
  <2>5. UNCHANGED <<registered, releaseFile, proposalFile, resultFile>>
    BY DEF cloudVars, runVars
  <2> QED
    BY <1>3, <2>1, <2>2, <2>3, <2>4, <2>5 DEF SetupHoldsTogether
<1> QED
  BY <1>4, <1>5 DEF Alone

LEMMA SetupInvStep ==
    ASSUME FieldInv, SetupInv, [FieldNext]_fieldVars
    PROVE  SetupInv'
<1> USE DEF FieldInv
<1>1. CASE AdminMove
  <2>1. Frame(None) /\ UNCHANGED setupFile
    BY <1>1, AdminMoveRun DEF AdminMove
  <2> QED
    BY <2>1, OtherSetups, SavedKept DEF SetupInv
<1>2. ASSUME NEW c \in Setups, SetupMove(c)
      PROVE  SetupInv'
  <2>1. CASE UNCHANGED <<shadowVars, setupFile>>
    <3>1. AdminMove
      BY <2>1 DEF AdminMove
    <3> QED
      BY <1>1, <3>1
  <2>2. CASE StepOf(c)
    <3>1. Frame(c) /\ \A d \in Setups : SetupOf(d)'
      BY <1>2, <2>2, OtherSetups, SetupOwn DEF StepOf
    <3>2. SetupFileInv' /\ SetupHoldsTogether'
      BY <1>2, <2>2, <3>1, SetupFileStep, SavedKept, Completed DEF SetupFileInv, SetupHoldsTogether
    <3> QED
      BY <3>1, <3>2 DEF SetupInv
  <2> QED
    BY <1>2, <2>1, <2>2, SetupMoveRun
<1>3. ASSUME NEW c \in Validations, ValidationMove(c)
      PROVE  SetupInv'
  <2>1. Frame(c) /\ UNCHANGED setupFile /\ c \notin Setups
    BY <1>3, ValidationMoveRun DEF StepOf
  <2> QED
    BY <2>1, OtherSetups, SavedKept DEF SetupInv
<1> QED
  BY <1>1, <1>2, <1>3, FieldMoves

\* What each setup under way has put in its files, in every behaviour.
THEOREM SetupInvariant == FieldSpec => []SetupInv
<1>1. FieldInit => SetupInv
  BY DEF FieldInit, SetupInit, ShadowInit, SetupInv, SetupOf, SetupFileInv, SetupHoldsTogether,
         InRun, RunPlaces
<1>2. FieldInv /\ SetupInv /\ [FieldNext]_fieldVars => SetupInv'
  BY SetupInvStep
<1> QED
  BY <1>1, <1>2, FieldInvariant, PTL DEF FieldSpec

(***************************************************************************)
(* What rlsok setup saves is the approved form of its own draft, its own   *)
(* proposal and a verified, allowed Shadow run of both, whatever other     *)
(* setups, kills and failures come before or after.                        *)
(***************************************************************************)
THEOREM SetupIsWhole == FieldSpec => []SetupHoldsTogether
<1>1. SetupInv => SetupHoldsTogether
  BY DEF SetupInv
<1> QED
  BY <1>1, SetupInvariant, PTL

-----------------------------------------------------------------------------
(* With one cloud for every setup, a name belongs to the setup that        *)
(* drafted it.                                                             *)

OneCloud(cloud) == cloud \in Clouds /\ \A c \in Setups : CloudOf[c] = cloud

\* The proposal of a drafter that is past it stays.
LEMMA ProposalKept ==
    ASSUME RunInv, NEW cloud \in Clouds, DraftedOnce(cloud), NEW c, Frame(c), NEW n \in Names,
           registered[cloud][n] # None,
           pc[Drafter(cloud, n)] # "rehash"
    PROVE  proposalFile'[n] = proposalFile[n]
<1>1. ASSUME proposalFile'[n] # proposalFile[n]
      PROVE  FALSE
  <2>1. c \in Setups /\ name[c] = n /\ pc[c] = "rehash"
    BY <1>1 DEF Frame, FilesKept
  <2>2. Drafter(cloud, n) = c
    BY <2>1 DEF DraftedOnce, DraftOf
  <2> QED
    BY <2>1, <2>2
<1> QED
  BY <1>1

LEMMA DrafterKept ==
    ASSUME NEW cloud \in Clouds, NEW c, Frame(c), NEW n \in Names, registered[cloud][n] # None
    PROVE  registered'[cloud][n] # None /\ Drafter(cloud, n)' = Drafter(cloud, n)
BY DEF Frame, CloudGrows, Drafter

LEMMA OthersDrafted ==
    ASSUME RunInv, NEW cloud \in Clouds, DraftedOnce(cloud), NEW c, Frame(c),
           credentials' = credentials \/ credentials' = cloud,
           NEW d \in Setups, d # c
    PROVE  DraftOf(cloud, d)'
<1>1. /\ DraftOf(cloud, d) /\ pc'[d] = pc[d] /\ endpoint'[d] = endpoint[d]
      /\ running'[d] = running[d] /\ name'[d] = name[d]
  BY DEF DraftedOnce, Frame, Isolated
<1>2. CASE pc[d] \in RunPlaces \cup {"wait", "rehash", "shadow"}
  <2>1. name[d] \in Names
    BY <1>2 DEF RunInv, CommandOf, KindOf, RunPlaces
  <2>2. registered[cloud][name[d]] # None /\ Drafter(cloud, name[d]) = d
    BY <1>1, <1>2 DEF DraftOf
  <2>3. registered'[cloud][name[d]] # None /\ Drafter(cloud, name[d])' = d
    BY <1>1, <2>1, <2>2, DrafterKept DEF Drafter
  <2>4. pc[d] \in RunPlaces => proposalFile'[name[d]] = proposalFile[name[d]]
    BY <2>1, <2>2, ProposalKept DEF RunPlaces
  <2> QED
    BY <1>1, <2>3, <2>4 DEF DraftOf, Drafter
<1>3. CASE pc[d] \notin RunPlaces \cup {"wait", "rehash", "shadow"}
  BY <1>1, <1>3 DEF DraftOf
<1> QED
  BY <1>2, <1>3

\* The evidence under a name that is not the mover's.
LEMMA OthersEvidence ==
    ASSUME RunInv, NEW cloud \in Clouds, DraftedOnce(cloud), NEW c, Frame(c), NEW n \in Names,
           resultFile[n] = None \/ Drafter(cloud, n) # c,
           ~(c \in Setups /\ pc[c] = "shadow" /\ name[c] = n)
    PROVE  EvidenceOf(cloud, n)'
<1>1. SUFFICES ASSUME resultFile'[n] # None
               PROVE  EvidenceOf(cloud, n)'
  BY DEF EvidenceOf
<1>2. /\ n \in Paths
      /\ resultFile'[n] # resultFile[n] =>
            c \in Setups /\ name[c] = n /\ pc[c] \in RunPlaces
  <2>1. ASSUME resultFile'[n] # resultFile[n]
        PROVE  c \in Setups /\ name[c] = n /\ pc[c] \in RunPlaces \cup {"shadow"}
    <3>1. c \in Commands /\ n = path[c] /\ pc[c] \in RunPlaces \cup {"shadow"}
      BY <2>1 DEF Frame, FilesKept
    <3>2. pc[c] # "new"
      BY <3>1 DEF RunPlaces
    <3> QED
      BY <3>1, <3>2 DEF RunInv, CommandOf, KindOf
  <2> QED
    BY <2>1
<1>3. resultFile'[n] = resultFile[n]
  <2>1. ASSUME resultFile'[n] # resultFile[n]
        PROVE  FALSE
    <3>1. c \in Setups /\ name[c] = n /\ InRun(c)
      BY <1>2, <2>1 DEF InRun
    <3>2. Drafter(cloud, n) = c /\ resultFile[n] # None
      BY <3>1 DEF DraftedOnce, DraftOf, InRun, RunInv, CommandOf, RunOf, KindOf, RunPlaces
    <3> QED
      BY <3>2
  <2> QED
    BY <2>1
<1>4. EvidenceOf(cloud, n) /\ registered[cloud][n] # None
  BY <1>1, <1>3 DEF DraftedOnce, EvidenceOf
<1>5. registered'[cloud][n] # None /\ Drafter(cloud, n)' = Drafter(cloud, n)
  BY <1>4, DrafterKept
<1>6. Drafter(cloud, n) \in Commands
  BY <1>4 DEF RunInv, CloudInv, Drafter
<1>7. pc'[Drafter(cloud, n)] = pc[Drafter(cloud, n)]
  BY <1>1, <1>3, <1>6 DEF Frame, Isolated
<1>8. proposalFile'[n] = proposalFile[n]
  BY <1>1, <1>3, <1>4, ProposalKept DEF EvidenceOf, RunPlaces
<1> QED
  BY <1>3, <1>4, <1>5, <1>7, <1>8 DEF EvidenceOf

\* How a setup gets to its draft and to the wait for its approval.
LEMMA SetupDrafts ==
    ASSUME RunInv, NEW c \in Setups, SetupMove(c), pc'[c] \in {"connect", "draft", "wait"}
    PROVE  \/ UNCHANGED shadowVars
           \/ pc'[c] = "connect" /\ credentials' = CloudOf[c]
           \/ /\ pc[c] = "connect" /\ pc'[c] = "draft"
              /\ endpoint'[c] = credentials /\ UNCHANGED credentials
           \/ /\ pc[c] = "draft" /\ pc'[c] = "wait" /\ UNCHANGED <<credentials, endpoint>>
              /\ registered' = [registered EXCEPT ![endpoint[c]][name[c]] =
                                   [name |-> name[c], drafter |-> c, approved |-> FALSE]]
<1>1. c \in Commands
  OBVIOUS
<1>2. ASSUME NEW q, Goto(c, q) \/ End(c, q)
      PROVE  pc'[c] = q
  BY <1>1, <1>2, PlaceOf
<1> HIDE DEF Goto
<1>3. ~SetupFail(c) /\ ~Fail(c)
  BY <1>2 DEF SetupFail, Fail
<1>4. ~SetupBroken(c) /\ ~Complete(c) /\ ~BeginCopy(c) /\ ~EndCopy(c) /\ ~CheckDigest(c)
      /\ ~StartPairing(c) /\ ~Propose(c) /\ \A n \in Names : ~Begin(c, n)
  BY <1>2, <1>3 DEF SetupBroken, Complete, BeginCopy, EndCopy, CheckDigest, StartPairing, Propose, Begin
<1>5. ~ShadowStep(c)
  BY <1>2, <1>3 DEF ShadowStep, ShadowOpen, ShadowNotOpened, ShadowIneligible, ShadowClaim,
     ShadowJudge, ShadowBoundary, ShadowThrows, ShadowReport, ShadowVerified
<1>6. CASE Pair(c) \/ PollPairing(c)
  BY <1>2, <1>3, <1>6 DEF Pair, PollPairing
<1>7. CASE Connect(c)
  BY <1>1, <1>2, <1>3, <1>7 DEF Connect, RunInv, Types, CommandTypes
<1>8. CASE CreateDraft(c)
  BY <1>2, <1>3, <1>8 DEF CreateDraft, localVars
<1>9. CASE AwaitApproval(c)
  BY <1>2, <1>3, <1>9 DEF AwaitApproval
<1> QED
  BY <1>4, <1>5, <1>6, <1>7, <1>8, <1>9 DEF SetupMove, SetupStep

LEMMA CredentialsStep ==
    ASSUME NEW c \in Setups, SetupMove(c)
    PROVE  credentials' = credentials \/ credentials' = CloudOf[c]
<1>1. SetupFail(c) => UNCHANGED credentials
  BY DEF SetupFail, Fail
<1>2. ShadowStep(c) => UNCHANGED credentials
  BY DEF ShadowStep, ShadowOpen, ShadowNotOpened, ShadowIneligible, ShadowClaim,
     ShadowJudge, ShadowBoundary, ShadowThrows, ShadowReport, ShadowVerified, Fail
<1>3. CASE BeginCopy(c) \/ EndCopy(c) \/ CheckDigest(c) \/ Pair(c) \/ StartPairing(c)
           \/ PollPairing(c) \/ Connect(c)
  BY <1>1, <1>3 DEF BeginCopy, EndCopy, CheckDigest, Pair, StartPairing, PollPairing, Connect, shadowVars
<1> QED
  BY <1>1, <1>2, <1>3
     DEF SetupMove, SetupStep, CreateDraft, AwaitApproval, Propose, Complete, Begin, SetupBroken, shadowVars

LEMMA OwnDraft ==
    ASSUME RunInv, NEW cloud, OneCloud(cloud), DraftedOnce(cloud),
           NEW c \in Setups, SetupMove(c), StepOf(c)
    PROVE  DraftOf(cloud, c)'
<1>1. cloud \in Clouds /\ c \in Commands /\ CloudOf[c] = cloud /\ DraftOf(cloud, c)
  BY DEF OneCloud, DraftedOnce
<1>2. credentials = cloud => credentials' = cloud
  BY <1>1, CredentialsStep
<1>3. Frame(c)
  BY DEF StepOf
<1>4. pc[c] # "new" => name'[c] = name[c] /\ name[c] \in Names
  BY <1>1, <1>3 DEF Frame, Begun, RunInv, CommandOf, KindOf
<1>5. CASE pc'[c] \notin Placed \cup {"connect", "draft", "wait"}
  BY <1>5 DEF DraftOf, Placed
<1>6. CASE pc'[c] \in {"connect", "draft", "wait"}
  <2>1. CASE UNCHANGED shadowVars
    BY <1>1, <2>1 DEF DraftOf, Drafter, shadowVars, cloudVars, runVars, localVars
  <2>2. CASE pc'[c] = "connect" /\ credentials' = CloudOf[c]
    BY <1>1, <2>2 DEF DraftOf, RunPlaces
  <2>3. CASE /\ pc[c] = "connect" /\ pc'[c] = "draft"
             /\ endpoint'[c] = credentials /\ UNCHANGED credentials
    BY <1>1, <2>3 DEF DraftOf, RunPlaces
  <2>4. CASE /\ pc[c] = "draft" /\ pc'[c] = "wait" /\ UNCHANGED <<credentials, endpoint>>
             /\ registered' = [registered EXCEPT ![endpoint[c]][name[c]] =
                                  [name |-> name[c], drafter |-> c, approved |-> FALSE]]
    <3> DEFINE draft == [name |-> name[c], drafter |-> c, approved |-> FALSE]
    <3>1. endpoint[c] = cloud /\ credentials = cloud
      BY <1>1, <2>4 DEF DraftOf
    <3>2. registered'[cloud][name[c]] = draft
      BY <1>1, <1>4, <2>4, <3>1 DEF RunInv, Types, RunTypes
    <3>3. draft # None /\ draft.drafter = c
      <4>1. draft \in Contents
        BY <1>1, <1>4, <2>4 DEF Contents
      <4> QED
        BY <4>1
    <3> HIDE DEF draft
    <3> QED
      BY <1>4, <2>4, <3>1, <3>2, <3>3 DEF DraftOf, Drafter, RunPlaces
  <2> QED
    BY <1>6, <2>1, <2>2, <2>3, <2>4, SetupDrafts
<1>7. CASE pc'[c] \in Placed
  <2>1. pc[c] \in Placed \cup {"wait"} /\ pc[c] # "new"
    BY <1>7, SetupPlaced DEF Placed, RunPlaces
  <2>2. credentials' = cloud /\ registered[cloud][name[c]] # None /\ Drafter(cloud, name[c]) = c
    BY <1>1, <1>2, <2>1 DEF DraftOf, Placed
  <2>3. registered'[cloud][name[c]] # None /\ Drafter(cloud, name[c])' = c
    BY <1>1, <1>3, <1>4, <2>1, <2>2, DrafterKept DEF Drafter
  <2>4. pc'[c] \in RunPlaces \ {"claim"} => running'[c] = proposalFile'[name[c]]
    <3>1. SUFFICES ASSUME pc'[c] \in RunPlaces \ {"claim"}
                   PROVE  running'[c] = proposalFile'[name[c]]
      OBVIOUS
    <3>2. \/ ShadowClaim(c)
          \/ pc[c] \in RunPlaces \ {"claim"} /\ (ShadowJudge(c) \/ ShadowBoundary(c) \/ ShadowReport(c) \/ ShadowVerified(c))
      BY <1>7, <3>1, SetupPlaced DEF RunPlaces
    <3>3. ShadowClaim(c) => running'[c] = proposalFile[name[c]] /\ UNCHANGED proposalFile
      BY <1>1 DEF ShadowClaim, RunInv, Types, CommandTypes
    <3>4. ShadowJudge(c) \/ ShadowBoundary(c) \/ ShadowReport(c) \/ ShadowVerified(c) =>
             UNCHANGED <<running, proposalFile>>
      BY DEF ShadowJudge, ShadowBoundary, ShadowReport, ShadowVerified, runVars, localVars
    <3> QED
      BY <1>1, <3>2, <3>3, <3>4 DEF DraftOf
  <2> QED
    BY <1>4, <1>7, <2>1, <2>2, <2>3, <2>4 DEF DraftOf, Drafter, Placed, RunPlaces
<1> QED
  BY <1>5, <1>6, <1>7

\* What a setup in its run does to its evidence.
LEMMA EvidenceStep ==
    ASSUME RunInv, NEW c \in Setups, SetupMove(c), pc[c] \in RunPlaces \cup {"shadow"}
    PROVE  /\ proposalFile' = proposalFile
           /\ \/ resultFile' = resultFile /\ pc'[c] \in RunPlaces \cup {"done", "failed"}
              \/ /\ resultFile' = [resultFile EXCEPT ![path[c]] = Reserved]
                 /\ pc'[c] \in RunPlaces
              \/ /\ pc[c] \in RunPlaces \ {"claim"} /\ pc'[c] \in RunPlaces \cup {"failed"}
                 /\ \E r : /\ resultFile' = [resultFile EXCEPT ![path[c]] = r]
                           /\ r.proposal = running[c]
<1>1. c \in Commands
  OBVIOUS
<1>2. ASSUME NEW q, Goto(c, q) \/ End(c, q)
      PROVE  pc'[c] = q
  BY <1>1, <1>2, PlaceOf
<1> HIDE DEF Goto
<1>3. Fail(c) => /\ pc'[c] = "failed" /\ UNCHANGED <<proposalFile, resultFile>>
  BY <1>2 DEF Fail, runVars
<1>4. ~BeginCopy(c) /\ ~EndCopy(c) /\ ~CheckDigest(c) /\ ~Pair(c) /\ ~StartPairing(c)
      /\ ~PollPairing(c) /\ ~Connect(c) /\ ~CreateDraft(c) /\ ~AwaitApproval(c) /\ ~Propose(c)
      /\ \A n \in Names : ~Begin(c, n)
  BY DEF BeginCopy, EndCopy, CheckDigest, Pair, StartPairing, PollPairing, Connect, CreateDraft,
         AwaitApproval, Propose, Begin, MayStart, RunPlaces
<1>5. CASE Complete(c)
  BY <1>2, <1>3, <1>5 DEF Complete, SetupFail, runVars
<1>6. CASE SetupBroken(c)
  BY <1>2, <1>6 DEF SetupBroken, TearSetup, RunPlaces
<1>7. CASE ShadowThrows(c)
  <2>1. resultFile' = [resultFile EXCEPT ![path[c]] = Decided(c, FALSE, "failed")]
    BY <1>7 DEF ShadowThrows
  <2>2. Decided(c, FALSE, "failed").proposal = running[c]
    BY DEF Decided, Answer
  <2>3. pc[c] \in {"judge", "boundary"} /\ pc'[c] = "failed" /\ proposalFile' = proposalFile
    BY <1>2, <1>7 DEF ShadowThrows
  <2> QED
    BY <2>1, <2>2, <2>3 DEF RunPlaces
<1>8. CASE ShadowReport(c)
  <2>1. /\ pc[c] = "report" /\ pc'[c] = "submit" /\ proposalFile' = proposalFile
        /\ resultFile' = [resultFile EXCEPT ![path[c]] = outcome[c]]
    BY <1>2, <1>8 DEF ShadowReport
  <2>2. outcome[c].proposal = running[c]
    BY <1>1, <2>1 DEF RunInv, CommandOf, RunOf
  <2> QED
    BY <2>1, <2>2 DEF RunPlaces
<1>9. CASE ShadowVerified(c)
  <2>1. /\ pc[c] = "submit" /\ pc'[c] = "exit" /\ proposalFile' = proposalFile
        /\ resultFile' = [resultFile EXCEPT ![path[c]] = outcome'[c]]
        /\ outcome' = [outcome EXCEPT ![c] = [outcome[c] EXCEPT !.verified = TRUE]]
    BY <1>2, <1>9 DEF ShadowVerified
  <2>2. outcome[c] \in Results /\ outcome[c].proposal = running[c]
    BY <1>1, <2>1 DEF RunInv, Types, CommandTypes, CommandOf, RunOf
  <2>3. outcome'[c].proposal = running[c]
    BY <1>1, <2>1, <2>2 DEF RunInv, Types, CommandTypes, Results
  <2> QED
    BY <2>1, <2>3 DEF RunPlaces
<1>10. CASE ShadowOpen(c)
  BY <1>2, <1>10 DEF ShadowOpen, RunPlaces
<1>11. CASE ShadowNotOpened(c) \/ ShadowIneligible(c)
  BY <1>3, <1>11 DEF ShadowNotOpened, ShadowIneligible
<1>12. CASE ShadowClaim(c)
  BY <1>2, <1>12 DEF ShadowClaim, RunPlaces
<1>13. CASE ShadowJudge(c) \/ ShadowBoundary(c)
  BY <1>2, <1>13 DEF ShadowJudge, ShadowBoundary, runVars, RunPlaces
<1> QED
  BY <1>4, <1>5, <1>6, <1>7, <1>8, <1>9, <1>10, <1>11, <1>12, <1>13 DEF SetupMove, SetupStep, ShadowStep

LEMMA OwnEvidence ==
    ASSUME RunInv, NEW cloud \in Clouds, DraftedOnce(cloud), NEW c \in Setups, SetupMove(c), StepOf(c),
           NEW n \in Names, registered[cloud][n] # None, Drafter(cloud, n) = c,
           resultFile[n] # None \/ pc[c] = "shadow"
    PROVE  EvidenceOf(cloud, n)'
<1>1. c \in Commands /\ Frame(c) /\ name[c] = n /\ pc[c] # "new" /\ pc[c] \notin Ended
  BY DEF StepOf, Frame, Begun, RunInv, CloudInv, Drafter
<1>2. path[c] = n /\ n \in Paths
  BY <1>1 DEF RunInv, CommandOf, KindOf
<1>3. pc[c] \in RunPlaces \cup {"shadow"}
  BY <1>1 DEF DraftedOnce, EvidenceOf, Ended
<1>4. registered'[cloud][n] # None /\ Drafter(cloud, n)' = c
  BY <1>1, DrafterKept
<1>5. proposalFile' = proposalFile
  BY <1>3, EvidenceStep
<1>6. CASE resultFile' = resultFile /\ pc'[c] \in RunPlaces \cup {"done", "failed"}
  BY <1>4, <1>5, <1>6 DEF DraftedOnce, EvidenceOf
<1>7. CASE resultFile' = [resultFile EXCEPT ![path[c]] = Reserved] /\ pc'[c] \in RunPlaces
  <2>1. resultFile'[n] = Reserved
    BY <1>2, <1>7 DEF RunInv, Types, RunTypes
  <2> QED
    BY <1>4, <1>7, <2>1 DEF EvidenceOf
<1>8. ASSUME NEW r, pc[c] \in RunPlaces \ {"claim"}, pc'[c] \in RunPlaces \cup {"failed"},
             resultFile' = [resultFile EXCEPT ![path[c]] = r], r.proposal = running[c]
      PROVE  EvidenceOf(cloud, n)'
  <2>1. resultFile'[n] = r
    BY <1>2, <1>8 DEF RunInv, Types, RunTypes
  <2>2. running[c] = proposalFile[n]
    BY <1>1, <1>8 DEF DraftedOnce, DraftOf
  <2> QED
    BY <1>4, <1>5, <1>8, <2>1, <2>2 DEF EvidenceOf
<1> QED
  BY <1>3, <1>6, <1>7, <1>8, EvidenceStep

LEMMA DraftedStep ==
    ASSUME FieldInv, NEW cloud, OneCloud(cloud), DraftedOnce(cloud), [FieldNext]_fieldVars
    PROVE  DraftedOnce(cloud)'
<1> USE DEF FieldInv
<1>1. cloud \in Clouds
  BY DEF OneCloud
<1>2. ASSUME NEW c, c \notin Setups, Frame(c), UNCHANGED credentials
      PROVE  DraftedOnce(cloud)'
  <2>1. \A d \in Setups : DraftOf(cloud, d)'
    BY <1>1, <1>2, OthersDrafted
  <2>2. ASSUME NEW n \in Names
        PROVE  EvidenceOf(cloud, n)'
    <3>1. resultFile[n] # None => Drafter(cloud, n) \in Setups
      BY <1>1 DEF DraftedOnce, EvidenceOf, Drafter, RunInv, CloudInv
    <3> QED
      BY <1>1, <1>2, <3>1, OthersEvidence
  <2> QED
    BY <2>1, <2>2 DEF DraftedOnce
<1>3. CASE AdminMove
  <2>1. Frame(None) /\ UNCHANGED credentials
    BY <1>3, AdminMoveRun DEF AdminMove, Approve, Revoke, ClearClaims, shadowVars
  <2> QED
    BY <1>2, <2>1
<1>4. ASSUME NEW c \in Setups, SetupMove(c)
      PROVE  DraftedOnce(cloud)'
  <2>1. CASE UNCHANGED <<shadowVars, setupFile>>
    BY <1>3, <2>1 DEF AdminMove
  <2>2. CASE StepOf(c)
    <3>1. Frame(c) /\ (credentials' = credentials \/ credentials' = cloud)
      BY <1>4, <2>2, CredentialsStep DEF StepOf, OneCloud
    <3>2. \A d \in Setups : DraftOf(cloud, d)'
      BY <1>1, <1>4, <2>2, <3>1, OthersDrafted, OwnDraft
    <3>3. ASSUME NEW n \in Names
          PROVE  EvidenceOf(cloud, n)'
      <4>1. resultFile[n] # None => registered[cloud][n] # None
        BY DEF DraftedOnce, EvidenceOf
      <4>2. pc[c] = "shadow" /\ name[c] = n => registered[cloud][n] # None /\ Drafter(cloud, n) = c
        BY <1>4 DEF DraftedOnce, DraftOf
      <4> QED
        BY <1>1, <1>4, <2>2, <3>1, <4>1, <4>2, OthersEvidence, OwnEvidence
    <3> QED
      BY <3>2, <3>3 DEF DraftedOnce
  <2> QED
    BY <1>4, <2>1, <2>2, SetupMoveRun
<1>5. ASSUME NEW c \in Validations, ValidationMove(c)
      PROVE  DraftedOnce(cloud)'
  <2>1. Frame(c) /\ c \notin Setups
    BY <1>5, ValidationMoveRun DEF StepOf
  <2>2. UNCHANGED credentials
    BY <1>5 DEF ValidationMove, PreflightStep, RecordStep, FinalizeStep, ValidationBroken,
         BeginValidation, BeginPreflight, WritePreflight, PreflightManifest, WriteSums,
         BeginRecord, CopyEvidence, WriteBinding, WriteNegative, WriteRecord, RecordManifest,
         BeginFinalize, ConfirmRevoked, WriteResult, FinalizeManifest, Write, WriteManifest,
         ValidationFail, Fail, ShadowStep, ShadowOpen, ShadowNotOpened, ShadowIneligible, ShadowClaim,
         ShadowJudge, ShadowBoundary, ShadowThrows, ShadowReport, ShadowVerified
  <2> QED
    BY <1>2, <2>1, <2>2
<1> QED
  BY <1>3, <1>4, <1>5, FieldMoves

-----------------------------------------------------------------------------
(* A validation that says PASSED.                                          *)

\* A verified result, and a revocation, stay.
LEMMA ProvenKept ==
    ASSUME RunInv, NEW c, Frame(c), NEW p \in Paths, resultFile[p] \in Results, resultFile[p].verified
    PROVE  resultFile'[p] = resultFile[p]
<1>1. SUFFICES ASSUME resultFile'[p] # resultFile[p]
               PROVE  FALSE
  OBVIOUS
<1>2. c \in Commands /\ p = path[c] /\ pc[c] \in RunPlaces \ {"exit"}
  BY <1>1 DEF Frame, FilesKept
<1>3. RunOf(c)
  BY <1>2 DEF RunInv, CommandOf
<1> QED
  BY <1>2, <1>3 DEF RunOf, RunPlaces

LEMMA RevokedKept ==
    ASSUME RunInv, NEW c, Frame(c), NEW cloud \in Clouds, NEW n \in Names, state[cloud][n] = "revoked"
    PROVE  registered'[cloud][n] = registered[cloud][n] /\ state'[cloud][n] = "revoked"
BY DEF RunInv, CloudInv, Frame, CloudGrows

LEMMA RecordedSetup ==
    ASSUME RecordFileInv, NEW session, NEW who, Whole(session, who)
    PROVE  /\ dir["binding"].setup \in SetupRecords
           /\ dir["binding"].name = dir["binding"].setup.name
           /\ Proof(dir["shadow"], dir["binding"].setup, dir["binding"].release)
BY DEF RecordFileInv, Whole, Proof

LEMMA RecordFileKept ==
    ASSUME RunInv, RecordFileInv, NEW c, Frame(c),
           dir'["record"] = dir["record"] \/ dir'["record"] = Torn
    PROVE  RecordFileInv'
<1>1. SUFFICES ASSUME dir'["record"] \notin {None, Torn}
               PROVE  RecordFileInv'
  BY DEF RecordFileInv
<1> DEFINE setup == dir["record"].binding.setup
<1>2. dir'["record"] = dir["record"] /\ Proof(dir["record"].shadow, setup, dir["record"].binding.release)
  BY <1>1 DEF RecordFileInv
<1>3. resultFile'[setup.name] = resultFile[setup.name]
  <2>1. setup.name \in Paths
    BY <1>2 DEF Proof, SetupRecords
  <2> QED
    BY <1>2, <2>1, ProvenKept DEF Proof
<1> QED
  BY <1>1, <1>2, <1>3 DEF RecordFileInv, Proof

LEMMA DeniedKept ==
    ASSUME RunInv, RecordFileInv, NEW c, Frame(c), UNCHANGED dir,
           NEW session, NEW who, Whole(session, who), Denied
    PROVE  Denied'
<1>1. dir["binding"].setup.cloud \in Clouds /\ dir["binding"].name \in Names
  BY RecordedSetup DEF SetupRecords
<1>2. resultFile'[Session] = resultFile[Session]
  BY ProvenKept DEF Denied
<1>3. RevokedIn(dir["binding"].setup.cloud, dir["binding"].name, dir["binding"].release)'
  BY <1>1, RevokedKept DEF Denied, RevokedIn
<1> QED
  BY <1>2, <1>3 DEF Denied, RevokedIn

LEMMA PassedKept ==
    ASSUME RunInv, RecordFileInv, PassedInv, NEW c, Frame(c), UNCHANGED <<dir, manifest>>
    PROVE  PassedInv'
<1>1. SUFFICES ASSUME Phase("finalize")
               PROVE  PassedInv'
  BY DEF PassedInv, Phase
<1>2. Whole(manifest.session, dir["result"].operator) /\ Denied
      /\ dir["result"].session = manifest.session
  BY <1>1 DEF PassedInv
<1>3. Denied'
  BY <1>2, DeniedKept
<1> QED
  BY <1>2, <1>3 DEF PassedInv, Whole

LEMMA RecordKept ==
    ASSUME RunInv, NEW d \in Validations, RecordOf(d), NEW c, Frame(c),
           UNCHANGED <<dir, manifest, memo>>, pc'[d] = pc[d]
    PROVE  RecordOf(d)'
<1> DEFINE setup == memo[d].setup
<1>1. pc[d] \in RecordPlaces => resultFile'[setup.name] = resultFile[setup.name]
  <2>1. pc[d] \in RecordPlaces =>
           setup.name \in Paths /\ resultFile[setup.name] \in Results /\ resultFile[setup.name].verified
    BY DEF RecordOf, SetupRecords
  <2> QED
    BY <2>1, ProvenKept
<1> QED
  BY <1>1 DEF RecordOf, Proof, Phase, RecordPlaces

\* Up to the denial, whichever places the validation goes through.
LEMMA FinalizeKept ==
    ASSUME RunInv, RecordFileInv, NEW d \in Validations, FinalizeOf(d), NEW c, Frame(c),
           UNCHANGED <<dir, manifest>>, memo'[d] = memo[d], operator'[d] = operator[d],
           \/ pc'[d] = pc[d]
           \/ pc[d] \in DenialPlaces /\ pc'[d] \in DenialPlaces \ {"finalizeManifest"}
    PROVE  FinalizeOf(d)'
<1> DEFINE setup == memo[d].setup
<1>1. SUFFICES ASSUME pc[d] \in FinalizePlaces
               PROVE  FinalizeOf(d)'
  BY DEF FinalizeOf, FinalizePlaces, DenialPlaces
<1>2. /\ Phase("record") /\ Whole(memo[d].session, operator[d])
      /\ setup = dir["binding"].setup /\ memo[d].release = dir["binding"].release
  BY <1>1 DEF FinalizeOf
<1>3. Phase("record")' /\ Whole(memo[d].session, operator[d])'
  BY <1>2 DEF Phase, Whole
<1>4. setup.cloud \in Clouds /\ setup.name \in Names
  BY <1>2, RecordedSetup DEF SetupRecords
<1>5. pc[d] \in DenialPlaces => RevokedIn(setup.cloud, setup.name, memo[d].release)'
  BY <1>4, RevokedKept DEF FinalizeOf, RevokedIn
<1>6. pc[d] = "finalizeManifest" => Denied'
  BY <1>2, DeniedKept DEF FinalizeOf
<1> QED
  BY <1>2, <1>3, <1>5, <1>6 DEF FinalizeOf, RevokedIn, FinalizePlaces, DenialPlaces

LEMMA AsideKept ==
    ASSUME RunInv, ValidationInv, NEW c, Frame(c), UNCHANGED validationVars,
           \A d \in Validations : pc'[d] = pc[d]
    PROVE  ValidationInv'
<1>1. UNCHANGED <<dir, manifest, operator, memo>>
  BY DEF validationVars, dirVars
<1>2. OneValidation'
  <2>1. \A d \in Validations : (d \in AtWork)' <=> d \in AtWork
    BY DEF AtWork
  <2> QED
    BY <2>1 DEF ValidationInv, OneValidation
<1>3. \A d \in Validations : RecordOf(d)' /\ FinalizeOf(d)'
  BY <1>1, RecordKept, FinalizeKept DEF ValidationInv
<1>4. RecordFileInv' /\ PassedInv'
  BY <1>1, RecordFileKept, PassedKept DEF ValidationInv
<1> QED
  BY <1>1, <1>2, <1>3, <1>4 DEF ValidationInv

\* What a step of a validation keeps of its own.
Kept(c) == RecordOf(c)' /\ FinalizeOf(c)' /\ RecordFileInv' /\ PassedInv'

Idle == {"new", "done", "failed", "preflight", "record", "finalize", "sums"}

LEMMA IdleKept ==
    ASSUME NEW c \in Validations, pc'[c] \in Idle
    PROVE  RecordOf(c)' /\ FinalizeOf(c)'
BY DEF Idle, RecordOf, FinalizeOf, RecordPlaces, FinalizePlaces, DenialPlaces, RunPlaces

\* A step that leaves the directory.
LEMMA LeavesDir ==
    ASSUME RunInv, ValidationInv, NEW c \in Validations, Frame(c), UNCHANGED <<dir, manifest>>
    PROVE  RecordFileInv' /\ PassedInv'
BY RecordFileKept, PassedKept DEF ValidationInv

\* A file is written while the manifest is that of an earlier phase.
LEMMA WroteFile ==
    ASSUME RunInv, ValidationInv, NEW c \in Validations, NEW f \in FileNames, NEW content, NEW q,
           Write(c, f, content, q)
    PROVE  /\ pc'[c] = q /\ dir'[f] = content /\ DOMAIN dir' = FileNames
           /\ \A g \in FileNames \ {f} : dir'[g] = dir[g]
           /\ UNCHANGED <<registered, state, resultFile, manifest, memo, operator>>
<1>1. c \in Commands /\ Goto(c, q)
  BY DEF Write
<1>2. pc'[c] = q
  BY <1>1, PlaceOf
<1> QED
  BY <1>2 DEF Write, ValidationInv, cloudVars, runVars

LEMMA NotPassed ==
    ASSUME ValidationInv, NEW c \in Validations,
           pc[c] \in RecordPlaces \cup FinalizePlaces \cup {"preflightFile", "preflightManifest"}
    PROVE  ~Phase("finalize")
BY DEF ValidationInv, RecordOf, FinalizeOf, Phase, RecordPlaces, FinalizePlaces, DenialPlaces, RunPlaces

LEMMA PreflightKept ==
    ASSUME RunInv, ValidationInv, NEW c \in Validations, Frame(c),
           BeginPreflight(c) \/ WritePreflight(c) \/ PreflightManifest(c)
    PROVE  Kept(c)
<1>1. c \in Commands
  OBVIOUS
<1>2. ASSUME NEW q, Goto(c, q) \/ End(c, q)
      PROVE  pc'[c] = q
  BY <1>1, <1>2, PlaceOf
<1>3. CASE ValidationFail(c)
  <2>1. pc'[c] \in Idle /\ UNCHANGED <<dir, manifest>>
    BY <1>2, <1>3 DEF ValidationFail, Fail, Idle, dirVars
  <2> QED
    BY <2>1, IdleKept, LeavesDir DEF Kept
<1>4. CASE BeginPreflight(c) /\ ~ValidationFail(c)
  <2>1. pc'[c] = "preflightFile" /\ manifest = None /\ UNCHANGED <<dir, manifest>>
    BY <1>2, <1>4 DEF BeginPreflight, Empty, dirVars
  <2>2. RecordOf(c)' /\ FinalizeOf(c)'
    BY <2>1 DEF RecordOf, FinalizeOf, RecordPlaces, FinalizePlaces, DenialPlaces, RunPlaces
  <2> QED
    BY <2>1, <2>2, LeavesDir DEF Kept
<1>5. CASE WritePreflight(c)
  <2>1. /\ pc[c] = "preflightFile"
        /\ Write(c, "preflight", [session |-> c, operator |-> operator[c]], "preflightManifest")
    BY <1>5 DEF WritePreflight
  <2>2. "preflight" \in FileNames /\ "record" \in FileNames
    BY DEF FileNames
  <2>3. pc'[c] = "preflightManifest" /\ dir'["record"] = dir["record"] /\ UNCHANGED manifest
    BY <2>1, <2>2, WroteFile
  <2>4. manifest = None
    BY <2>1 DEF ValidationInv, RecordOf
  <2>5. RecordOf(c)' /\ FinalizeOf(c)'
    BY <2>3, <2>4 DEF RecordOf, FinalizeOf, RecordPlaces, FinalizePlaces, DenialPlaces, RunPlaces
  <2>6. RecordFileInv'
    BY <2>3, RecordFileKept DEF ValidationInv
  <2>7. PassedInv'
    BY <2>3, <2>4 DEF PassedInv, Phase
  <2> QED
    BY <2>5, <2>6, <2>7 DEF Kept
<1>6. CASE PreflightManifest(c)
  <2>1. pc'[c] \in Idle /\ UNCHANGED dir /\ manifest'.phase = "preflight"
    BY <1>2, <1>6 DEF PreflightManifest, WriteManifest, Idle
  <2>2. RecordFileInv' /\ PassedInv'
    BY <2>1, RecordFileKept DEF ValidationInv, PassedInv, Phase
  <2> QED
    BY <2>1, <2>2, IdleKept DEF Kept
<1> QED
  BY <1>3, <1>4, <1>5, <1>6

LEMMA BeginRecordKept ==
    ASSUME RunInv, ValidationInv, NEW c \in Validations, Frame(c), BeginRecord(c), ~ValidationFail(c)
    PROVE  Kept(c)
<1>1. /\ Goto(c, "recordEvidence") /\ UNCHANGED <<runVars, dirVars>>
      /\ Verified("preflight", "PENDING", {"preflight"}) /\ SetupIsBound /\ ShadowIsProven
      /\ memo' = [memo EXCEPT ![c] =
            [session |-> manifest.session, setup |-> setupFile, release |-> releaseFile[setupFile.name],
             proposal |-> proposalFile[setupFile.name], files |-> None]]
  BY DEF BeginRecord
<1>2. /\ pc'[c] = "recordEvidence" /\ memo'[c].setup = setupFile
      /\ UNCHANGED <<resultFile, dir, manifest>>
  BY <1>1, PlaceOf DEF ValidationInv, runVars, dirVars
<1>3. setupFile \in SetupRecords
  BY <1>1 DEF SetupIsBound, RunInv, Types, CommandTypes
<1>4. Phase("preflight")
  BY <1>1 DEF Verified, Phase
<1>5. /\ resultFile[setupFile.name] \in Results
      /\ resultFile[setupFile.name].allowed /\ resultFile[setupFile.name].verified
  <2>1. setupFile.name \in Paths
    BY <1>3 DEF SetupRecords
  <2> QED
    BY <1>1, <2>1 DEF ShadowIsProven, RunInv, Types, RunTypes
<1>6. RecordOf(c)' /\ FinalizeOf(c)'
  BY <1>2, <1>3, <1>4, <1>5
     DEF RecordOf, FinalizeOf, Phase, RecordPlaces, FinalizePlaces, DenialPlaces, RunPlaces
<1> QED
  BY <1>2, <1>6, LeavesDir DEF Kept

\* record writes a file other than the record.
LEMMA FileKept ==
    ASSUME RunInv, ValidationInv, NEW c \in Validations, Frame(c), pc[c] \in RecordPlaces,
           NEW f \in FileNames \ {"record"}, NEW content, NEW q \in RecordPlaces, Write(c, f, content, q),
           q # "recordEvidence" =>
              Proof(dir'["shadow"], memo[c].setup, memo[c].release),
           q \notin {"recordEvidence", "recordBinding"} =>
              /\ dir'["binding"].name = memo[c].setup.name /\ dir'["binding"].setup = memo[c].setup
              /\ dir'["binding"].release = memo[c].release
    PROVE  Kept(c)
<1>1. "record" \in FileNames /\ f # "record"
  BY DEF FileNames
<1>2. /\ pc'[c] = q /\ dir'["record"] = dir["record"]
      /\ UNCHANGED <<resultFile, manifest, memo>>
  BY <1>1, WroteFile
<1>3. RecordOf(c)'
  BY <1>2 DEF ValidationInv, RecordOf, Proof, Phase, RecordPlaces
<1>4. FinalizeOf(c)'
  BY <1>2 DEF FinalizeOf, RecordPlaces, FinalizePlaces, DenialPlaces, RunPlaces
<1>5. RecordFileInv'
  BY <1>2, RecordFileKept DEF ValidationInv
<1>6. PassedInv'
  BY <1>2, NotPassed DEF PassedInv, Phase
<1> QED
  BY <1>3, <1>4, <1>5, <1>6 DEF Kept

LEMMA RecordStepKept ==
    ASSUME RunInv, ValidationInv, NEW c \in Validations, Frame(c),
           CopyEvidence(c) \/ WriteBinding(c) \/ WriteNegative(c) \/ WriteRecord(c) \/ RecordManifest(c),
           ~ValidationFail(c)
    PROVE  Kept(c)
<1> DEFINE setup == memo[c].setup
           release == memo[c].release
<1>1. RecordOf(c) /\ FileNames = {"preflight", "shadow", "binding", "negative", "record", "result"}
  BY DEF ValidationInv, FileNames
<1>2. CASE CopyEvidence(c)
  <2> DEFINE result == resultFile[setup.name]
  <2>1. /\ pc[c] = "recordEvidence" /\ result.content = release /\ result.at = setup.cloud
        /\ Write(c, "shadow", result, "recordBinding")
    BY <1>2 DEF CopyEvidence
  <2>2. dir'["shadow"] = result
    BY <1>1, <2>1, WroteFile
  <2>3. Proof(result, setup, release)
    BY <1>1, <2>1 DEF RecordOf, RecordPlaces, Proof
  <2>4. Proof(dir'["shadow"], setup, release)
    BY <2>2, <2>3
  <2> QED
    BY <1>1, <2>1, <2>4, FileKept DEF RecordPlaces
<1>3. CASE WriteBinding(c)
  <2>1. PICK binding : /\ Write(c, "binding", binding, "recordNegative")
                       /\ binding.name = setup.name /\ binding.setup = setup /\ binding.release = release
    BY <1>3 DEF WriteBinding
  <2>2. pc[c] = "recordBinding" /\ Proof(dir["shadow"], setup, release)
    BY <1>1, <1>3 DEF WriteBinding, RecordOf, RecordPlaces
  <2>3. dir'["shadow"] = dir["shadow"] /\ dir'["binding"] = binding
    BY <1>1, <2>1, WroteFile
  <2>4. Proof(dir'["shadow"], setup, release)
    BY <2>2, <2>3
  <2> QED
    BY <1>1, <2>1, <2>2, <2>3, <2>4, FileKept DEF RecordPlaces
<1>4. CASE WriteNegative(c)
  <2>1. PICK negative : Write(c, "negative", negative, "recordRecord")
    BY <1>4 DEF WriteNegative
  <2>2. /\ pc[c] = "recordNegative" /\ Proof(dir["shadow"], setup, release)
        /\ dir["binding"].name = setup.name /\ dir["binding"].setup = setup
        /\ dir["binding"].release = release
    BY <1>1, <1>4 DEF WriteNegative, RecordOf, RecordPlaces
  <2>3. dir'["shadow"] = dir["shadow"] /\ dir'["binding"] = dir["binding"]
    BY <1>1, <2>1, WroteFile
  <2>4. Proof(dir'["shadow"], setup, release)
    BY <2>2, <2>3
  <2> QED
    BY <1>1, <2>1, <2>2, <2>3, <2>4, FileKept DEF RecordPlaces
<1>5. CASE WriteRecord(c)
  <2> DEFINE record == [session |-> memo[c].session, operator |-> operator[c], name |-> setup.name,
                        binding |-> dir["binding"], negative |-> dir["negative"], shadow |-> dir["shadow"]]
  <2>1. pc[c] = "recordRecord" /\ Write(c, "record", record, "recordManifest")
    BY <1>5 DEF WriteRecord
  <2>2. /\ Proof(dir["shadow"], setup, release)
        /\ dir["binding"].name = setup.name /\ dir["binding"].setup = setup
        /\ dir["binding"].release = release
    BY <1>1, <2>1 DEF RecordOf, RecordPlaces
  <2>3. /\ pc'[c] = "recordManifest" /\ dir'["record"] = record
        /\ dir'["shadow"] = dir["shadow"] /\ dir'["binding"] = dir["binding"]
        /\ UNCHANGED <<resultFile, manifest, memo>>
    BY <1>1, <2>1, WroteFile
  <2>4. RecordOf(c)'
    BY <1>1, <2>1, <2>2, <2>3 DEF RecordOf, Proof, Phase, RecordPlaces
  <2>5. FinalizeOf(c)'
    BY <2>3 DEF FinalizeOf, FinalizePlaces, DenialPlaces, RunPlaces
  <2>6. RecordFileInv'
    BY <2>2, <2>3 DEF RecordFileInv, Proof
  <2>7. PassedInv'
    BY <2>1, <2>3, NotPassed DEF PassedInv, Phase, RecordPlaces
  <2> QED
    BY <2>4, <2>5, <2>6, <2>7 DEF Kept
<1>6. CASE RecordManifest(c)
  <2>1. Goto(c, "sums") /\ UNCHANGED dir /\ manifest'.phase = "record"
    BY <1>6 DEF RecordManifest, WriteManifest
  <2>2. pc'[c] \in Idle
    BY <2>1, PlaceOf DEF Idle
  <2>3. RecordFileInv' /\ PassedInv'
    BY <2>1, RecordFileKept DEF ValidationInv, PassedInv, Phase
  <2> QED
    BY <2>2, <2>3, IdleKept DEF Kept
<1> QED
  BY <1>2, <1>3, <1>4, <1>5, <1>6

LEMMA BeginFinalizeKept ==
    ASSUME RunInv, ValidationInv, NEW c \in Validations, Frame(c), BeginFinalize(c), ~ValidationFail(c)
    PROVE  Kept(c)
<1>1. /\ Goto(c, "finalizeRelease") /\ UNCHANGED <<dirVars, operator>>
      /\ RecordIsWhole(c) /\ SetupUnchanged
      /\ memo' = [memo EXCEPT ![c] =
            [session |-> manifest.session, setup |-> setupFile, release |-> releaseFile[setupFile.name],
             proposal |-> None, files |-> None]]
  BY DEF BeginFinalize
<1>2. /\ pc'[c] = "finalizeRelease" /\ UNCHANGED <<dir, manifest, operator>>
      /\ memo'[c].session = manifest.session /\ memo'[c].setup = setupFile
      /\ memo'[c].release = releaseFile[setupFile.name]
  BY <1>1, PlaceOf DEF ValidationInv, dirVars
<1>3. Phase("record") /\ Whole(manifest.session, operator[c])
  BY <1>1 DEF RecordIsWhole, Verified, Phase, Whole, SameSession, Readable, Recorded
<1>4. dir["binding"].setup = setupFile /\ dir["binding"].release = releaseFile[setupFile.name]
  BY <1>1 DEF SetupUnchanged
<1>5. RecordOf(c)' /\ FinalizeOf(c)'
  BY <1>2, <1>3, <1>4
     DEF RecordOf, FinalizeOf, Phase, Whole, RecordPlaces, FinalizePlaces, DenialPlaces, RunPlaces
<1> QED
  BY <1>2, <1>5, LeavesDir DEF Kept

LEMMA ConfirmKept ==
    ASSUME RunInv, ValidationInv, NEW c \in Validations, Frame(c), ConfirmRevoked(c), ~ValidationFail(c)
    PROVE  Kept(c)
<1>1. /\ pc[c] = "finalizeRelease" /\ Goto(c, "shadow")
      /\ RevokedIn(memo[c].setup.cloud, memo[c].setup.name, memo[c].release)
      /\ UNCHANGED <<registered, state, dir, manifest, memo, operator>>
  BY DEF ConfirmRevoked, RevokedIn, cloudVars, validationVars, dirVars
<1>2. pc'[c] = "shadow"
  BY <1>1, PlaceOf
<1>3. RecordOf(c)' /\ FinalizeOf(c)'
  BY <1>1, <1>2
     DEF ValidationInv, RecordOf, FinalizeOf, RevokedIn, Phase, Whole, RecordPlaces, FinalizePlaces,
         DenialPlaces, RunPlaces
<1> QED
  BY <1>1, <1>3, LeavesDir DEF Kept

\* Where a run may be after one of its steps.
LEMMA ShadowPlaces ==
    ASSUME RunInv, NEW c \in Commands, ShadowStep(c)
    PROVE  pc[c] \in RunPlaces \cup {"shadow"} /\ pc'[c] \in RunPlaces \cup {"failed"}
<1>1. ASSUME NEW q, Goto(c, q) \/ End(c, q)
      PROVE  pc'[c] = q
  BY <1>1, PlaceOf
<1> HIDE DEF Goto
<1> QED
  BY <1>1 DEF ShadowStep, ShadowOpen, ShadowNotOpened, ShadowIneligible, ShadowClaim, ShadowJudge,
     ShadowBoundary, ShadowThrows, ShadowReport, ShadowVerified, Fail, RunPlaces

LEMMA ShadowKept ==
    ASSUME RunInv, ValidationInv, NEW c \in Validations, Frame(c), ShadowStep(c),
           IF pc'[c] = "failed" THEN Forget(c) ELSE UNCHANGED <<memo, operator>>,
           UNCHANGED dirVars
    PROVE  Kept(c)
<1>1. UNCHANGED <<dir, manifest>>
  BY DEF dirVars
<1>2. CASE pc'[c] = "failed"
  BY <1>1, <1>2, IdleKept, LeavesDir DEF Kept, Idle
<1>3. CASE pc'[c] # "failed"
  <2>1. pc[c] \in DenialPlaces /\ pc'[c] \in DenialPlaces \ {"finalizeManifest"}
    BY <1>3, ShadowPlaces DEF DenialPlaces, RunPlaces
  <2>2. FinalizeOf(c)'
    BY <1>1, <1>3, <2>1, FinalizeKept DEF ValidationInv
  <2>3. RecordOf(c)'
    BY <2>1 DEF RecordOf, RecordPlaces, DenialPlaces, RunPlaces
  <2> QED
    BY <1>1, <2>2, <2>3, LeavesDir DEF Kept
<1> QED
  BY <1>2, <1>3

\* The denial is that of the recorded proposal: the saved one is its setup's.
LEMMA WriteResultKept ==
    ASSUME RunInv, ValidationInv, NEW cloud \in Clouds, DraftedOnce(cloud),
           NEW c \in Validations, Frame(c), WriteResult(c), ~ValidationFail(c)
    PROVE  Kept(c)
<1> DEFINE setup == memo[c].setup
           binding == dir["binding"]
           result == [session |-> memo[c].session, operator |-> operator[c], name |-> setup.name]
           denial == resultFile[Session]
<1>1. pc[c] = "exit" /\ RevocationProven(c) /\ Write(c, "result", result, "finalizeManifest")
  BY DEF WriteResult
<1>2. FileNames = {"preflight", "shadow", "binding", "negative", "record", "result"}
  BY DEF FileNames
<1>3. /\ pc'[c] = "finalizeManifest" /\ dir'["result"] = result
      /\ \A f \in {"preflight", "binding", "record", "shadow"} : dir'[f] = dir[f]
      /\ UNCHANGED <<registered, state, resultFile, manifest, memo, operator>>
  BY <1>1, <1>2, WroteFile
<1>4. /\ Phase("record") /\ Whole(memo[c].session, operator[c])
      /\ setup = binding.setup /\ memo[c].release = binding.release
      /\ RevokedIn(setup.cloud, setup.name, memo[c].release)
  BY <1>1 DEF ValidationInv, FinalizeOf, FinalizePlaces, DenialPlaces, RunPlaces
<1>5. setup \in SetupRecords /\ binding.name = setup.name /\ Proof(dir["shadow"], setup, binding.release)
  BY <1>4, RecordedSetup DEF ValidationInv
<1>6. proposalFile[setup.name] = dir["shadow"].proposal
  <2>1. resultFile[setup.name] \in Results /\ dir["shadow"] = resultFile[setup.name] /\ setup.name \in Names
    BY <1>5 DEF Proof, SetupRecords
  <2>2. resultFile[setup.name] # None /\ resultFile[setup.name] # Reserved
    BY <2>1
  <2>3. EvidenceOf(cloud, setup.name)
    BY <2>1 DEF DraftedOnce
  <2> QED
    BY <2>1, <2>2, <2>3 DEF EvidenceOf
<1>7. denial \in Results
  <2>1. c \in Commands /\ path[c] = Session /\ resultFile[path[c]] = outcome[c] /\ outcome[c] # None
    BY <1>1 DEF RunInv, CommandOf, KindOf, RunOf, RunPlaces
  <2> QED
    BY <2>1 DEF RunInv, Types, CommandTypes
<1>8. Denied
  BY <1>1, <1>4, <1>5, <1>6, <1>7 DEF Denied, RevocationProven
<1>9. Denied' /\ Whole(memo[c].session, operator[c])'
  BY <1>3, <1>4, <1>8 DEF Denied, RevokedIn, Whole
<1>10. FinalizeOf(c)'
  BY <1>3, <1>4, <1>9 DEF FinalizeOf, RevokedIn, Phase, FinalizePlaces, DenialPlaces
<1>11. RecordOf(c)'
  BY <1>3 DEF RecordOf, RecordPlaces
<1>12. RecordFileInv' /\ PassedInv'
  BY <1>3, <1>4, RecordFileKept DEF ValidationInv, PassedInv, Phase
<1> QED
  BY <1>10, <1>11, <1>12 DEF Kept

LEMMA FinalizeManifestKept ==
    ASSUME RunInv, ValidationInv, NEW c \in Validations, Frame(c), FinalizeManifest(c)
    PROVE  Kept(c)
<1>1. /\ pc[c] = "finalizeManifest" /\ Goto(c, "sums")
      /\ UNCHANGED <<dir, registered, state, resultFile>>
      /\ manifest' = [status |-> "PASSED", phase |-> "finalize", session |-> memo[c].session, files |-> Listing]
  BY DEF FinalizeManifest, WriteManifest, cloudVars, runVars
<1>2. pc'[c] \in Idle
  BY <1>1, PlaceOf DEF Idle
<1>3. /\ Whole(memo[c].session, operator[c]) /\ Denied
      /\ dir["result"].session = memo[c].session /\ dir["result"].operator = operator[c]
  BY <1>1 DEF ValidationInv, FinalizeOf, FinalizePlaces, DenialPlaces
<1>4. Denied' /\ manifest'.session = memo[c].session
  BY <1>1, <1>3 DEF Denied, RevokedIn
<1>5. PassedInv'
  BY <1>1, <1>3, <1>4 DEF PassedInv, Whole
<1>6. RecordFileInv'
  BY <1>1, RecordFileKept DEF ValidationInv
<1> QED
  BY <1>2, <1>5, <1>6, IdleKept DEF Kept

LEMMA BrokenKept ==
    ASSUME RunInv, ValidationInv, NEW c \in Validations, Frame(c), ValidationBroken(c)
    PROVE  Kept(c)
<1>1. pc'[c] \in Idle
  BY PlaceOf DEF ValidationBroken, Idle
<1>2. CASE UNCHANGED dirVars
  BY <1>1, <1>2, IdleKept, LeavesDir DEF Kept, dirVars
<1>3. CASE TearNext(c)
  <2>1. ASSUME NEW f, dir' = [dir EXCEPT ![f] = Torn], UNCHANGED manifest,
               pc[c] \in RecordPlaces \cup FinalizePlaces \cup {"preflightFile", "preflightManifest"}
        PROVE  RecordFileInv' /\ PassedInv'
    <3>1. dir'["record"] = dir["record"] \/ dir'["record"] = Torn
      BY <2>1 DEF ValidationInv, FileNames
    <3>2. ~Phase("finalize")
      BY <2>1, NotPassed
    <3> QED
      BY <2>1, <3>1, <3>2, RecordFileKept DEF ValidationInv, PassedInv, Phase
  <2>2. UNCHANGED dir /\ manifest' = Torn => RecordFileInv' /\ PassedInv'
    BY RecordFileKept DEF ValidationInv, PassedInv, Phase
  <2>3. UNCHANGED <<dir, manifest>> => RecordFileInv' /\ PassedInv'
    BY LeavesDir
  <2>4. \/ (UNCHANGED dir /\ manifest' = Torn)
        \/ UNCHANGED <<dir, manifest>>
        \/ /\ \E f : dir' = [dir EXCEPT ![f] = Torn]
           /\ UNCHANGED manifest
           /\ pc[c] \in {"preflightFile", "recordEvidence", "recordBinding", "recordNegative",
                         "recordRecord", "exit"}
    BY <1>3 DEF TearNext
  <2>5. pc[c] \in {"preflightFile", "recordEvidence", "recordBinding", "recordNegative",
                   "recordRecord", "exit"} =>
           pc[c] \in RecordPlaces \cup FinalizePlaces \cup {"preflightFile", "preflightManifest"}
    BY DEF RecordPlaces, FinalizePlaces, DenialPlaces, RunPlaces
  <2>6. RecordFileInv' /\ PassedInv'
    BY <2>1, <2>2, <2>3, <2>4, <2>5
  <2> QED
    BY <1>1, <2>6, IdleKept DEF Kept
<1> QED
  BY <1>2, <1>3 DEF ValidationBroken

\* One validation is at work, and the others do not move.
LEMMA OneMoves ==
    ASSUME RunInv, ValidationInv, NEW c \in Validations, ValidationMove(c), Frame(c)
    PROVE  /\ OneValidation'
           /\ \A d \in Validations \ {c} : pc'[d] \in Idle
<1>1. /\ c \in Commands /\ pc[c] \notin Ended
      /\ \A d \in Commands \ {c} : pc'[d] = pc[d]
  BY DEF Frame, Begun, Isolated
<1>2. CASE \E who \in Operators, place \in {"preflight", "record", "finalize"} : BeginValidation(c, place, who)
  <2>1. AtWork \cap Validations = {}
    BY <1>2 DEF BeginValidation
  <2>2. \A d \in Validations \ {c} : d \notin AtWork /\ (d \notin AtWork)'
    BY <1>1, <2>1 DEF AtWork
  <2> QED
    BY <1>1, <2>2 DEF OneValidation, AtWork, Ended, Idle
<1>3. CASE \A who \in Operators, place \in {"preflight", "record", "finalize"} : ~BeginValidation(c, place, who)
  <2>1. pc[c] # "new"
    <3>1. ShadowStep(c) => pc[c] # "new"
      BY <1>1, ShadowPlaces DEF RunPlaces
    <3> QED
      BY <1>3, <3>1 DEF ValidationMove, PreflightStep, RecordStep, FinalizeStep, ValidationBroken, AtWork,
         BeginPreflight, WritePreflight, PreflightManifest, WriteSums, BeginRecord, CopyEvidence,
         WriteBinding, WriteNegative, WriteRecord, RecordManifest, BeginFinalize, ConfirmRevoked,
         WriteResult, FinalizeManifest
  <2>2. \A d \in Validations \ {c} : d \notin AtWork
    BY <1>1, <2>1 DEF ValidationInv, OneValidation, AtWork
  <2>3. \A d \in Validations \ {c} : (d \notin AtWork)'
    BY <1>1, <2>2 DEF AtWork
  <2> QED
    BY <1>1, <2>2, <2>3 DEF OneValidation, AtWork, Ended, Idle
<1> QED
  BY <1>2, <1>3

LEMMA ValidationMoveKept ==
    ASSUME RunInv, ValidationInv, NEW cloud \in Clouds, DraftedOnce(cloud),
           NEW c \in Validations, ValidationMove(c), Frame(c)
    PROVE  Kept(c) /\ DOMAIN dir' = FileNames /\ DOMAIN operator' = Commands /\ DOMAIN memo' = Commands
<1>1. c \in Commands
  OBVIOUS
<1>2. CASE ValidationFail(c)
  <2>1. pc'[c] \in Idle /\ UNCHANGED <<dir, manifest>>
    BY <1>1, <1>2, PlaceOf DEF ValidationFail, Fail, Idle, dirVars
  <2>2. Kept(c)
    BY <2>1, IdleKept, LeavesDir DEF Kept
  <2> QED
    BY <1>2, <2>2 DEF ValidationFail, Forget, dirVars, ValidationInv
<1>3. CASE ~ValidationFail(c)
  <2>1. Kept(c)
    <3>1. CASE \/ WriteSums(c)
               \/ \E who \in Operators, place \in {"preflight", "record", "finalize"} : BeginValidation(c, place, who)
      <4>1. pc'[c] \in Idle /\ UNCHANGED <<dir, manifest>>
        BY <1>1, <3>1, PlaceOf DEF WriteSums, BeginValidation, Idle, dirVars
      <4> QED
        BY <4>1, IdleKept, LeavesDir DEF Kept
    <3>2. CASE PreflightStep(c)
      BY <3>1, <3>2, PreflightKept DEF PreflightStep
    <3>3. CASE RecordStep(c)
      BY <1>3, <3>1, <3>3, BeginRecordKept, RecordStepKept DEF RecordStep
    <3>4. CASE FinalizeStep(c)
      BY <1>3, <3>1, <3>4, BeginFinalizeKept, ConfirmKept, ShadowKept, WriteResultKept, FinalizeManifestKept
         DEF FinalizeStep
    <3> QED
      BY <3>1, <3>2, <3>3, <3>4, BrokenKept DEF ValidationMove
  <2>2. dir' = dir \/ \E f, content : dir' = [dir EXCEPT ![f] = content]
    BY <1>3 DEF ValidationMove, PreflightStep, RecordStep, FinalizeStep, ValidationBroken, TearNext,
         BeginValidation, BeginPreflight, WritePreflight, PreflightManifest, WriteSums,
         BeginRecord, CopyEvidence, WriteBinding, WriteNegative, WriteRecord, RecordManifest,
         BeginFinalize, ConfirmRevoked, WriteResult, FinalizeManifest, Write, WriteManifest,
         validationVars, dirVars
  <2>3. /\ operator' = operator \/ \E who : operator' = [operator EXCEPT ![c] = who]
        /\ memo' = memo \/ \E m : memo' = [memo EXCEPT ![c] = m]
    BY <1>3 DEF ValidationMove, PreflightStep, RecordStep, FinalizeStep, ValidationBroken, Forget,
         BeginValidation, BeginPreflight, WritePreflight, PreflightManifest, WriteSums,
         BeginRecord, CopyEvidence, WriteBinding, WriteNegative, WriteRecord, RecordManifest,
         BeginFinalize, ConfirmRevoked, WriteResult, FinalizeManifest, Write, WriteManifest,
         validationVars
  <2> QED
    BY <2>1, <2>2, <2>3 DEF ValidationInv
<1> QED
  BY <1>2, <1>3

LEMMA ValidationStep ==
    ASSUME FieldInv, ValidationInv, NEW cloud, OneCloud(cloud), DraftedOnce(cloud), [FieldNext]_fieldVars
    PROVE  ValidationInv'
<1> USE DEF FieldInv
<1>1. CASE AdminMove /\ UNCHANGED validationVars
  <2>1. Frame(None) /\ \A d \in Validations : pc'[d] = pc[d]
    BY <1>1, AdminMoveRun DEF Frame, Isolated
  <2> QED
    BY <1>1, <2>1, AsideKept
<1>2. ASSUME NEW c \in Setups, SetupMove(c), UNCHANGED validationVars
      PROVE  ValidationInv'
  <2>1. CASE UNCHANGED <<shadowVars, setupFile>>
    BY <1>1, <1>2, <2>1 DEF AdminMove
  <2>2. CASE StepOf(c)
    <3>1. Frame(c) /\ \A d \in Validations : pc'[d] = pc[d]
      BY <2>2 DEF StepOf, Frame, Isolated
    <3> QED
      BY <1>2, <3>1, AsideKept
  <2> QED
    BY <1>2, <2>1, <2>2, SetupMoveRun
<1>3. ASSUME NEW c \in Validations, ValidationMove(c)
      PROVE  ValidationInv'
  <2>1. Frame(c) /\ cloud \in Clouds
    BY <1>3, ValidationMoveRun DEF StepOf, OneCloud
  <2>2. OneValidation' /\ \A d \in Validations \ {c} : RecordOf(d)' /\ FinalizeOf(d)'
    BY <1>3, <2>1, OneMoves, IdleKept
  <2>3. Kept(c) /\ DOMAIN dir' = FileNames /\ DOMAIN operator' = Commands /\ DOMAIN memo' = Commands
    BY <1>3, <2>1, ValidationMoveKept
  <2> QED
    BY <2>2, <2>3 DEF Kept, ValidationInv
<1> QED
  BY <1>1, <1>2, <1>3, FieldMoves

LEMMA ProvenPassed ==
    ASSUME FieldInv, ValidationInv
    PROVE  PassedIsProven
<1> DEFINE binding == dir["binding"]
           shadow == dir["shadow"]
           denial == resultFile[Session]
           signed == {dir["preflight"], binding, dir["record"], dir["result"]}
           who == dir["result"].operator
<1>1. SUFFICES ASSUME Verified("finalize", "PASSED", {})
               PROVE  PassedIsProven
  BY DEF PassedIsProven
<1>2. Whole(manifest.session, who) /\ Denied /\ dir["result"].session = manifest.session
  BY <1>1 DEF Verified, ValidationInv, PassedInv, Phase
<1>3. {f.session : f \in signed} = {manifest.session} /\ {f.operator : f \in signed} = {who}
  BY <1>2 DEF Whole
<1>4. Cardinality({f.operator : f \in signed}) = 1
  BY <1>3, FS_Singleton
<1>5. /\ shadow.allowed /\ shadow.verified /\ shadow.content = binding.release
      /\ shadow.at = binding.setup.cloud
  BY <1>2, RecordedSetup DEF ValidationInv, Proof
<1>6. dir["record"].binding = binding /\ dir["record"].shadow = shadow
  BY <1>2 DEF Whole
<1> QED
  BY <1>2, <1>3, <1>4, <1>5, <1>6 DEF PassedIsProven, Denied, RevokedIn

(***************************************************************************)
(* A validation whose manifest says PASSED and whose sums agree proves one *)
(* operator, one session, a verified Shadow run that allowed the release   *)
(* and a verified denial of the same proposal after its revocation; where  *)
(* every setup of the machine is given the same cloud.                     *)
(***************************************************************************)
THEOREM PassedValidation ==
    ASSUME NEW CONSTANT cloud \in Clouds, \A c \in Setups : CloudOf[c] = cloud
    PROVE  FieldSpec => []PassedIsProven
<1>1. FieldInit => DraftedOnce(cloud) /\ ValidationInv
  BY DEF FieldInit, SetupInit, ShadowInit, DraftedOnce, DraftOf, EvidenceOf, ValidationInv,
         OneValidation, RecordOf, FinalizeOf, RecordFileInv, PassedInv, Phase, AtWork, FileNames,
         RecordPlaces, FinalizePlaces, DenialPlaces, RunPlaces
<1>2. OneCloud(cloud)
  BY DEF OneCloud
<1>3. FieldInv /\ DraftedOnce(cloud) /\ ValidationInv /\ [FieldNext]_fieldVars =>
         DraftedOnce(cloud)' /\ ValidationInv'
  BY <1>2, DraftedStep, ValidationStep
<1>4. FieldInv /\ ValidationInv => PassedIsProven
  BY ProvenPassed
<1> QED
  BY <1>1, <1>3, <1>4, FieldInvariant, PTL DEF FieldSpec

=============================================================================
