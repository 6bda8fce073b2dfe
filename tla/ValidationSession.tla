-------------------------- MODULE ValidationSession --------------------------
(***************************************************************************)
(* The session directory of `rlsok validate-external-ros2'                 *)
(* (apps/cli/validate-external-ros2.ts): commands that initialize it,      *)
(* record its cases, finalize, verify and recover it, several at once and  *)
(* killed at any step, with the lock file that is to keep them apart.      *)
(*                                                                         *)
(* Each call on a file is an action.  A command is a number, which stands  *)
(* for the process and for the nonce in its lock; a case is recorded       *)
(* whole, by the rename of its staging directory.                          *)
(***************************************************************************)
EXTENDS Naturals, FiniteSets, Sequences

CONSTANTS
    Cases,        \* the cases a session must have
    MaxCommands,  \* bound: commands started
    None          \* no such file

Commands == 1..MaxCommands
Processes == {0} \cup Commands  \* 0: killed before the others start

Docs == {"session", "procedure"}

\* What there may be in the directory, and in manifest.json about it.
FileSets ==
    [docs : SUBSET Docs, cases : SUBSET Cases, result : BOOLEAN, temps : SUBSET Commands]
Manifests == [status : {"PENDING", "COLLECTED"}, files : FileSets, by : Processes]

ASSUME SessionAssumption == MaxCommands \in Nat /\ None \notin Processes \cup Manifests

VARIABLES
    lock,      \* whose lock file is at the lock's path
    written,   \* processes whose lock file has its content
    docs,      \* which of session.json and procedure.json there are
    cases,     \* recorded cases: "absent", or whether readCase accepts them
    result,    \* there is a result.json
    manifest,  \* manifest.json
    sums,      \* SHA256SUMS: the files and the manifest it was made from
    temps,     \* commands that have a temporary file in the directory
    pc,        \* how far each command is
    held,      \* the lock it has read, or renamed away, that is not its own
    job,       \* what it is to do
    raced,     \* two recoveries held the same dead lock (history)
    upset      \* commands killed or failed, less those over when a recovery ended (history)

directory == <<docs, cases, result, manifest, sums, temps>>
vars == <<lock, written, directory, pc, held, job, raced, upset>>

NoJob == [command |-> "none", todo |-> <<>>, case |-> None, status |-> "none",
          files |-> None, content |-> None]

Recorded == {x \in Cases : cases[x] # "absent"}
AllSound == \A x \in Recorded : cases[x] = "sound"
Complete == Recorded = Cases /\ AllSound

\* filesBelow, without the manifest and its sums.
Files == [docs |-> docs, cases |-> Recorded, result |-> result, temps |-> temps]

\* readVerifiedManifest.
Verified(status) ==
    /\ manifest # None /\ manifest.status = status
    /\ manifest.files = Files
    /\ sums = [files |-> manifest.files, of |-> manifest]

\* A directory not yet used, or a session that runs since some commands; the
\* last of them may have been killed when it had changed nothing yet.
Init ==
    /\ lock \in {None, 0} /\ written = {0} /\ temps = {} /\ result = FALSE
    /\ raced = FALSE /\ upset = {lock} \ {None}
    /\ pc = [c \in Processes |-> IF c = 0 THEN "over" ELSE "new"]
    /\ held = [c \in Processes |-> None] /\ job = [c \in Processes |-> NoJob]
    /\ docs \in {{}, Docs}
    /\ cases \in [Cases -> IF docs = {} THEN {"absent"} ELSE {"absent", "sound"}]
    /\ manifest = IF docs = {} THEN None
                  ELSE [status |-> "PENDING", files |-> Files, by |-> 0]
    /\ sums = IF docs = {} THEN None ELSE [files |-> Files, of |-> manifest]

Goto(c, place) == pc' = [pc EXCEPT ![c] = place]

\* The command ends.
Over(c) ==
    /\ Goto(c, "over")
    /\ held' = [held EXCEPT ![c] = None] /\ job' = [job EXCEPT ![c] = NoJob]

Alive(c) == pc[c] \notin {"new", "over"}

\* In the session: the lock was opened and is not yet given back.
Working(c) ==
    pc[c] \in {"writeLock", "enter", "stage", "assess", "write", "install", "check"}

\* Commands are alike until they start: the next one to start.
New(c) == pc[c] = "new" /\ \A d \in 1..(c - 1) : ~pc[d] = "new"

-----------------------------------------------------------------------------
(* clearDeadSessionLock, the first thing recover does.                     *)

ReadDeadLock(c) ==
    /\ New(c)
    /\ lock \in written /\ ~Alive(lock)
    /\ raced' = (raced \/ \E d \in Commands : pc[d] = "claimDead" /\ held[d] = lock)
    /\ held' = [held EXCEPT ![c] = lock]
    /\ Goto(c, "claimDead")
    /\ UNCHANGED <<lock, written, directory, job, upset>>

NoLockToClear(c) ==
    /\ New(c) /\ lock = None
    /\ Goto(c, "open")
    /\ UNCHANGED <<lock, written, directory, held, job, raced, upset>>

\* The lock file has no content, or its process number is in use: by the owner
\* or, since the owner is gone, by another process.
LockNotCleared(c) ==
    /\ New(c) /\ lock # None
    /\ Over(c)
    /\ UNCHANGED <<lock, written, directory, raced, upset>>

\* The file at the lock's path is renamed away, whosever it is: if it has the
\* content that the caller expects, it is removed ...
ClaimExpected(c, expected) ==
    /\ lock = expected /\ lock \in written
    /\ lock' = None /\ written' = written \ {lock}

\* ... and if not, it is another's, or there was none and the rename throws.
ClaimOther(c, expected) ==
    /\ lock # expected \/ lock \notin written
    /\ lock' = None
    /\ IF lock = None THEN Over(c)
       ELSE /\ Goto(c, "notOwn") /\ held' = [held EXCEPT ![c] = lock]
            /\ UNCHANGED job
    /\ UNCHANGED written

ClaimDeadLock(c) ==
    /\ pc[c] = "claimDead"
    /\ \/ /\ ClaimExpected(c, held[c])
          /\ Goto(c, "open") /\ held' = [held EXCEPT ![c] = None]
          /\ UNCHANGED job
       \/ ClaimOther(c, held[c])
    /\ UNCHANGED <<directory, raced, upset>>

\* Another's lock is put back, if there is no newer one at the path: when that
\* is looked at, though perhaps when it is renamed.
FindNotOwn(c) ==
    /\ pc[c] = "notOwn"
    /\ IF lock = None THEN Goto(c, "putBack") /\ UNCHANGED <<held, job>> ELSE Over(c)
    /\ UNCHANGED <<lock, written, directory, raced, upset>>

PutBack(c) ==
    /\ pc[c] = "putBack"
    /\ lock' = held[c]
    /\ Over(c)
    /\ UNCHANGED <<written, directory, raced, upset>>

-----------------------------------------------------------------------------
(* withSessionLock.                                                        *)

\* recover has come to the lock; the other commands start here.
AtTheLock(c, command) ==
    IF command = "recover" THEN pc[c] = "open" ELSE New(c)

\* Slip: the lock file is opened whether or not it exists.
OpenLockAnyway(c, command) ==
    /\ AtTheLock(c, command)
    /\ lock' = c
    /\ Goto(c, "writeLock") /\ job' = [job EXCEPT ![c].command = command]
    /\ UNCHANGED <<written, directory, held, raced, upset>>

OpenLock(c, command) ==
    /\ AtTheLock(c, command)
    /\ \/ /\ lock = None /\ lock' = c
          /\ Goto(c, "writeLock") /\ job' = [job EXCEPT ![c].command = command]
          /\ UNCHANGED held
       \/ lock # None /\ Over(c) /\ UNCHANGED lock
    /\ UNCHANGED <<written, directory, raced, upset>>

WriteLock(c) ==
    /\ pc[c] = "writeLock"
    /\ written' = written \cup {c}
    /\ Goto(c, "enter")
    /\ UNCHANGED <<lock, directory, held, job, raced, upset>>

ReleaseLock(c) ==
    /\ pc[c] = "release"
    /\ (ClaimExpected(c, c) /\ Over(c)) \/ ClaimOther(c, c)
    /\ UNCHANGED <<directory, raced, upset>>

-----------------------------------------------------------------------------
(* The operations, under the lock.                                         *)

\* An operation throws before it has changed anything.
Refuse(c) ==
    /\ pc[c] = "enter" \/ pc[c] = "assess"
    /\ Goto(c, "release")
    /\ UNCHANGED <<lock, written, directory, held, job, raced, upset>>

Begin(c, todo, status) ==
    /\ Goto(c, "write")
    /\ job' = [job EXCEPT ![c].todo = todo, ![c].status = status] /\ UNCHANGED held

InitSession(c) ==
    /\ pc[c] = "enter" /\ job[c].command = "init"
    /\ docs = {} /\ Recorded = {} /\ ~result /\ temps = {}
    /\ manifest = None /\ sums = None
    /\ Begin(c, <<"session", "procedure", "manifest", "sums">>, "PENDING")
    /\ UNCHANGED <<lock, written, directory, raced, upset>>

\* The inputs are read and checked, and copied to a staging directory.
StageCase(c, x) ==
    /\ pc[c] = "enter" /\ job[c].command = "record"
    /\ Verified("PENDING") /\ docs = Docs
    /\ cases[x] = "absent"
    /\ Goto(c, "stage") /\ job' = [job EXCEPT ![c].case = x]
    /\ UNCHANGED <<lock, written, directory, held, raced, upset>>

\* readCase makes some checks that record does not: of times, and of what the
\* invocation says of its subject.
RecordCase(c) ==
    /\ pc[c] = "stage"
    /\ cases[job[c].case] = "absent"
    /\ \E found \in {"sound", "unsound"} : cases' = [cases EXCEPT ![job[c].case] = found]
    /\ Begin(c, <<"manifest", "sums">>, "PENDING")
    /\ UNCHANGED <<lock, written, docs, result, manifest, sums, temps, raced, upset>>

\* Slip: the manifest that calls the session collected comes first.
FinalizeManifestFirst(c) ==
    /\ pc[c] = "enter" /\ job[c].command = "finalize"
    /\ Verified("PENDING") /\ docs = Docs
    /\ Complete
    /\ Begin(c, <<"manifest", "sums", "result">>, "COLLECTED")
    /\ UNCHANGED <<lock, written, directory, raced, upset>>

Finalize(c) ==
    /\ pc[c] = "enter" /\ job[c].command = "finalize"
    /\ Verified("PENDING") /\ docs = Docs
    /\ Complete
    /\ Begin(c, <<"result", "manifest", "sums">>, "COLLECTED")
    /\ UNCHANGED <<lock, written, directory, raced, upset>>

\* verify, which reads and writes nothing, is done when it enters.
Verify(c) ==
    /\ pc[c] = "enter" /\ job[c].command = "verify"
    /\ Verified("COLLECTED") /\ docs = Docs /\ Complete /\ result
    /\ Goto(c, "release")
    /\ UNCHANGED <<lock, written, directory, held, job, raced, upset>>

\* recover first removes the temporary files that others left.
RemoveTemporaryFiles(c) ==
    /\ pc[c] = "enter" /\ job[c].command = "recover"
    /\ docs = Docs
    /\ temps' = {}
    /\ Goto(c, "assess")
    /\ UNCHANGED <<lock, written, docs, cases, result, manifest, sums, held, job, raced, upset>>

\* What recover asks of the directory before it writes a new manifest.
Recoverable ==
    /\ AllSound
    /\ result => Complete
    /\ manifest # None /\ manifest.status = "COLLECTED" => result

Assess(c) ==
    /\ pc[c] = "assess"
    /\ Recoverable /\ docs = Docs /\ temps = {}
    /\ Begin(c, <<"manifest", "sums">>, IF result THEN "COLLECTED" ELSE "PENDING")
    /\ UNCHANGED <<lock, written, directory, raced, upset>>

\* writeProtected: a temporary file is written ...
WriteTemporary(c) ==
    /\ pc[c] = "write"
    /\ temps' = temps \cup {c}
    /\ Goto(c, "install")
    /\ LET target == Head(job[c].todo)
           files == IF target = "manifest" THEN Files ELSE job[c].files
       IN  job' = [job EXCEPT ![c].files = files,
               ![c].content = CASE target = "manifest" ->
                                     [status |-> job[c].status, files |-> files, by |-> c]
                                [] target = "sums" -> [files |-> files, of |-> manifest]
                                [] OTHER -> None]
    /\ UNCHANGED <<lock, written, docs, cases, result, manifest, sums, held, raced, upset>>

\* ... and renamed.
Install(c) ==
    /\ pc[c] = "install" /\ c \in temps
    /\ temps' = temps \ {c}
    /\ LET target == Head(job[c].todo)
           todo == Tail(job[c].todo)
       IN  /\ docs' = docs \cup ({target} \cap Docs)
           /\ result' = (result \/ target = "result")
           /\ manifest' = IF target = "manifest" THEN job[c].content ELSE manifest
           /\ sums' = IF target = "sums" THEN job[c].content ELSE sums
           /\ job' = [job EXCEPT ![c].todo = todo, ![c].content = None]
           /\ Goto(c, IF todo # <<>> THEN "write"
                      ELSE IF job[c].command = "recover" THEN "check" ELSE "release")
    /\ UNCHANGED <<lock, written, cases, held, raced, upset>>

\* recover ends with a look at what it wrote.
CheckRecovered(c) ==
    /\ pc[c] = "check"
    /\ Verified(job[c].status)
    /\ upset' = {d \in upset : Alive(d)}
    /\ Goto(c, "release")
    /\ UNCHANGED <<lock, written, directory, held, job, raced>>

\* A call on a file throws; the temporary file is removed, the lock released.
Fail(c) ==
    /\ Working(c)
    /\ temps' = temps \ {c}
    /\ Goto(c, "release")
    /\ upset' = upset \cup {c}
    /\ UNCHANGED <<lock, written, docs, cases, result, manifest, sums, held, job, raced>>

Killed(c) ==
    /\ Alive(c)
    /\ Over(c)
    /\ upset' = upset \cup {c}
    /\ UNCHANGED <<lock, written, directory, raced>>
-----------------------------------------------------------------------------
Step(c) ==
    \/ ReadDeadLock(c) \/ NoLockToClear(c) \/ LockNotCleared(c)
    \/ ClaimDeadLock(c) \/ FindNotOwn(c) \/ PutBack(c)
    \/ \E command \in {"init", "record", "finalize", "verify", "recover"} : OpenLock(c, command)
    \/ WriteLock(c) \/ ReleaseLock(c)
    \/ Refuse(c) \/ InitSession(c) \/ (\E x \in Cases : StageCase(c, x)) \/ RecordCase(c)
    \/ Finalize(c) \/ Verify(c) \/ RemoveTemporaryFiles(c) \/ Assess(c)
    \/ WriteTemporary(c) \/ Install(c) \/ CheckRecovered(c)
    \/ Fail(c) \/ Killed(c)

Next == \E c \in Commands : Step(c)

Spec == Init /\ [][Next]_vars
-----------------------------------------------------------------------------
\* Two commands never work in the session at once, unless two recoveries both
\* found the lock of the same dead command: then one of them may take away the
\* lock of a live command that has come between.
OneCommandAtWork ==
    raced \/ Cardinality({c \in Commands : Working(c)}) <= 1

\* A session that verifies as collected has every case, and its result.
CollectedIsComplete ==
    Verified("COLLECTED") => Complete /\ result

Quiet == \A c \in Commands : ~Alive(c)

\* Once all commands have ended: a session in which none was killed or failed
\* since a recovery verifies, whatever was refused, and holds no lock but one
\* whose content was never written, which no recovery clears; and a session that
\* was initialized can be recovered, whatever was killed when, as long as its
\* recorded cases are sound.
SessionSurvives ==
    /\ CollectedIsComplete
    /\ Quiet /\ upset = {} /\ ~raced =>
          lock \notin written /\ (docs # {} => Verified(manifest.status))
    /\ Quiet /\ docs = Docs /\ AllSound => Recoverable
=============================================================================
