# Formal models of rlsok

rlsok decides whether a proposed robot action may reach a controller. A proposal
arrives from an untrusted proposer over ROS 2; it is claimed once in a replay
registry, judged against an approved release, the observed configuration of the
machine and a runtime attestation, given a short-lived permit, checked again, and
only then sent to the controller. Every outcome is written up as evidence. These
modules model that path, from the claim to the evidence, together with the commands
that prepare it (setup, pairing, approval) and validate it, and check and prove what
makes it correct.

Paths below are relative to the repository. Line numbers of every definition are
in `PROJECT.json` ("map").

## 1. The system

| Component | State it keeps | Operations | Talks to | What is hard about it |
|---|---|---|---|---|
| Proposal replay registry (`packages/cloud-client/replay-registry.ts`) | a directory: one file per claim, `.registry` with the capacity, `.staging` | `claim`, `checkReady` | gateway, cloud workflow; other processes through the file system | no lock: several processes, non-atomic `readdir`, crashes, power loss, damaged files |
| Release policy (`packages/core/release-policy.ts`, `exec-spec.ts`) | a release record | `transitionRelease`, `executionEligibility`, `executablePolicyHash` | every gate | long legal sequences of transitions and edited documents |
| Execution gate (`packages/core/execution-gate.ts`) | the map of live permits | `evaluate`, `execute`; `ShadowExecutionGate.evaluate` | policy, release authority, observers, dispatcher, evidence sink | eight awaits, two clocks, request objects owned by the caller |
| Configuration binding, runtime attestation (`execution-configuration.ts`, `runtime-attestation.ts`) | none | evaluate an observation for presence, age, digest, capabilities, continuity | gate, workflow | freshness at boundaries |
| Evidence chain and sinks (`packages/core/evidence.ts`, `FileEvidenceSink` in `apps/cli/ros2.ts`) | an append-only hash chain in a file | `assertWritableBeforeDispatch`, `append`, bundle verification | gate, gateway | failure after the dispatch, decision times ahead of the clock |
| Cloud-connected workflow (`packages/cloud-client/ros2-workflow.ts`) | the current run | `runProposal` | registry, transport, cloud client, boundary, local evidence | every request may be lost; errors after the dispatch |
| Cloud dispatch boundary and client (`gate.ts`, `client.ts`) | local permit, consumption state | `beginFinalBoundary`, `authorizeFinalBoundary`, `assertLocalPermitCurrent`; HTTP requests with retry | cloud service | uncertain consumption |
| ROS 2 reference gateway (`packages/ros2-reference-gateway/index.ts`) | seen proposals, goal counter | `start`, `handlePayload`, `revoke` | transport, gate, registry, evidence | errors after a goal was sent; restarts and redeliveries; proposals that overlap |
| Sidecar transport (`sidecar.ts`, `experimental/ros2-reference-sidecar/rlsok_ros2_sidecar.py`) | pending requests, cached joint state, a permanent terminal error; the Python process and its action client | `subscribeProposals`, `getFreshJointState`, `dispatchTrajectory`, `doctor`, `close` | two processes over JSON lines; the controller | time-outs racing late answers; a channel read by the handler that waits for it |
| Bounded proposal processor (`apps/cli/ros2.ts`) | one active and one pending proposal | `submit` | transport, gateway or workflow | ordering and back-pressure |
| Edge authorization (`packages/edge-authorization/snapshot.ts`) | a boundary's prepared snapshot, whether it is used, the evidence it names | `signEdgeAuthorization`, `verifyEdgeAuthorization`; `prepare`, `dispatch` | a dispatcher; a refresh task that carries snapshots and revocation epochs | authority used without a network: late, repeated and reordered snapshots, a wrong clock |
| Pairing and credentials (`apps/cli/pair.ts`, `cloud-client/credentials.ts`) | a credential file | start, poll up to the expiry, replace in one rename | cloud service, administrator | two pairings at once, another cloud |
| Setup (`apps/cli/setup.ts`) | the protected copy of the policy artifact, release and proposal files, `setup.json` | discover, bind, pair, draft, wait for approval, propose, evaluate in Shadow | pairing, cloud service, the Shadow command | killed between any two files written in place; two setups at once |
| Shadow evaluation (`rlsok ros2 shadow --once` in `apps/cli/ros2.ts`, `ros2-workflow.ts`) | a result file, the replay registry | one run of a saved proposal, without a dispatcher | registry, cloud service; called by setup and by `validate-ur5e finalize` | revocation or another approval between the claim and the boundary |
| Durable output files (`apps/cli/ros2.ts`) | result and evidence files | `writePrivateAtomic`, `reservePrivateOutput` | CLI commands | crash between write and rename |
| External validation session (`apps/cli/validate-external-ros2.ts`) | a session directory: documents, recorded cases, result, manifest, checksums; a lock file | `init`, `record`, `finalize`, `verify`, `recover` | other commands through the file system | commands killed between two files; a lock left by a dead process and taken over |
| UR5e validation (`apps/cli/validate-ur5e.ts`) | a directory of proofs with a manifest and its sums | `preflight`, `record`, `finalize` | what setup saved, the cloud service, a Shadow run | no lock; killed between manifest and sums; files that change while it waits |
| Profile, compatibility, assistant and observe commands (`apps/cli/*.ts`) | none between steps | operator dialogs | everything above | long but sequential |
| Husarion gateway, composable shadow reviews, adapter references, robot integrations, collectors | see `PROJECT.json` | | | mostly conversions and comparisons |

How they interact: the sidecar emits a proposal; the proposal processor hands one
at a time to the gateway (`handlePayload`) or to the cloud workflow
(`runProposal`); both claim the proposal in the registry first. The gateway runs
`evaluate` and `execute` of the execution gate, whose dispatcher is the transport.
The workflow runs its own sequence of observations and cloud requests and ends in
the cloud dispatch boundary, whose dispatcher is the transport too. `setup` leads to a
release that the gateways can use: it pairs the machine, has its draft approved, and
runs the workflow once in Shadow mode, in a child process, whose result file and exit
code it reads. `validate-ur5e` starts from the files that setup saved and runs the
Shadow command once more. A boundary of the edge authorization takes the place of the
cloud where there is no network.

What makes each part correct:

* registry: an identity is granted once, for ever, whatever crashes; an answer
  other than "unavailable" is the one an atomic table would give;
* release policy: only the approved document is honoured, in the one stage it was
  made for, until it is refused for good;
* edge authorization: a boundary writes once, what the authority signed for it, and
  nothing a lifetime after a revocation, heard of or not;
* gate: a permit dispatches once, the action that was judged, while everything it
  rests on is current, and the evidence never denies a dispatch;
* workflow: one goal per proposal, none without a consumed cloud permit, evidence
  that is right about both, and an end to every run;
* gateway and evidence file: one goal per proposal across restarts, no denial of a
  signal, a record of every goal, and a file that is readable after any crash and
  loses nothing that was acknowledged;
* validation session: one command works in it at a time; it verifies as collected only
  when it is; whatever is killed when, it can be recovered;
* setup and Shadow: what a finished setup saved belongs together and was approved;
  nothing is allowed that was not approved, or after its revocation;
* UR5e validation: a directory that says PASSED proves what it claims;
* transport and processor: proposals are handled in order, once, one at a time, each
  to an end; what a caller is told of its goal is so; a healthy channel is not lost.

## 2. Modules

| Module | Models | Checked or proved by |
|---|---|---|
| `ReplayRegistry` | abstract: what any registry promises, with the answers of the in-memory implementation | target of the refinement, part of `CloudDispatch` |
| `FileReplayRegistry` | `FileProposalReplayRegistry` one file-system call at a time | two runs, `FileReplayRegistryProofs` |
| `FileReplayRegistryProofs` | its inductive invariant, the theorems on grants and records, that it implements `ReplayRegistry`, and what its answers mean | TLAPS |
| `ReleasePolicy` | the pure rules of `release-policy.ts` (no state) | used by the next two |
| `ReleaseLifecycle` | one record, every transition, every version of a document | one run, `ReleaseProofs` |
| `ReleaseGate` | `evaluate` and `execute` for one permit; extends `ReleasePolicy` | two runs, `ReleaseProofs` |
| `ReleaseProofs` | theorems about both | TLAPS |
| `EdgeAuthorization` | the authority's signatures, their verification, the dispatch boundary | one run, `EdgeAuthorizationProofs` |
| `EdgeAuthorizationProofs` | theorems about it | TLAPS |
| `EvidenceSink` | the evidence file: `FileEvidenceSink`, the private output it writes, bundle verification, the clocks and the disk under it | through the next two |
| `ReferenceGateway` | `handlePayload` and the command around it; extends `EvidenceSink` | one run, `ReferenceGatewayProofs` |
| `ReferenceGatewayProofs` | theorems about both | TLAPS |
| `SidecarTransport` | the transport, the sidecar's request loop, the pipe between them and the proposal processor | one run, `SidecarTransportProofs` |
| `SidecarTransportProofs` | theorems about it | TLAPS |
| `CloudDispatch` | `runProposal`, boundary, client and an abstract cloud; instantiates `ReplayRegistry` | one run, `CloudDispatchProofs` |
| `CloudDispatchProofs` | theorems about it | TLAPS |
| `ValidationSession` | the session directory of `validate-external-ros2`, its lock and its five commands | one run, `ValidationSessionProofs` |
| `ValidationSessionProofs` | theorems about its lock and its files | TLAPS |
| `ShadowRun` | one Shadow evaluation of a saved proposal, the files and the cloud it uses | through the next two |
| `Onboarding` | setup and pairing, and the administrator; extends `ShadowRun` | through the next |
| `UR5eValidation` | `validate-ur5e` over what setup saved; extends `Onboarding` | two runs, `UR5eValidationProofs` |
| `UR5eValidationProofs` | theorems about all three | TLAPS |

The chain `ShadowRun`, `Onboarding`, `UR5eValidation` is a composition: the later module
runs the actions of the earlier ones beside its own, over the same files. `MC...`
modules only add constants, symmetry sets and, for the last chain, the machine a run
starts from. A definition whose comment
starts with "Slip" is not part of a specification: it is the form a plausible
mistake would give the definition after it, and is there to confirm that a
property notices the mistake.

### FileReplayRegistry

State: `slot` (the claim files), `meta` (`.registry`), `durable` (which directory
entries are synchronized), `torn` (files whose bytes no longer parse), and per
process its program counter, the identity it claims, the slots it has seen and how
far it has probed. `granted` is a history variable.

`claim` is: validate the identity, prepare and synchronize the directory, agree on
the metadata, read the directory, then probe linearly from the digest of the
identity, trying `link(2)` in each slot not known to be taken; after a link,
synchronize and read back. Each file-system call is an action; `ScanOther` returns
one entry. `readdir` returns every entry that was there when the directory was
opened (`must`) and any of those linked since: this is what POSIX promises.
`checkReady` shares the steps up to the scan (`op[p] = Check`).

Failures: `IOError` lets any call throw, `Crash` kills one process, `PowerLoss`
kills all and keeps any superset of the synchronized entries, `Damage` makes a file
unreadable. A listing that fails in `containsOnlyStagingDirectory` counts as a used
directory, which is why `DirectoryUsed` has no guard on the contents.

Left out: permissions and ownership checks of directories, the contents of
`.staging`, the Windows build (where `synchronizeDirectory` does nothing, so that
the durability results below are about POSIX systems).

### ReleasePolicy and ReleaseLifecycle

A document is a record of the fields the rules read; `ExecutablePolicyHash` is
injective, as SHA-256 of the canonical form is taken to be. `Eligibility` keeps the
order of the checks in `executionEligibility`. In `ReleaseLifecycle` operators
present any document of `Specs` with each transition; its variables and specification
have names of their own (`release`, `time`, `LifecycleSpec`), since `ReleaseProofs`
extends it together with the gate.

### ReleaseGate

One evaluation and the `execute` calls that present its permit. Everything between
two awaits is one action, because JavaScript runs it without interruption; at an
await the monotonic clock ticks, the wall clock may jump (`Jump`), the authority may
decide (`Decide`), the configuration drift, the runtime restart or lose a
capability, the owner of the request object may edit it, and other `execute` calls
run. A request field has a version, 1 as assembled and 2 once edited: `taken` holds
what the code captured before the first await, `live` what it reads from the
caller's object afterwards. An edited field counts as a disturbance, in the request
that is evaluated, in the one presented with the permit (`Edits`) and later
(`EditPresented`). From `FinalCheck` to `PreDispatch` there is no await
(`ThreadFree`), but both clocks are read again, so ticks may fall between.

Left out: `ShadowExecutionGate` (it has no dispatcher), clock values that are not
numbers, requests without required capabilities (no attestation is then asked for),
and how hashes and canonical forms are computed.

### CloudDispatch

Each runtime handles one proposal at a time, as the processor in front of the
workflow ensures; a proposal may be delivered again to any runtime. The run's
program counter follows `runProposal`; a request may be answered, be refused
(`Refused`), or time out (`AnswerLost`), when the client sends it again with the
same idempotency key up to `Attempts` times. A request without an answer may still
be carried out later (`inflight`, `LateConsume`) or never (`Vanish`). Local permit
lifetimes, and what the observers see, are nondeterministic. `AfterFailure` says
which error path each request's failure takes.

The cloud service is not in the repository. It is modelled as the client relies on
it: a release that may be revoked and permits consumed at most once, with the same
answer to a repeated idempotency key.

Left out: the Shadow mode of the same workflow (`ShadowRun`), parsing and validation of
the payload, the contents of requests.

### EdgeAuthorization

State: the authority's clock, its revocation epoch with the time each began, and the
snapshots it signed; what the robot knows of the epoch and by how much its clock is off;
per boundary the `prepared` snapshot, whether it is `consumed`, the snapshot its
`evidence` names, the action handed to the dispatcher, and what was written (history).

`Verdict` is `verifyEdgeAuthorization` with its checks in their order. `dispatch` sets
`consumed` first and reaches the dispatcher in one turn of the event loop, so that its
three ways (`DispatchOther`, `DispatchRefused`, `DispatchAllowed`) are one action each;
the dispatcher consumes the action, or fails, at any later time (`Write`,
`DispatcherFails`), and meanwhile the caller may call again or edit its own action
object (`EditOffered`). The code that carries snapshots to the robot is not in the
repository: `Prepare` takes any snapshot that was ever signed, whole or damaged, in any
order, and `Learn` tells the robot of an epoch at any later time or never.

Left out: the text forms (RFC 3339, base64url, the fields' alphabets), invalid options,
and a clock that throws. The six fields compared are an action and a setting.

### ShadowRun, Onboarding and UR5eValidation

State: per cloud and name, the registered content and its `state`; the machine's files
(`credentials`, release, proposal and result files, the protected `copy`, `setup.json`);
the replay registry, which here is the set of what it claimed; per command its `pc` and
what it has read. A release's content is who drafted it and whether it is the approved
form; a proposal is the setup that made it; in `UR5eValidation` a file stands for its
hash.

`ShadowRun` follows `ros2 shadow --once`: the result file is created exclusively, the
release must be eligible locally, the proposal is claimed before the cloud is asked, the
final boundary asks again, and the result is written before and after the cloud has the
evidence. `late` is a history variable: the runs that claimed after a revocation, and
those that were revoked (`Revoke`, `BeforeBoundary`) while their boundary was still to
come. `Onboarding` runs it inside setup. Files are written in place, as in the code,
so that a kill may leave one unreadable (`TearSetup`); only the credentials are renamed
into place. `UR5eValidation` has the three commands with every check of what the former
ones left (`Verified`, `RecordIsWhole`, `SetupUnchanged`), and kills that tear the file
written next (`TearNext`).

Left out: discovery and the choices before the copy, which keep no state; the observed
robot, which is taken to stay the same; the negative checks of `record`, which are pure.
One validation command runs at a time, since the directory has no lock and the
documentation does not offer two; setups may run beside it.

Two remarks. A setup that is given a name used before writes over the release file of
that name before the cloud refuses the draft (`setup.ts:688`); `SetupHoldsTogether`
excepts such a name. And `record` hashes setup, release and proposal after it waited for
the cloud (`validate-ur5e.ts:722`, `:759-766`) but compared the evidence with what it
had read before: two setups of one name on two clouds could put another proposal in
between, and `PassedIsProven` then fails: TLC finds it in about a minute when `CloudOf`
gives two setups of one name different clouds. The run has one cloud for all setups, where the
second setup of a name never gets as far as a proposal; the theorem `PassedValidation`
has the same hypothesis.

### SidecarTransport

State of the gateway process: `main` (how far `rlsok ros2 run` is), `channel`
(`terminalError` is its value "failed", for ever), `pending` (the requests map, with
what is left of each timer), and the processor (`current`, `queued`, and `stage`, how
far the handler of `current` is). State of the sidecar: `side`, with the request it
serves and the limit of the wait it is in. Between them two queues of lines, and
outside them the proposals `published` and what the controller knows of each `goal`.

`handleLine` does not wait for the handler that it calls, so reading lines goes on
while a handler waits for its answer; `ReadProposal`, `DoctorAnswered` and
`DispatchAnswered` are therefore separate from `Observe` and `DispatchTrajectory`.
`FailChannel` is `failChannel`: it rejects every caller at once, and `Settle` is what
the processor's loop does when the handler has ended, the start of the queued
proposal included. On the Python side `Serve` takes one request, and a dispatch goes
through the three waits (`waitServer`, `waitGoal`, `waitResult`) with the limit of
each; a proposal is emitted by another thread at any time (`Publish`).

Time: `Tick` takes one unit from every limit, after whatever is due has happened. The
limit of a dispatch on the gateway's side is the sum of the sidecar's three and
`Slack`, as in the code (discovery + 35 s, for waits of discovery, 2 s and 30 s); a
request and its answer spend at most `MaxLag` in transit, less than `Slack`. The
sidecar may hang, write one unusable line, or exit.

`Observes = TRUE` is a release bound to a configuration that `doctor` reports; the
other setting only removes a request. Left out: the cached joint state, discovery of
the ROS graph, messages above the size limits other than as an unusable line, and
the one-shot mode. Never more than two requests are pending (`TypeCorrect`), so that
`MAXIMUM_PENDING_REQUESTS` (16) is out of reach. What the handler decides between its
requests is nondeterministic here; `ReleaseGate` and `CloudDispatch` are about that.

### EvidenceSink: the evidence file

State: per path what a reader sees (`visible`), the contents that a power loss may
leave (`possible`), and the entries whose `append` has returned (`acknowledged`, a
history variable); the `sink` of the running process, with the entries it holds and
how far its current write is; the monotonic clock and the offset of the wall clock.

`append` checks the number of entries, builds the new bundle, verifies all of it and
checks its size (`AppendRefused`), and only then calls `writePrivateAtomic`:
temporary file, `fsync`, rename, `fsync` of the directory. Every one of those calls
may fail (`AppendFails`), the last one too, when the file already holds an entry the
sink does not; the next append then puts another in its place. Until the directory
is synchronized, a power loss may bring back any content the name had before; a file
renamed without its bytes synchronized would be `Torn`.

A bundle verifies if it has an entry, no entry is older than the one before it or
newer than the bundle, and no state is newer than its entry. The hash chain is the
order of the sequence. Left out: the hashes, the agreement of decision and signal
inside one entry, the Windows build (no directory `fsync`), and the directories above
the file.

Two exceptions of `DispatchRecorded` are limits of the code. The preflight keeps a margin
(`DispatchReserve`, 512 KiB) that, as the comment at `apps/cli/ros2.ts:489` has it,
"covers one complete terminal record before hardware is called". It does not for every
proposal that the size limits let in: 65,536 bytes hold 64 joints and 211 points of
one-digit numbers, and the same trajectory takes about 547 KB when the bundle is
pretty-printed, so that such an entry can be refused after its goal was sent. `Size` is
therefore any positive number, in the run below and above the margin, and the property
says that an entry is lost for want of room only if it is larger than the margin by
itself. Without this exception the run is violated. The other is a wall clock that was
set back, since the sink then takes the entry for one from the future;
`docs/ARCHITECTURE.md` puts clock failure outside the guarantee.

### ReferenceGateway

State: the `mode`, the claims on the disk, the `job` (how far `handlePayload` is with
the current proposal, the readings of both clocks it carries, and afterwards what the
operator was `told`), the counter `goalCount` and, as history, the goals per proposal.

The phases follow `handlePayload`: claim, joint state, `evaluate`, `execute`, with an
entry for every way out. The gate is reduced to what the gateway and the sink see of
it: the time each entry gets (`Projected`, `ExecutionNow`), the preflight of the
evidence file (`NoRoomToDispatch`), and a refusal at any of its checks, which is
nondeterministic here because `ReleaseGate` is about them; `gateway.revoke` is one
cause of such a refusal. The transport may send a goal or fail before it does, and
answer anything. `Start` begins another run of the command on another file with the
same registry; `ProcessEnds` and `PowerLoss` may come at any step.

Left out: parsing of the payload (it ends before anything happens), and payloads
handled at once, which the processor in front of the gateway excludes.

### ValidationSession

State: the `lock` at its path and which lock files have their content (`written`); the
directory (`docs`, `cases`, `result`, `manifest`, `sums`, `temps`); and per command how
far it is (`pc`), the lock it has read or renamed away that is not its own (`held`), and
the files it still has to write (in `job`). A manifest is the files it
lists, with the command that wrote it standing for the time it was made; the checksums
name the manifest they were made from.

Every file is written by `WriteTemporary` and `Install`, the two halves of
`writeProtected`; `writeManifest` is that twice. A case appears whole, by the rename of
its staging directory (`RecordCase`). `ClaimExpected` and `ClaimOther` are the renaming away of a lock, at its
release or by `recover`: only its bytes, read afterwards, tell whose it was, and if it
was another's it is put back (`FindNotOwn`, `PutBack`). `Refuse` is any check of the
inputs that fails, `Fail` a call on a file that throws, `Killed` a kill at any step.

Two limits of the code show in how the properties are worded. `OneCommandAtWork`
excepts two recoveries that read the lock of the same dead command: the slower one may
rename away the lock of a live command, and a third can start before it is back. Of that race
the property says nothing; what the theorem adds is that it is the only one.
`SessionSurvives` excepts a lock file whose content was never written, which `recover`
refuses as invalid JSON although `docs/EXTERNAL_ROS2_SHADOW_VALIDATION.md:430` has it
repair a dead lock (`Recoverable` speaks of the files and not of the lock), and a case that `record` accepted and `readCase` refuses,
after which neither `finalize` nor `recover` gets any further. A session whose `init` was
cut short before both documents were there cannot be recovered either; a new directory
is needed.

Left out: what makes a case acceptable (one bit, "sound"), the observations that the
cases consist of, loss of power, orphaned staging directories (`recover` only lists
them). A listing of the directory is one step.

## 3. What each run checks

| Run | Instance | Shows |
|---|---|---|
| `FileReplayRegistry` | 2 processes of equal capacity, 3 identities, 2 slots; crashes, power loss, I/O errors, one fragile file | at most one grant, unique and durable records, answers of an atomic table, honest readiness, permanence, and refinement of `ReplayRegistry!Spec` |
| `FileReplayRegistryMixed` | capacities 1 and 2, a malformed identity, any file fragile | claims of different capacities never mix; every call is answered |
| `ReleaseLifecycle` | 9 versions of one document, 2 devices, with and without approver and evidence | only the approved document is honoured, in one stage, and a refusal is final |
| `ReleaseGate` | 2 `execute` calls, 4 instants, 3 clock offsets, one disturbance or edit | one dispatch per permit, of what the permit is bound to, inside its life and the state's age limit, never when revocation or restart came before `execute`; truthful evidence |
| `ReleaseGateEdits` | 1 call, any field edited at every await, up to 2 edits | **violated**, see findings |
| `EdgeAuthorization` | 1 boundary, 2 actions, 2 settings, a trusted and an unknown key, lifetimes below and above the maximum, a clock that is 2 slow, right or 2 fast, one revocation, 2 snapshots | one write, of what was signed, none a lifetime after the revocation or once the robot knows of it |
| `CloudDispatch` | 2 runtimes, 2 proposals, a registry of one claim, 3 deliveries, 2 attempts | one goal per proposal, consumed permit first, no goal after an earlier revocation, truthful and present evidence, every run ends |
| `ReferenceGateway` | 2 proposals with entries of different sizes, 3 deliveries, 2 runs of the command, files of 2 entries or 3 units with a margin of 1, one setting of the clock | one goal per proposal, no denial of a signal, a record of every goal unless disk or clock fail or the entry exceeds the margin, files that are readable and keep what was acknowledged |
| `SidecarTransport` | 3 proposals, limits of 1 and 2 units, one fault of the sidecar before its exit | truthful outcomes, no loss of a healthy channel, every accepted proposal comes to an end |
| `ValidationSession` | 3 commands after one that may have been killed with the lock, 2 cases, an empty or a used directory | one command at work; a collected session is complete; after any kills a recovery completes the session, and without kills nothing needs one |
| `UR5eValidation` | 2 setups, 2 names, one `preflight`, `record` and `finalize`, two terminals, a new machine or one paired with another cloud | a finished setup's files belong together, nothing is allowed that was not approved or is revoked before its boundary, and PASSED proves what it claims |
| `UR5eRevocation` | 1 setup, one of each command, one after the other | **violated**, see findings |

Bounds and why they are enough:

* Registry: two processes and a table of two slots are the smallest instance where
  one process probes past another's claim, where a slot is lost behind a later one
  and where the table fills during a scan. `Home` makes two identities collide.
  Three identities give a full table and a refused third. The theorems cover all
  other sizes.
* Gate: two calls are enough for a race, since a permit leaves the map with the
  first. `PermitCap` and `MaxStateAge` are 2 and the horizon is 3, so that permit
  and state both expire during the refreshes; three clock offsets let the wall
  clock step back and forth; one disturbance per behaviour is any one of a jump, a
  drift, a restart or a lost capability, at any await, or one edit of the action or of its claimed hash.
  Revocation is not counted as
  a disturbance and can come on top. `ReleaseGateEdits` has two edits, of any fields:
  the fewest that separate what is dispatched from what was judged.
* Cloud: three deliveries of two proposals to two runtimes give a redelivery after a
  crash, a redelivery while the first is handled, and a full registry. `Attempts` is
  the code's own number.
* Transport: three proposals are one handled, one queued and one dropped, and one that
  arrives while a queued one is about to start. Limits of one and two units let each
  expire alone and together with another.
* Gateway: two files are a command and its restart; entries of one unit and of three, in
  a file of two entries and three units with a margin of one, fill it by number and by
  size, and one kind fits the margin while the other does not; three
  deliveries are two proposals and a repetition. One tick and one setting of the
  clock are enough to put any two readings in either order.
* Edge: one boundary, since boundaries share nothing they write; two snapshots are one
  from before and one from after the revocation, in both orders; lifetimes of 2 and 3
  against a maximum of 2, a skew of 1 and a clock up to 3 let a snapshot be too long,
  not yet valid, valid, expired and revoked.
* UR5e validation: two setups under one name or two are enough for one to write over the
  other's files at any moment, the validation's included. `MaxPolls` is 1: a poll
  without an answer changes nothing but its number. The replay directory may be cleared
  (`ClaimsMayBeCleared`), as otherwise no directory reaches PASSED, see findings; in
  `UR5eRevocation` it is not. Names and setups are symmetric. There is one operator:
  that a PASSED directory is signed by one operator only is left to the theorem, which
  has any number.
* Validation session: a dead command, two recoveries and a third command are the
  smallest instance in which the lock can be lost, and a command, a recovery and
  another command the smallest in which a recovery can fail to help. Two cases tell a
  session with some of its cases from an empty and a full one.
* `CHECK_DEADLOCK FALSE` in the transport's run: the command ends, and everything
  with it. In the session's and the setup's runs: all commands have ended. In the edge
  run: the boundary is used up and the clock at its bound. In the gate's runs: the clock
  stops at the horizon, and an evaluation that was refused stays refused.

Fairness: `FairSpec` of the registry assumes weak fairness of a process's own steps,
because `claim` and `checkReady` are synchronous functions that run on once entered.
`FairSpec` of `CloudDispatch` assumes it of a run's own steps, because each request
ends with an answer, an error or its time-out, which the client sets on every
request. `FairSpec` of `SidecarTransport` assumes it of the event loop, of the clock and
of a sidecar that is neither hung nor dead. No fairness is assumed of callers, crashes, the clock, the cloud's operator
or the network, nor of the controller and the publisher of proposals. The edge, setup
and validation modules state safety only: whether they get anywhere is up to an operator,
an administrator and a refresh task.

Most type invariants are part of an inductive invariant that is proved, and are then not
listed in a run.

## 4. What is proved

`FileReplayRegistryProofs`, for every set of processes and identities, every table
size, every assignment of capacities and every set of fragile files:

* `TypeCorrect`, `ClaimedAtMostOnce` (`AtMostOneGrant`), `RecordedAtMostOnce`
  (`UniqueRecord`), `GrantsSurvivePowerLoss` (`GrantIsDurable`), `ClaimsNeverReplaced`
  (`ClaimsArePermanent`) and `CapacityAgreed` (`OneCapacity`), all from
  `Invariance`: `IInv` holds in every reachable state.

Why an inductive invariant is needed: a process links on the strength of a set of
occupied slots that is stale, so nothing in one state says directly that its identity
is recorded nowhere else. `IInv` says where the other record must be. While the
process scans, a record of its identity either was there when the directory was
opened, so that the scan will meet it, or can be reached by probing from the home
slot without passing a free one (`ScanMisses`). While it probes, every such record
is still ahead of it, behind no free slot (`RecordAhead`). Linking into a free slot
therefore means that there is no record. `PassedTaken` and `SeenTaken` keep what was
passed over occupied by others, `Owns` makes a process that has linked the only one
that can answer "claimed", and `Agreed` keeps all probe sequences modulo one
capacity. A power loss may open a hole in a sequence, but it also kills every
process that had relied on it; a later claim that meets the hole first scans the
whole directory.

Under the same assumptions it also proves `RegistryImplemented`
(`ImplementsRegistry`), `AnswersAreAtomic` (`AnswersLikeMemory`) and `ReadinessIsHonest`
(`ReadinessBracketed`). The refinement mapping reads the recorded identities off the
slots and takes the link for the moment a claim takes effect (`CallPhase`); every action
has one lemma that names the abstract action it maps to. The hard case is
"capacity_exceeded": the caller counted slots on a stale listing, or probed one slot
after the other, while the abstract registry counts identities at the moment of the
answer. `ScanFullIsFull` and `ExhaustedIsFull` show that the counts agree, because
occupied slots stay, no identity has two of them, and the probe sequence visits every
slot below the common capacity (`ProbeCovers`). `AnswerInv` then keeps each answer true
until its caller takes it. Whatever holds of `ReplayRegistry` therefore holds of the
files; `CloudDispatch`, which uses the abstract registry, rests on this.

Assumptions: `CapacityAssumption` and `IdentityAssumption` only, that is, the
constructor's check on the capacity and the distinctness of the marks for a free
slot and for a readiness call. The layout is one lemma per action group, one step per
conjunct that the action can disturb.

`ReleaseProofs`, on the lifecycle, for every set of documents, approvers and devices:
`ApprovedOnly` (`EligibleAsApproved`), `OneStageOnly` (`NeverEligibleInTwoStages`) and
`RefusedForGood` (`RefusalIsFinal`). A record does not say how it came to its state;
`PathInv` does (the stages behind it are exactly those before its own) and
`ApprovalInv` ties its hash to an approved document from the approval on.

`ReleaseProofs`, on the gate, for every set of calls, every limit, every behaviour of the two
clocks and any number of disturbances and edits: `OncePerPermit`
(`DispatchOncePerPermit`), `LedgerTruthful` (`EvidenceTruthful`), `NeverTooLate`
(`NothingSentTooLate`), `FreshByMonotonicClock` (`FreshAtDispatch`) and `BoundAction`
(`DispatchedAsBound`), the last for edits of every field at every await. The permit is in the map only while no call has got past its
entry, and at most one ever does (`OneInside`); `EntryInv`, `LateInv` and `AgeInv` follow
that one call. `BoundInv` adds that the evaluation is past its second comparison with state and release
as they were, and that what a call has taken and was found equal to the permit's bindings
stays so. Assumptions: `GateAssumption` and `NoneAssumption`.

`EdgeAuthorizationProofs`, for any boundaries, keys, lifetimes, epochs and clock errors:
`WritesAtMostOnce`, `WritesWhatWasSigned` and `RevocationIsBounded`
(`RevocationTakesEffect`). `AuthorityInv` says that a snapshot is no younger than the
epochs raised since, `PreparedInv` that an intact snapshot was signed, `UnusedInv`,
`HandedInv` and `WritesInv` how far a boundary is, and `EvidenceInv` that it was judged
within a lifetime of the signature. That the skew plays no part in the last bound is a
result: the check against `expiresAt` alone decides.

`CloudDispatchProofs`, for any runtimes, proposals, capacities and attempts, and any
losses, crashes and redeliveries: `MovesAtMostOnce` (`OneGoalPerProposal`),
`PermitFirst` (`GoalNeedsConsumedPermit`), `RevocationStops` (`NoGoalAfterRevocation`),
`EvidenceIsRight` (`FiledTruthfully`) and `GoalIsOnRecord` (`NoSilentGoal`). `HolderInv`
says that whoever holds a proposal's claim, or is on its way from the claim to the goal,
is the only one, and that the goal has not been sent; `RegistryInv` is what the registry
gives for it. `RunInv` says, by how far a run is, what it knows of its permit's
consumption, what it filed, and whether it can still be late. Assumption:
`CloudAssumption`.

`ReferenceGatewayProofs`, for every set of proposals and paths, every limit and every
behaviour of the clocks: `MovesAtMostOnce` (`OneGoalPerProposal`), `NeverDenied`
(`ToldNoTruthfully`), `AlwaysReadable` (`EvidenceReadable`) and
`NothingAcknowledgedIsLost` (`AcknowledgedStays`), from one `Invariance` again. Its two
halves are `GatewayInv` and `SinkInv`. A goal is behind a claim (`GoalsClaimed`), and
between claim and dispatch the current proposal has none (`ClaimedFirst`), so that a
dispatch is always the first; the counter stands where it stood when `execute` was
called until this payload raises it (`Counted`), which makes the answer right even
after an error. On the other side the entries that the sink holds are the
acknowledged ones (`Reserved`) and what is being written is those and one more, and
verifies (`Prepared`); so neither the rename nor a power loss on either side of it
can take an entry away. `GoalsAreRecorded` (`DispatchRecorded`) needs `RecordInv` besides:
from the preflight on the sink has a place and the margin for one more entry, so that
the entry of a goal can only be refused because it exceeds the margin, or for its time
(`RecordClock`), which takes a wall clock that was set back, or be lost with the disk. What it needs of sizes is that an
entry adds its own (`BytesAppend`). The sum is a recursive function, and induction is
out of reach; but that the function exists and is unique is proved by the least number
at which it would fail (`SizesExist`, `SizesAgree`), with the library's fact that the
naturals are well founded. Assumption: `SinkAssumption`, which asks of sizes only that they
are positive.

`ValidationSessionProofs`, for every number of commands: `SessionIsExclusive`
(`OneCommandAtWork`), from `LockInv`. The lock can be another's while a command
works, because a lock that is not the caller's is put back without looking again; what
makes this harmless is that only a `Wreck` ever comes back, the lock of a command that
failed before it wrote the content and is gone, which nobody can take over
(`OnlyWrecksReturn`, `InsideLocked`). `DeadLockHeld` says that nobody works while a dead
lock is being taken away and that only one recovery is at it, which holds until `raced`.

`SessionIsNotLost` (`SessionSurvives`) adds two invariants. `FilesInv` holds whatever
happens: the result is written only when the cases are complete (`ResultComplete`), COLLECTED
only after the result (`CollectedHasResult`), and a command that is between two of its
files has still to write what the order requires (`Knows`). `RestInv` holds until two
recoveries race, because it needs the lock: one command at a time changes the directory,
lists what is there and writes what it lists (`Ordered`), and when none is at it and nobody
was killed or failed since a recovery, the manifest and the sums agree with the directory
(`AtRest`), in which no temporary file is left or listed (`NoTemporaryListed`). Assumption: `SessionAssumption`.

`UR5eValidationProofs`, for any setups, validations, runs, names, clouds, paths and
terminals, any kill and any torn file: `AllowedUnderApproval`
(`AllowedOnlyUnderApproval`), `SetupIsWhole` (`SetupHoldsTogether`) and
`PassedValidation` (`PassedIsProven`). Every command is first shown to leave the others'
state alone and to move the shared one only forward (`Frame`): a registered name keeps its
drafter, content that was approved stays as it is, a revocation is not taken back, and a
result file is only written by the command that reserved it. `RunInv` says,
by how far a Shadow run is, what it has read and that its result file is its own;
with `Frame` it is proved once and holds inside setup and validation as well. A run in
`late` whose boundary is still to come has a revoked release (`LateOf`), which that
boundary finds: this is what `AllowedUnderApproval` rests on.
`SetupInv` follows a setup from its draft to `setup.json`, whose files are safe as long as
no other setup is given the same name. `ValidationInv` follows the directory: the phase
that its manifest names says which files there are and what they agree on (`Whole`), and
the denial in it is by a revoked release of the very content and proposal that had been
allowed (`Denied`). `DraftedOnce` is where the hypothesis of one cloud is used: a setup
that did not get its draft registered never writes a proposal. Assumptions: those of the
three modules on their constants; `PassedValidation` also has the hypothesis that all
setups are given the same cloud, without which the property is false (see the remarks in
section 2).

`SidecarTransportProofs`, for any number of proposals and all limits in which `Slack` and
the discovery limit exceed the time in transit: `OutcomesAreTrue` (`OutcomeTruthful`) and
`ServiceIsKept` (`HealthyChannelStays`). `TruthInv` holds whatever fails. A proposal is in
one place at a time (`Placed`, `Arriving`), its dispatch is handed over at most once and
not before its handler asks (`HandedOnce`, `Untouched`), and an answer that somebody waits
for is true of the proposal at work (`Told`). The last is what a late answer could
break: it cannot, since a channel that gave up on a call stays closed and no identifier
is used again (`Numbered`), and an outcome that leaves nothing open is only reported when
nothing of the proposal is left in the sidecar (`IsTrue`). `HealthInv` adds that a
sidecar without a fault has one request at most, in one of three places (`OnItsWay`,
`AtWork`, `Replied`), and states in each what its timer and the transit still cover; the
timer of a dispatch can then never fire, and no line is left over. `TypeCorrect`
(`TypeOK`, which no run lists) also bounds the requests without an answer by two, from
`Few`: one call of the command or the handler, and the shutdown. Assumption:
`TransportAssumption`.

Every invariant and every action property of a passing run is proved. Only model-checked
is liveness (`EveryCallAnswered`, `EveryRunEnds`, `EveryProposalSettles`): liveness under
fairness and `ENABLED` are beyond the prover. Not provable by induction is also what a recursive
definition computes for every input; the one such definition that a theorem needs is
dealt with as described under `ReferenceGatewayProofs`.

## 5. Findings

* `UR5eRevocation`: `finalize` runs Shadow on the proposal that setup saved and has
  already run, in the same replay registry, and the workflow claims the proposal before
  it asks for the release. The denial it gets is therefore `proposal_id_duplicate` and
  never `cloud_release_not_eligible:revoked`, which `docs/PHYSICAL_UR5E_VALIDATION.md`
  (lines 147-151) promises and `finalize` requires; it throws, and since the result file
  is created exclusively the session cannot be tried again. A directory becomes PASSED
  only if somebody clears the replay directory in between.

* `ReleaseGateEdits`: `evaluate` compares the claimed action hash with the action before
  it asks the policy (`execution-gate.ts:326`), compares action, state and release again
  afterwards (`:368-374`), but reads the claim afresh for the permit (`:465`). If the
  owner of the request changes the claim while the policy decides, the permit is bound to
  an action that the policy never judged, and `execute` dispatches it when it is
  presented. `docs/ARCHITECTURE.md:20-23` says that any changed input fails closed. The
  repository's own gateways keep their requests to themselves and do not run into this.
  What does hold, checked and proved, is `DispatchedAsBound`.

Remarks without a run of their own:

* The margin of the evidence file does not cover every proposal that is let in, and two
  setups on two clouds can take the ground from under a validation: see the remarks on
  `EvidenceSink` and on `UR5eValidation` in section 2.

* `execute` reads the release record first and then awaits two more refreshes; a
  revocation during those awaits does not stop the dispatch, while
  `docs/ARCHITECTURE.md` says that revocation prevents a later dispatch. The window is
  bounded by the permit's life. What does hold, checked and proved, is
  `NothingSentTooLate`: a revocation before `execute` is always honoured.
* The client sends a consume request a second time after a transport error, under the
  same idempotency key, while `docs/CLOUD_CONTRACT_V1.md` says that consumption is not
  blindly retried. Nothing is dispatched on an unknown outcome either way.

## 6. Not modelled

* Reviews and adapters under `packages/composable-shadow`, `packages/adapter-references`
  and `packages/robot-integrations`: they compare or convert data without keeping state,
  and have no order of events that a model could put differently.
* The profile, compatibility, assistant and observe commands: dialogs that print what
  they computed or call commands that are modelled; no state between their steps.
* `packages/husarion-rosbot-gazebo`: a second gateway over the same gate, with another
  message format. `ReleaseGate` is about its gate; its own handler is not modelled.
* The collectors under `experimental/composable-shadow`: read-only.
* In `ros2.ts` the parsing of options and inputs, in `validate-external-ros2.ts` what
  makes one case acceptable (some thousand lines of checks on one document), in
  `setup.ts` the discovery: sequential and without state.
* Documentation, demo applications and release tooling.

## 7. Plan

What is left, in order of importance:

1. A clock in `CloudDispatch`, so that the age of the joint state at the dispatch can be
   stated (`ros2-workflow.ts:611`).
2. An abstract gate (a permit used at most once, evidence for each use) that both
   `ReleaseGate` and the gate inside `ReferenceGateway` are shown to implement, and the
   Husarion gateway as its third user.
3. With the abstract gate, the proof that both implement it, step by step as for the
   registry.
