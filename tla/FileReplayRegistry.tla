------------------------- MODULE FileReplayRegistry -------------------------
(***************************************************************************)
(* FileProposalReplayRegistry: the crash-persistent, cross-process table   *)
(* of proposal claims (packages/cloud-client/replay-registry.ts).          *)
(*                                                                         *)
(* Any number of processes run claim() and checkReady() on one directory.  *)
(* Each process takes its file-system calls one at a time; between two of  *)
(* them the other processes run, a process may be killed, the machine may  *)
(* lose power (links not yet synchronized may vanish), an I/O call may     *)
(* fail and a stored file may be damaged.  There is no lock: the protocol  *)
(* rests on link(2) refusing to replace an existing name.                  *)
(***************************************************************************)
EXTENDS Integers, FiniteSets

CONSTANTS Procs,            \* processes sharing the registry directory
          Identities,       \* proposal identities, one per digest
          Malformed,        \* those validIdentity() rejects
          Capacity,         \* Capacity[p]: maximumClaims of process p
          MaximumCapacity,  \* the largest capacity the constructor accepts
          Home,             \* Home[id]: the digest of id, as a number
          Fragile,          \* entries a storage fault may damage (model bound)
          None              \* no identity

\* A free slot, and the operand of a call that is not a claim.
Free == None
Check == "check"

ASSUME CapacityAssumption ==
    /\ MaximumCapacity \in Nat \ {0}
    /\ Capacity \in [Procs -> 1 .. MaximumCapacity]

ASSUME IdentityAssumption ==
    /\ Malformed \subseteq Identities
    /\ Home \in [Identities -> Nat]
    /\ None \notin Identities
    /\ Check \notin Identities
    /\ None # Check

Slots == 0 .. MaximumCapacity - 1

\* The directory's entries: a slot file per claim, and .registry.
Registry == -1
Entries == Slots \cup {Registry}

VARIABLES
    slot,     \* slot[i]: the identity linked at slot i, or Free
    meta,     \* the capacity stored in .registry, 0 when there is no such file
    durable,  \* entries that survive a loss of power
    torn,     \* entries whose bytes no longer parse
    pc,       \* pc[p]: the next file-system call of process p
    op,       \* op[p]: the identity being claimed, Check, or None
    must,     \* must[p]: slots linked when p opened the directory it is reading
    seen,     \* seen[p]: slots p knows to be occupied
    probe,    \* probe[p]: number of slots p has passed over
    reply,    \* reply[p]: the answer of the call, "none" before it
    granted   \* granted[id]: how many calls were answered "claimed" (history)

disk == <<slot, meta, durable, torn>>
local == <<pc, op, must, seen, probe, reply>>
vars == <<disk, local, granted>>

Scanning == {"scan"}
Owning == {"syncClaim", "verify"}
Setup == {"validate", "prepare", "inspectMeta", "listForMeta", "publishMeta",
          "syncMeta", "recheckMeta", "probeLinks", "open"}
InCall == Setup \cup Scanning \cup {"probe"} \cup Owning
PCs == InCall \cup {"idle", "answered"}
Replies == {"claimed", "duplicate", "capacity_exceeded", "unavailable", "ready"}

TypeOK ==
    /\ slot \in [Slots -> Identities \cup {Free}]
    /\ meta \in 0 .. MaximumCapacity
    /\ durable \subseteq Entries
    /\ torn \subseteq Entries
    /\ pc \in [Procs -> PCs]
    /\ op \in [Procs -> Identities \cup {Check, None}]
    /\ must \in [Procs -> SUBSET Slots]
    /\ seen \in [Procs -> SUBSET Slots]
    /\ probe \in [Procs -> Nat]
    /\ reply \in [Procs -> Replies \cup {"none"}]
    /\ granted \in [Identities -> Nat]

Linked == {i \in Slots : slot[i] # Free}
Present == Linked \cup (IF meta = 0 THEN {} ELSE {Registry})

\* startingSlot and the probe sequence: linear probing from the digest.
ProbeSlot(id, maximumClaims, k) == (Home[id] + k) % maximumClaims

\* The slot process p looks at next, or has just linked.
Target(p) == ProbeSlot(op[p], Capacity[p], probe[p])

Init ==
    /\ slot = [i \in Slots |-> Free]
    /\ meta = 0
    /\ durable = {}
    /\ torn = {}
    /\ pc = [p \in Procs |-> "idle"]
    /\ op = [p \in Procs |-> None]
    /\ must = [p \in Procs |-> {}]
    /\ seen = [p \in Procs |-> {}]
    /\ probe = [p \in Procs |-> 0]
    /\ reply = [p \in Procs |-> "none"]
    /\ granted = [id \in Identities |-> 0]

-----------------------------------------------------------------------------
(* The steps every call shares.                                            *)

Goto(p, label) == pc' = [pc EXCEPT ![p] = label]

Answer(p, r) ==
    /\ Goto(p, "answered")
    /\ reply' = [reply EXCEPT ![p] = r]
    /\ UNCHANGED <<disk, op, must, seen, probe>>

Step(p, from, to) ==
    /\ pc[p] = from
    /\ Goto(p, to)
    /\ UNCHANGED <<op, must, seen, probe, reply, granted>>

\* A caller enters claim(identity) or checkReady().
Begin(p, what) ==
    /\ pc[p] = "idle"
    /\ Goto(p, "validate")
    /\ op' = [op EXCEPT ![p] = what]
    /\ UNCHANGED <<disk, must, seen, probe, reply, granted>>

Validate(p) ==
    /\ op[p] \notin Malformed
    /\ Step(p, "validate", "prepare")
    /\ UNCHANGED disk

RejectMalformed(p) ==
    /\ pc[p] = "validate"
    /\ op[p] \in Malformed
    /\ Answer(p, "unavailable")
    /\ UNCHANGED granted

\* prepareDirectory creates what is missing and synchronizes the directory.
Prepare(p) ==
    /\ Step(p, "prepare", "inspectMeta")
    /\ durable' = durable \cup Present
    /\ UNCHANGED <<slot, meta, torn>>

-----------------------------------------------------------------------------
(* ensureMetadata: agree on the capacity, or refuse to go on.              *)

\* Slip: the stored capacity is not compared with the configured one.
MetaValidAnyCapacity(p) == meta # 0 /\ Registry \notin torn

MetaValid(p) == meta = Capacity[p] /\ Registry \notin torn

AfterMeta(p) == IF op[p] = Check THEN "probeLinks" ELSE "open"

MetaFound(p) ==
    /\ MetaValid(p)
    /\ \E from \in {"inspectMeta", "recheckMeta"} : Step(p, from, AfterMeta(p))
    /\ UNCHANGED disk

MetaRefused(p) ==
    /\ \/ pc[p] = "inspectMeta" /\ meta # 0
       \/ pc[p] = "recheckMeta"
    /\ ~MetaValid(p)
    /\ Answer(p, "unavailable")
    /\ UNCHANGED granted

MetaAbsent(p) ==
    /\ meta = 0
    /\ Step(p, "inspectMeta", "listForMeta")
    /\ UNCHANGED disk

\* containsOnlyStagingDirectory; a listing that fails counts as a used
\* directory, so DirectoryUsed may happen whatever the directory holds.
DirectoryEmpty(p) ==
    /\ Present = {}
    /\ Step(p, "listForMeta", "publishMeta")
    /\ UNCHANGED disk

DirectoryUsed(p) ==
    /\ Step(p, "listForMeta", "recheckMeta")
    /\ UNCHANGED disk

PublishMeta(p) ==
    /\ meta = 0
    /\ Step(p, "publishMeta", "syncMeta")
    /\ meta' = Capacity[p]
    /\ UNCHANGED <<slot, durable, torn>>

MetaExists(p) ==
    /\ meta # 0
    /\ Step(p, "publishMeta", "recheckMeta")
    /\ UNCHANGED disk

SyncMeta(p) ==
    /\ Step(p, "syncMeta", "recheckMeta")
    /\ durable' = durable \cup Present
    /\ UNCHANGED <<slot, meta, torn>>

\* checkReady tries a link of its own inside .staging, which no call reads.
ProbeLinks(p) ==
    /\ Step(p, "probeLinks", "open")
    /\ UNCHANGED disk

-----------------------------------------------------------------------------
(* Reading the directory.  readdir is not atomic: it returns every entry   *)
(* present when it was opened, and any subset of those linked since.       *)

OpenDirectory(p) ==
    /\ pc[p] = "open"
    /\ Goto(p, "scan")
    /\ must' = [must EXCEPT ![p] = Linked]
    /\ UNCHANGED <<disk, op, seen, probe, reply, granted>>

ScanEntry(p, i) ==
    /\ pc[p] = "scan"
    /\ i \in Linked \ seen[p]

Readable(p, i) == i < Capacity[p] /\ i \notin torn

ScanOther(p, i) ==
    /\ ScanEntry(p, i)
    /\ Readable(p, i)
    /\ slot[i] # op[p]
    /\ seen' = [seen EXCEPT ![p] = @ \cup {i}]
    /\ UNCHANGED <<disk, pc, op, must, probe, reply, granted>>

ScanDuplicate(p, i) ==
    /\ ScanEntry(p, i)
    /\ Readable(p, i)
    /\ slot[i] = op[p]
    /\ Answer(p, "duplicate")
    /\ UNCHANGED granted

ScanUnreadable(p, i) ==
    /\ ScanEntry(p, i)
    /\ ~Readable(p, i)
    /\ Answer(p, "unavailable")
    /\ UNCHANGED granted

\* Slip: the scan ends before it has read every entry.
ScanCompleteEarly(p) == pc[p] = "scan"

ScanComplete(p) == pc[p] = "scan" /\ must[p] \subseteq seen[p]

Full(p) == Cardinality(seen[p]) >= Capacity[p]

ScanFull(p) ==
    /\ ScanComplete(p)
    /\ Full(p)
    /\ Answer(p, "capacity_exceeded")
    /\ UNCHANGED granted

ReportReady(p) ==
    /\ ScanComplete(p)
    /\ ~Full(p)
    /\ op[p] = Check
    /\ Answer(p, "ready")
    /\ UNCHANGED granted

StartProbing(p) ==
    /\ ScanComplete(p)
    /\ ~Full(p)
    /\ op[p] # Check
    /\ Goto(p, "probe")
    /\ must' = [must EXCEPT ![p] = {}]
    /\ UNCHANGED <<disk, op, seen, probe, reply, granted>>

-----------------------------------------------------------------------------
(* The probe loop of claim(): link the staged claim into the first slot of *)
(* its sequence that takes it.                                             *)

Probing(p) == pc[p] = "probe" /\ probe[p] < Capacity[p]

PassOver(p) ==
    /\ probe' = [probe EXCEPT ![p] = @ + 1]
    /\ UNCHANGED <<disk, pc, op, must, reply, granted>>

\* Slip: the loop continues without its increment.
SkipSeenAgain(p) ==
    /\ Probing(p)
    /\ Target(p) \in seen[p]
    /\ UNCHANGED vars

SkipSeen(p) ==
    /\ Probing(p)
    /\ Target(p) \in seen[p]
    /\ PassOver(p)
    /\ UNCHANGED seen

TryLink(p) == Probing(p) /\ Target(p) \notin seen[p]

\* Slip: rename(2), which replaces, instead of link(2), which does not.
LinkClaimReplacing(p) ==
    /\ TryLink(p)
    /\ slot' = [slot EXCEPT ![Target(p)] = op[p]]
    /\ Goto(p, "syncClaim")
    /\ UNCHANGED <<meta, durable, torn, op, must, seen, probe, reply, granted>>

LinkClaim(p) ==
    /\ TryLink(p)
    /\ slot[Target(p)] = Free
    /\ slot' = [slot EXCEPT ![Target(p)] = op[p]]
    /\ Goto(p, "syncClaim")
    /\ UNCHANGED <<meta, durable, torn, op, must, seen, probe, reply, granted>>

LinkTaken(p) ==
    /\ TryLink(p)
    /\ slot[Target(p)] \notin {Free, op[p]}
    /\ Target(p) \notin torn
    /\ seen' = [seen EXCEPT ![p] = @ \cup {Target(p)}]
    /\ PassOver(p)

\* Slips: the identity in a taken slot is not compared with the caller's; the
\* status of the publication is returned as the answer.
LinkDuplicateIgnored(p) ==
    /\ TryLink(p)
    /\ slot[Target(p)] = op[p]
    /\ seen' = [seen EXCEPT ![p] = @ \cup {Target(p)}]
    /\ PassOver(p)

LinkDuplicateExists(p) ==
    /\ TryLink(p)
    /\ slot[Target(p)] = op[p]
    /\ Target(p) \notin torn
    /\ Answer(p, "exists")
    /\ UNCHANGED granted

LinkDuplicate(p) ==
    /\ TryLink(p)
    /\ slot[Target(p)] = op[p]
    /\ Target(p) \notin torn
    /\ Answer(p, "duplicate")
    /\ UNCHANGED granted

LinkUnreadable(p) ==
    /\ TryLink(p)
    /\ slot[Target(p)] # Free
    /\ Target(p) \in torn
    /\ Answer(p, "unavailable")
    /\ UNCHANGED granted

\* Slip: the probe loop stops one slot short.
ExhaustedEarly(p) ==
    /\ pc[p] = "probe"
    /\ probe[p] + 1 >= Capacity[p]
    /\ Answer(p, "capacity_exceeded")
    /\ UNCHANGED granted

Exhausted(p) ==
    /\ pc[p] = "probe"
    /\ probe[p] >= Capacity[p]
    /\ Answer(p, "capacity_exceeded")
    /\ UNCHANGED granted

\* Slip: the link is not followed by an fsync of the directory.
SyncClaimSkipped(p) ==
    /\ Step(p, "syncClaim", "verify")
    /\ UNCHANGED disk

SyncClaim(p) ==
    /\ Step(p, "syncClaim", "verify")
    /\ durable' = durable \cup Present
    /\ UNCHANGED <<slot, meta, torn>>

ClaimStored(p) == Target(p) \notin torn /\ slot[Target(p)] = op[p]

VerifyClaim(p) ==
    /\ pc[p] = "verify"
    /\ ClaimStored(p)
    /\ Answer(p, "claimed")
    /\ granted' = [granted EXCEPT ![op[p]] = @ + 1]

VerifyFails(p) ==
    /\ pc[p] = "verify"
    /\ ~ClaimStored(p)
    /\ Answer(p, "unavailable")
    /\ UNCHANGED granted

-----------------------------------------------------------------------------
(* The caller takes the answer; failures.                                  *)

Forget(S) ==
    /\ pc' = [p \in Procs |-> IF p \in S THEN "idle" ELSE pc[p]]
    /\ op' = [p \in Procs |-> IF p \in S THEN None ELSE op[p]]
    /\ must' = [p \in Procs |-> IF p \in S THEN {} ELSE must[p]]
    /\ seen' = [p \in Procs |-> IF p \in S THEN {} ELSE seen[p]]
    /\ probe' = [p \in Procs |-> IF p \in S THEN 0 ELSE probe[p]]
    /\ reply' = [p \in Procs |-> IF p \in S THEN "none" ELSE reply[p]]
    /\ UNCHANGED granted

Return(p) ==
    /\ pc[p] = "answered"
    /\ Forget({p})
    /\ UNCHANGED disk

\* Every file-system call may throw: claim() and checkReady() catch it.
IOError(p) ==
    /\ pc[p] \in InCall \ {"validate"}
    /\ Answer(p, "unavailable")
    /\ UNCHANGED granted

\* The process is killed; what it linked stays.
Crash(p) ==
    /\ pc[p] # "idle"
    /\ Forget({p})
    /\ UNCHANGED disk

\* Every process dies, and any of the entries never synchronized is gone.
PowerLoss ==
    /\ \E kept \in SUBSET Present :
          /\ Present \cap durable \subseteq kept
          /\ slot' = [i \in Slots |-> IF i \in kept THEN slot[i] ELSE Free]
          /\ meta' = IF Registry \in kept THEN meta ELSE 0
          /\ durable' = kept
          /\ torn' = torn \cap kept
    /\ Forget(Procs)

Damage(i) ==
    /\ i \in (Present \cap Fragile) \ torn
    /\ torn' = torn \cup {i}
    /\ UNCHANGED <<slot, meta, durable, local, granted>>

-----------------------------------------------------------------------------
Progress(p) ==
    \/ Validate(p) \/ RejectMalformed(p) \/ Prepare(p)
    \/ MetaFound(p) \/ MetaRefused(p) \/ MetaAbsent(p)
    \/ DirectoryEmpty(p) \/ DirectoryUsed(p)
    \/ PublishMeta(p) \/ MetaExists(p) \/ SyncMeta(p) \/ ProbeLinks(p)
    \/ OpenDirectory(p)
    \/ \E i \in Slots :
          ScanOther(p, i) \/ ScanDuplicate(p, i) \/ ScanUnreadable(p, i)
    \/ ScanFull(p) \/ ReportReady(p) \/ StartProbing(p)
    \/ SkipSeen(p) \/ LinkClaim(p) \/ LinkTaken(p) \/ LinkDuplicate(p)
    \/ LinkUnreadable(p) \/ Exhausted(p)
    \/ SyncClaim(p) \/ VerifyClaim(p) \/ VerifyFails(p)

Next ==
    \/ \E p \in Procs :
          \/ \E what \in Identities \cup {Check} : Begin(p, what)
          \/ Progress(p) \/ Return(p) \/ IOError(p) \/ Crash(p)
    \/ PowerLoss
    \/ \E i \in Entries : Damage(i)

Spec == Init /\ [][Next]_vars

\* A call is one synchronous function: once entered it keeps running.
FairSpec == Spec /\ \A p \in Procs : WF_vars(Progress(p))
-----------------------------------------------------------------------------
(* What the registry promises.                                             *)

Recorded == {slot[i] : i \in Linked}

\* No proposal identity is ever answered "claimed" twice, by any process, in
\* spite of crashes, power failures and non-atomic directory reads: this is
\* what makes a proposal executable at most once (claim(), line 536).
AtMostOneGrant == \A id \in Identities : granted[id] <= 1

\* An identity occupies at most one slot, however many processes race for it
\* and whatever hole a power failure left in its probe sequence.
UniqueRecord ==
    \A i, j \in Linked : slot[i] = slot[j] => i = j

\* A granted claim is on stable storage, so no later power failure lets the
\* identity be claimed again (fsync before the answer, line 341).
GrantIsDurable ==
    \A id \in Identities :
        granted[id] > 0 => \E i \in Linked \cap durable : slot[i] = id

\* Processes configured with different capacities never mix their claims in
\* one table: claims exist only below the capacity of a process that found
\* its own capacity in .registry (ensureMetadata, line 397).
OneCapacity ==
    /\ \A p \in Procs : pc[p] \in {"open", "scan", "probe"} \cup Owning
                            => meta = Capacity[p]
    /\ meta # 0 => \A i \in Linked : i < meta

\* What an abstract registry would show of the calls: checkReady() is none of
\* its calls, and a claim has taken effect once it is linked.
CallPhase ==
    [p \in Procs |->
        IF op[p] \in {Check, None} THEN "idle"
        ELSE IF pc[p] = "answered" THEN "answered"
        ELSE IF pc[p] \in Owning THEN "recorded"
        ELSE "asked"]

CallAsked == [p \in Procs |-> IF op[p] = Check THEN None ELSE op[p]]
CallReply == [p \in Procs |-> IF op[p] = Check THEN "none" ELSE reply[p]]

Memory == INSTANCE ReplayRegistry WITH
    recorded <- Recorded, phase <- CallPhase, asked <- CallAsked, reply <- CallReply

\* Apart from "unavailable", every answer to claim() is the one the atomic
\* in-memory registry would give at that moment: "duplicate" only for a
\* recorded identity, "capacity_exceeded" only for an unrecorded one and a
\* full table, although the directory read is not atomic and the probe loop
\* runs on a stale set of occupied slots.
AnswersLikeMemory ==
    \A p \in Procs :
        (pc[p] = "answered" /\ op[p] # Check /\ reply[p] # "unavailable") =>
            reply[p] = Memory!MemoryReply(
                IF reply[p] = "claimed" THEN Recorded \ {op[p]} ELSE Recorded,
                op[p], Capacity[p])

\* The whole protocol implements the atomic registry of ReplayRegistry, with
\* the link as the moment a claim takes effect.
ImplementsRegistry == Memory!Spec

\* checkReady() never reports fewer remaining claims than there are, nor more
\* than there were when it opened the directory (lines 486-534).
ReadinessBracketed ==
    \A p \in Procs :
        (pc[p] = "answered" /\ reply[p] = "ready") =>
            /\ seen[p] \subseteq Linked
            /\ must[p] \subseteq seen[p]
            /\ Cardinality(seen[p]) < Capacity[p]

\* A linked claim is never replaced and, once synchronized, never removed:
\* link(2) without replacement, and no code path unlinks a slot.
ClaimsArePermanent ==
    [][\A i \in Linked : slot'[i] = slot[i] \/ (slot'[i] = Free /\ i \notin durable)]_vars

\* Every call is answered unless its process dies: neither the metadata
\* hand-shake nor the probe loop can go round for ever.
EveryCallAnswered ==
    \A p \in Procs : pc[p] \in InCall ~> pc[p] \notin InCall
-----------------------------------------------------------------------------
(* The inductive invariant behind AtMostOneGrant.  A prober works with a   *)
(* stale set of occupied slots, so what keeps it from linking an identity  *)
(* twice is where the other record must be: still ahead of it in its probe *)
(* sequence, and behind no free slot.                                      *)

\* Slot i holds a record the probe sequence of id meets at its k-th slot,
\* before any free one.
Reaches(id, maximumClaims, k, i) ==
    /\ i = ProbeSlot(id, maximumClaims, k)
    /\ \A j \in 0 .. k - 1 : slot[ProbeSlot(id, maximumClaims, j)] # Free

Tidy(p) ==
    /\ pc[p] = "idle" => op[p] = None
    /\ pc[p] # "idle" => op[p] \in Identities \cup {Check}
    /\ pc[p] \in {"idle"} \cup Setup =>
          seen[p] = {} /\ must[p] = {} /\ probe[p] = 0
    /\ pc[p] = "scan" => probe[p] = 0
    /\ pc[p] \in {"probe"} \cup Owning => op[p] \in Identities

Agreed(p) ==
    pc[p] \in {"probeLinks", "open", "scan", "probe"} \cup Owning
        => meta = Capacity[p]

SeenTaken(p) ==
    pc[p] \in {"scan", "probe"} =>
        \A i \in seen[p] : slot[i] \notin {Free, op[p]}

PassedTaken(p) ==
    pc[p] = "probe" =>
        \A j \in 0 .. probe[p] - 1 :
            slot[ProbeSlot(op[p], Capacity[p], j)] \notin {Free, op[p]}

\* While p reads the directory, a record of its identity was there at the
\* start or can be reached by probing.
ScanMisses(p) ==
    pc[p] = "scan" /\ op[p] # Check =>
        \A i \in Slots \ must[p] : slot[i] = op[p] =>
            \E k \in 0 .. Capacity[p] - 1 : Reaches(op[p], Capacity[p], k, i)

\* While p probes, a record of its identity lies ahead of it.
RecordAhead(p) ==
    pc[p] = "probe" =>
        \A i \in Slots : slot[i] = op[p] =>
            \E k \in probe[p] .. Capacity[p] - 1 : Reaches(op[p], Capacity[p], k, i)

\* Between its link and its answer, p alone stands for its identity.
Owns(p) ==
    pc[p] \in Owning =>
        /\ slot[Target(p)] = op[p]
        /\ granted[op[p]] = 0
        /\ pc[p] = "verify" => Target(p) \in durable
        /\ \A q \in Procs \ {p} : pc[q] \in Owning => op[q] # op[p]

ProcInv(p) ==
    /\ Tidy(p) /\ Agreed(p) /\ SeenTaken(p) /\ PassedTaken(p)
    /\ ScanMisses(p) /\ RecordAhead(p) /\ Owns(p)

IInv ==
    /\ TypeOK
    /\ UniqueRecord /\ AtMostOneGrant /\ GrantIsDurable
    /\ \A p \in Procs : ProcInv(p)

=============================================================================
