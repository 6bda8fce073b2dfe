---------------------- MODULE FileReplayRegistryProofs ----------------------
(***************************************************************************)
(* Proofs about FileReplayRegistry, for any set of processes, identities   *)
(* and capacities: what its files hold, and that its protocol implements   *)
(* the atomic registry of ReplayRegistry.                                  *)
(***************************************************************************)
EXTENDS FileReplayRegistry, FiniteSetTheorems, TLAPS

LEMMA ProbeSlotType ==
    ASSUME NEW id \in Identities, NEW p \in Procs, NEW k \in Nat
    PROVE  ProbeSlot(id, Capacity[p], k) \in 0 .. Capacity[p] - 1
           /\ ProbeSlot(id, Capacity[p], k) \in Slots
<1>1. Capacity[p] \in Nat \ {0} /\ Capacity[p] <= MaximumCapacity
      /\ MaximumCapacity \in Nat
  BY CapacityAssumption
<1>2. Home[id] + k \in Nat
  BY IdentityAssumption
<1>3. ASSUME NEW a \in Nat, NEW b \in Nat \ {0}
      PROVE  a % b \in 0 .. b - 1
  OBVIOUS
<1>4. ProbeSlot(id, Capacity[p], k) \in 0 .. Capacity[p] - 1
  BY <1>1, <1>2, <1>3 DEF ProbeSlot
<1> QED
  BY <1>1, <1>4 DEF Slots

LEMMA TypeInit == Init => TypeOK
<1> USE CapacityAssumption, IdentityAssumption
<1> QED
  BY DEF Init, TypeOK, Slots, Entries, PCs, Free

LEMMA TypeStep == TypeOK /\ (\A p \in Procs : Tidy(p)) /\ [Next]_vars => TypeOK'
<1> SUFFICES ASSUME TypeOK, \A p \in Procs : Tidy(p), [Next]_vars
             PROVE  TypeOK'
  OBVIOUS
<1> USE CapacityAssumption, IdentityAssumption DEF TypeOK, Free
<1> USE DEF disk, local, Goto, PCs, InCall, Setup, Scanning, Owning
<1>1. CASE UNCHANGED vars
  BY <1>1 DEF vars
<1>2. ASSUME NEW p \in Procs, NEW what \in Identities \cup {Check},
             Begin(p, what)
      PROVE  TypeOK'
  BY <1>2 DEF Begin
<1>3. Present \subseteq Entries
  BY DEF Present, Linked, Entries
<1>4. ASSUME NEW p \in Procs, NEW r \in Replies, Answer(p, r),
             granted' \in [Identities -> Nat]
      PROVE  TypeOK'
  BY <1>4 DEF Answer
<1>5. ASSUME NEW p \in Procs, Progress(p)
      PROVE  TypeOK'
  <2>1. CASE \/ RejectMalformed(p) \/ MetaRefused(p) \/ Exhausted(p)
             \/ \E i \in Slots : ScanDuplicate(p, i) \/ ScanUnreadable(p, i)
             \/ ScanFull(p) \/ ReportReady(p) \/ LinkDuplicate(p)
             \/ LinkUnreadable(p) \/ VerifyFails(p)
    BY <2>1, <1>4 DEF RejectMalformed, MetaRefused, Exhausted, ScanDuplicate,
       ScanUnreadable, ScanFull, ReportReady, LinkDuplicate, LinkUnreadable,
       VerifyFails, Replies
  <2>2. CASE VerifyClaim(p)
    <3>1. granted' \in [Identities -> Nat]
      BY <2>2 DEF VerifyClaim, Tidy
    <3> QED
      BY <2>2, <3>1, <1>4 DEF VerifyClaim, Replies
  <2>3. CASE \/ Validate(p) \/ MetaFound(p) \/ MetaAbsent(p)
             \/ DirectoryEmpty(p) \/ DirectoryUsed(p) \/ MetaExists(p)
             \/ ProbeLinks(p)
    BY <2>3 DEF Validate, MetaFound, MetaAbsent, DirectoryEmpty,
       DirectoryUsed, MetaExists, ProbeLinks, AfterMeta, Step
  <2>4. CASE Prepare(p) \/ SyncMeta(p) \/ SyncClaim(p) \/ PublishMeta(p)
    BY <2>4, <1>3 DEF Prepare, SyncMeta, SyncClaim, PublishMeta, Step
  <2>5. CASE OpenDirectory(p) \/ StartProbing(p)
             \/ \E i \in Slots : ScanOther(p, i)
    BY <2>5 DEF OpenDirectory, StartProbing, ScanOther, Linked
  <2>6. CASE SkipSeen(p)
    BY <2>6 DEF SkipSeen, PassOver
  <2>7. CASE LinkTaken(p)
    <3>1. Target(p) \in Slots
      BY <2>7, ProbeSlotType DEF LinkTaken, TryLink, Probing, Target, Tidy
    <3> QED
      BY <2>7, <3>1 DEF LinkTaken, TryLink, Probing, PassOver
  <2>8. CASE LinkClaim(p)
    BY <2>8 DEF LinkClaim, TryLink, Probing, Tidy
  <2> QED
    BY <1>5, <2>1, <2>2, <2>3, <2>4, <2>5, <2>6, <2>7, <2>8 DEF Progress
<1>6. ASSUME NEW S \in SUBSET Procs, Forget(S), UNCHANGED disk
      PROVE  TypeOK'
  BY <1>6 DEF Forget
<1>7. ASSUME NEW p \in Procs, IOError(p)
      PROVE  TypeOK'
  BY <1>7, <1>4 DEF IOError, Replies
<1>8. CASE PowerLoss
  BY <1>8, <1>3 DEF PowerLoss, Forget
<1>9. ASSUME NEW i \in Entries, Damage(i)
      PROVE  TypeOK'
  BY <1>9 DEF Damage
<1> QED
  BY <1>1, <1>2, <1>5, <1>6, <1>7, <1>8, <1>9 DEF Next, Return, Crash

-----------------------------------------------------------------------------
(* Steps that leave the claims alone keep what other processes rely on.    *)

LEMMA TidyStep ==
    ASSUME TypeOK, \A p \in Procs : Tidy(p), [Next]_vars
    PROVE  \A q \in Procs : Tidy(q)'
<1> SUFFICES ASSUME NEW q \in Procs PROVE Tidy(q)'
  OBVIOUS
<1>0. Tidy(q) /\ None # Check /\ None \notin Identities
      /\ pc \in [Procs -> PCs] /\ op \in [Procs -> Identities \cup {Check, None}]
      /\ must \in [Procs -> SUBSET Slots] /\ seen \in [Procs -> SUBSET Slots]
      /\ probe \in [Procs -> Nat]
  BY IdentityAssumption DEF TypeOK
<1> USE DEF Tidy, disk, local, Goto, PCs, InCall, Setup, Scanning, Owning
<1>1. CASE UNCHANGED vars
  BY <1>0, <1>1 DEF vars
<1>2. ASSUME NEW p \in Procs, NEW what \in Identities \cup {Check},
             Begin(p, what)
      PROVE  Tidy(q)'
  BY <1>0, <1>2 DEF Begin
<1>3. ASSUME NEW p \in Procs, NEW r \in Replies, Answer(p, r), pc[p] # "idle"
      PROVE  Tidy(q)'
  BY <1>0, <1>3 DEF Answer
<1>4. ASSUME NEW p \in Procs, Progress(p)
      PROVE  Tidy(q)'
  <2>1. CASE \/ RejectMalformed(p) \/ MetaRefused(p) \/ Exhausted(p)
             \/ \E i \in Slots : ScanDuplicate(p, i) \/ ScanUnreadable(p, i)
             \/ ScanFull(p) \/ ReportReady(p) \/ LinkDuplicate(p)
             \/ LinkUnreadable(p) \/ VerifyClaim(p) \/ VerifyFails(p)
    BY <2>1, <1>3 DEF RejectMalformed, MetaRefused, Exhausted, ScanDuplicate,
       ScanUnreadable, ScanFull, ReportReady, LinkDuplicate, LinkUnreadable,
       VerifyClaim, VerifyFails, ScanEntry, ScanComplete, TryLink, Probing,
       Replies
  <2>2. CASE \/ Validate(p) \/ MetaFound(p) \/ MetaAbsent(p)
             \/ DirectoryEmpty(p) \/ DirectoryUsed(p) \/ MetaExists(p)
             \/ ProbeLinks(p) \/ Prepare(p) \/ SyncMeta(p) \/ SyncClaim(p)
             \/ PublishMeta(p)
    BY <1>0, <2>2 DEF Validate, MetaFound, MetaAbsent, DirectoryEmpty,
       DirectoryUsed, MetaExists, ProbeLinks, AfterMeta, Step, Prepare,
       SyncMeta, SyncClaim, PublishMeta
  <2>3. CASE OpenDirectory(p) \/ StartProbing(p)
             \/ \E i \in Slots : ScanOther(p, i)
    BY <1>0, <2>3 DEF OpenDirectory, StartProbing, ScanOther, ScanEntry,
       ScanComplete
  <2>4. CASE SkipSeen(p) \/ LinkTaken(p) \/ LinkClaim(p)
    BY <1>0, <2>4 DEF SkipSeen, LinkTaken, LinkClaim, PassOver, TryLink, Probing
  <2> QED
    BY <1>4, <2>1, <2>2, <2>3, <2>4 DEF Progress
<1>5. ASSUME NEW S \in SUBSET Procs, Forget(S)
      PROVE  Tidy(q)'
  BY <1>0, <1>5 DEF Forget
<1>6. ASSUME NEW p \in Procs, IOError(p)
      PROVE  Tidy(q)'
  BY <1>6, <1>3 DEF IOError, Replies
<1>7. CASE PowerLoss
  BY <1>7, <1>5 DEF PowerLoss
<1>8. ASSUME NEW i \in Entries, Damage(i)
      PROVE  Tidy(q)'
  BY <1>0, <1>8 DEF Damage
<1> QED
  BY <1>1, <1>2, <1>4, <1>5, <1>6, <1>7, <1>8 DEF Next, Return, Crash

\* What the invariant says of the claims on disk.
ClaimInv == UniqueRecord /\ AtMostOneGrant /\ GrantIsDurable

LEMMA ClaimsUntouched ==
    ASSUME TypeOK, ClaimInv,
           slot' = slot, granted' = granted, durable \subseteq durable'
    PROVE  ClaimInv'
BY DEF ClaimInv, UniqueRecord, AtMostOneGrant, GrantIsDurable, Linked

\* A step of another process that neither links nor grants a claim.
LEMMA Bystander ==
    ASSUME NEW q \in Procs, ProcInv(q), TypeOK,
           slot' = slot, granted' = granted, durable \subseteq durable',
           meta' = meta \/ meta = 0,
           pc'[q] = pc[q], op'[q] = op[q], must'[q] = must[q],
           seen'[q] = seen[q], probe'[q] = probe[q],
           \A r \in Procs : pc'[r] \in Owning =>
                pc[r] \in Owning /\ op'[r] = op[r]
    PROVE  ProcInv(q)'
<1>1. Tidy(q)'
  BY DEF ProcInv, Tidy
<1>2. Agreed(q)'
  BY CapacityAssumption DEF ProcInv, Agreed
<1>3. SeenTaken(q)' /\ PassedTaken(q)'
  BY DEF ProcInv, SeenTaken, PassedTaken
<1>4. ScanMisses(q)' /\ RecordAhead(q)'
  BY DEF ProcInv, ScanMisses, RecordAhead, Reaches
<1>5. Owns(q)'
  BY DEF ProcInv, Owns, Target
<1> QED
  BY <1>1, <1>2, <1>3, <1>4, <1>5 DEF ProcInv

\* A process outside the scan, the probe loop and the final steps.
LEMMA Outside ==
    ASSUME NEW p \in Procs, Tidy(p)',
           pc'[p] \in {"idle", "answered"} \cup Setup,
           pc'[p] \in {"probeLinks", "open"} => meta' = Capacity[p]
    PROVE  ProcInv(p)'
BY DEF ProcInv, Agreed, SeenTaken, PassedTaken, ScanMisses, RecordAhead, Owns,
       Setup, Owning

\* A step of p that leaves the claims alone preserves the invariant if it
\* preserves p's part of it.
LEMMA QuietStep ==
    ASSUME NEW p \in Procs, IInv, TypeOK', ProcInv(p)',
           slot' = slot, granted' = granted, durable \subseteq durable',
           meta' = meta \/ meta = 0,
           pc' = [pc EXCEPT ![p] = pc'[p]], op' = [op EXCEPT ![p] = op'[p]],
           must' = [must EXCEPT ![p] = must'[p]],
           seen' = [seen EXCEPT ![p] = seen'[p]],
           probe' = [probe EXCEPT ![p] = probe'[p]],
           pc'[p] \in Owning => pc[p] \in Owning /\ op'[p] = op[p]
    PROVE  IInv'
<1>1. \A r \in Procs \ {p} :
         /\ pc'[r] = pc[r] /\ op'[r] = op[r] /\ must'[r] = must[r]
         /\ seen'[r] = seen[r] /\ probe'[r] = probe[r]
  BY DEF IInv, TypeOK
<1>2. ASSUME NEW q \in Procs PROVE ProcInv(q)'
  <2>1. CASE q = p
    BY <2>1
  <2>2. CASE q # p
    <3>1. TypeOK /\ ProcInv(q)
      BY DEF IInv
    <3> QED
      BY <1>1, <2>2, <3>1, Bystander
  <2> QED
    BY <2>1, <2>2
<1>3. ClaimInv'
  BY ClaimsUntouched DEF IInv, ClaimInv
<1> QED
  BY <1>2, <1>3 DEF IInv, ClaimInv

-----------------------------------------------------------------------------
(* One lemma per kind of step.                                             *)

LEMMA AnswerStep ==
    ASSUME NEW p \in Procs, NEW r \in Replies, IInv, TypeOK', Tidy(p)',
           Answer(p, r), UNCHANGED granted
    PROVE  IInv'
<1>1. pc'[p] = "answered"
  BY DEF Answer, Goto, IInv, TypeOK
<1>2. ProcInv(p)'
  BY <1>1, Outside DEF Setup
<1> QED
  BY <1>1, <1>2, QuietStep DEF Answer, Goto, disk, IInv, TypeOK, Owning

\* The steps of a call before it reads the directory, publishing .registry
\* among them: no process relies on the capacity while it is absent.
LEMMA SetupStep ==
    ASSUME NEW p \in Procs, IInv, TypeOK', Tidy(p)',
           \/ Validate(p) \/ Prepare(p) \/ MetaFound(p) \/ MetaAbsent(p)
           \/ DirectoryEmpty(p) \/ DirectoryUsed(p) \/ PublishMeta(p)
           \/ MetaExists(p) \/ SyncMeta(p) \/ ProbeLinks(p)
    PROVE  IInv'
<1> USE DEF Step, Goto, disk
<1>0. pc \in [Procs -> PCs] /\ ProcInv(p)
  BY DEF IInv, TypeOK
<1>1. /\ pc'[p] \in Setup
      /\ pc'[p] \in {"probeLinks", "open"} => meta' = Capacity[p]
      /\ meta' = meta \/ meta = 0
      /\ slot' = slot /\ granted' = granted
      /\ pc' = [pc EXCEPT ![p] = pc'[p]]
      /\ UNCHANGED <<op, must, seen, probe>>
  BY <1>0 DEF Validate, Prepare, MetaFound, MetaValid, AfterMeta, MetaAbsent,
     DirectoryEmpty, DirectoryUsed, PublishMeta, MetaExists, SyncMeta,
     ProbeLinks, Setup, ProcInv, Agreed
<1>2. durable \subseteq durable'
  BY DEF Validate, Prepare, MetaFound, MetaAbsent, DirectoryEmpty,
     DirectoryUsed, PublishMeta, MetaExists, SyncMeta, ProbeLinks
<1>3. ProcInv(p)'
  BY <1>1, Outside
<1> QED
  BY <1>1, <1>2, <1>3, QuietStep DEF IInv, TypeOK, Setup, Owning

LEMMA OpenStep ==
    ASSUME NEW p \in Procs, IInv, TypeOK', Tidy(p)', OpenDirectory(p)
    PROVE  IInv'
<1> USE DEF OpenDirectory, Goto, disk
<1>0. ProcInv(p) /\ TypeOK
  BY DEF IInv
<1>1. Agreed(p)' /\ SeenTaken(p)' /\ PassedTaken(p)' /\ RecordAhead(p)' /\ Owns(p)'
  BY <1>0 DEF TypeOK, ProcInv, Tidy, Setup, Agreed, SeenTaken, PassedTaken,
     RecordAhead, Owns, Owning
<1>2. ScanMisses(p)'
  \* Every record there is was linked when the directory was opened.
  <2>1. \A i \in Slots \ must'[p] : slot[i] = Free
    BY <1>0 DEF TypeOK, Linked
  <2>2. op[p] # Check => op[p] \in Identities /\ op[p] # Free
    BY <1>0, IdentityAssumption DEF ProcInv, Tidy, Free
  <2> QED
    BY <2>1, <2>2 DEF ScanMisses
<1>3. ProcInv(p)'
  BY <1>1, <1>2 DEF ProcInv
<1> QED
  BY <1>0, <1>3, QuietStep DEF TypeOK, Owning

LEMMA ScanStep ==
    ASSUME NEW p \in Procs, IInv, TypeOK', Tidy(p)',
           NEW i \in Slots, ScanOther(p, i)
    PROVE  IInv'
<1> USE DEF ScanOther, ScanEntry, disk
<1>0. ProcInv(p) /\ TypeOK
  BY DEF IInv
<1>1. SeenTaken(p)'
  BY <1>0 DEF TypeOK, ProcInv, SeenTaken, Linked
<1>2. Agreed(p)' /\ PassedTaken(p)' /\ RecordAhead(p)' /\ Owns(p)'
  BY <1>0 DEF TypeOK, ProcInv, Agreed, PassedTaken, RecordAhead, Owns, Owning
<1>3. ScanMisses(p)'
  BY <1>0 DEF TypeOK, ProcInv, ScanMisses, Reaches
<1>4. ProcInv(p)'
  BY <1>1, <1>2, <1>3 DEF ProcInv
<1> QED
  BY <1>0, <1>4, QuietStep DEF TypeOK, Owning

\* The scan is over: any record of p's identity was linked while p read, by a
\* process that had found every earlier slot of the sequence taken.
LEMMA ProbingStarts ==
    ASSUME NEW p \in Procs, IInv, TypeOK', Tidy(p)', StartProbing(p)
    PROVE  IInv'
<1> USE DEF StartProbing, ScanComplete, Goto, disk
<1>0. ProcInv(p) /\ TypeOK /\ pc'[p] = "probe" /\ probe[p] = 0
  BY DEF IInv, TypeOK, ProcInv, Tidy
<1>1. SeenTaken(p)' /\ Agreed(p)' /\ PassedTaken(p)' /\ ScanMisses(p)' /\ Owns(p)'
  BY <1>0 DEF TypeOK, ProcInv, SeenTaken, Agreed, PassedTaken, ScanMisses,
     Owns, Owning
<1>2. RecordAhead(p)'
  <2>1. \A i \in must[p] : slot[i] # op[p]
    BY <1>0 DEF ProcInv, SeenTaken
  <2>2. \A i \in Slots : slot[i] = op[p] =>
            \E k \in probe[p] .. Capacity[p] - 1 :
                Reaches(op[p], Capacity[p], k, i)
    BY <1>0, <2>1 DEF ProcInv, ScanMisses
  <2> QED
    BY <2>2 DEF RecordAhead, Reaches
<1>3. ProcInv(p)'
  BY <1>1, <1>2 DEF ProcInv
<1> QED
  BY <1>0, <1>3, QuietStep DEF TypeOK, Owning

\* p passes over a slot that holds another identity, so a record of its own
\* that was ahead is still ahead.
LEMMA PassStep ==
    ASSUME NEW p \in Procs, IInv, TypeOK', Tidy(p)',
           SkipSeen(p) \/ LinkTaken(p)
    PROVE  IInv'
<1> USE DEF Probing, TryLink, PassOver, disk
<1>0. /\ ProcInv(p) /\ TypeOK /\ pc[p] = "probe" /\ pc' = pc /\ op' = op
      /\ slot' = slot /\ meta' = meta /\ durable' = durable
      /\ granted' = granted /\ must' = must
      /\ op[p] \in Identities /\ probe[p] \in Nat /\ probe'[p] = probe[p] + 1
      /\ Capacity[p] \in Nat
  BY CapacityAssumption DEF IInv, TypeOK, ProcInv, Tidy, SkipSeen, LinkTaken
<1>1. slot[Target(p)] \notin {Free, op[p]}
  BY <1>0 DEF ProcInv, SeenTaken, SkipSeen, LinkTaken
<1>2. SeenTaken(p)'
  BY <1>0, <1>1 DEF TypeOK, ProcInv, SeenTaken, SkipSeen, LinkTaken
<1>3. PassedTaken(p)'
  <2>1. ASSUME NEW j \in 0 .. probe[p]
        PROVE  slot[ProbeSlot(op[p], Capacity[p], j)] \notin {Free, op[p]}
    <3>1. j = probe[p] \/ j \in 0 .. probe[p] - 1
      BY <1>0
    <3> QED
      BY <1>0, <1>1, <3>1 DEF ProcInv, PassedTaken, Target
  <2> QED
    BY <1>0, <2>1 DEF PassedTaken
<1>4. RecordAhead(p)'
  <2>1. ASSUME NEW i \in Slots, slot[i] = op[p]
        PROVE  \E k \in probe[p] + 1 .. Capacity[p] - 1 :
                   Reaches(op[p], Capacity[p], k, i)
    <3>1. PICK k \in probe[p] .. Capacity[p] - 1 :
              Reaches(op[p], Capacity[p], k, i)
      BY <1>0, <2>1 DEF ProcInv, RecordAhead
    <3>2. k # probe[p]
      BY <1>1, <2>1, <3>1 DEF Reaches, Target
    <3>3. k \in probe[p] + 1 .. Capacity[p] - 1
      BY <1>0, <3>1, <3>2
    <3> QED
      BY <3>1, <3>3
  <2> QED
    BY <1>0, <2>1 DEF RecordAhead, Reaches
<1>5. Agreed(p)' /\ ScanMisses(p)' /\ Owns(p)'
  BY <1>0 DEF ProcInv, Agreed, ScanMisses, Owns, Owning
<1>6. ProcInv(p)'
  BY <1>2, <1>3, <1>4, <1>5 DEF ProcInv
<1>7. seen' = [seen EXCEPT ![p] = seen'[p]] /\ probe' = [probe EXCEPT ![p] = probe'[p]]
  BY <1>0 DEF TypeOK, SkipSeen, LinkTaken
<1> QED
  BY <1>0, <1>6, <1>7, QuietStep DEF TypeOK, Owning

LEMMA SyncStep ==
    ASSUME NEW p \in Procs, IInv, TypeOK', Tidy(p)', SyncClaim(p)
    PROVE  IInv'
<1> USE DEF SyncClaim, Step, Goto
<1>0. /\ ProcInv(p) /\ TypeOK /\ pc[p] = "syncClaim" /\ pc'[p] = "verify"
      /\ op' = op /\ slot' = slot /\ meta' = meta /\ granted' = granted
      /\ probe' = probe /\ op[p] \in Identities /\ op[p] # Free
      /\ Target(p) \in Slots
  BY IdentityAssumption, ProbeSlotType DEF IInv, TypeOK, ProcInv, Tidy, Owning,
     Free, Target
<1>1. Agreed(p)' /\ SeenTaken(p)' /\ PassedTaken(p)' /\ ScanMisses(p)'
      /\ RecordAhead(p)'
  BY <1>0 DEF ProcInv, Agreed, SeenTaken, PassedTaken, ScanMisses,
     RecordAhead, Owning
<1>2. slot[Target(p)] = op[p] /\ granted[op[p]] = 0
      /\ \A q \in Procs \ {p} : pc[q] \in Owning => op[q] # op[p]
  BY <1>0 DEF ProcInv, Owns, Owning
<1>3. Target(p) \in durable'
  BY <1>0, <1>2 DEF Present, Linked
<1>4. Owns(p)'
  BY <1>0, <1>2, <1>3 DEF Owns, Target, TypeOK
<1>5. ProcInv(p)'
  BY <1>1, <1>4 DEF ProcInv
<1> QED
  BY <1>0, <1>5, QuietStep DEF TypeOK, Owning

\* The heart of the matter: the slot p links is free, so no record of its
\* identity can exist: it would lie ahead, behind no free slot.
LEMMA NoOtherRecord ==
    ASSUME NEW p \in Procs, IInv, LinkClaim(p)
    PROVE  \A i \in Slots : slot[i] # op[p]
<1> SUFFICES ASSUME NEW i \in Slots, slot[i] = op[p] PROVE FALSE
  OBVIOUS
<1>0. ProcInv(p) /\ TypeOK /\ pc[p] = "probe" /\ op[p] \in Identities
      /\ op[p] # Free /\ probe[p] \in Nat /\ Capacity[p] \in Nat
  BY CapacityAssumption, IdentityAssumption
     DEF IInv, TypeOK, ProcInv, Tidy, LinkClaim, TryLink, Probing, Free
<1>1. slot[Target(p)] = Free
  BY DEF LinkClaim
<1>2. PICK k \in probe[p] .. Capacity[p] - 1 :
          Reaches(op[p], Capacity[p], k, i)
  BY <1>0 DEF ProcInv, RecordAhead
<1>3. CASE k = probe[p]
  BY <1>0, <1>1, <1>2, <1>3 DEF Reaches, Target
<1>4. CASE k > probe[p]
  <2>1. probe[p] \in 0 .. k - 1
    BY <1>0, <1>2, <1>4
  <2> QED
    BY <1>1, <1>2, <2>1 DEF Reaches, Target
<1> QED
  BY <1>0, <1>2, <1>3, <1>4

LEMMA LinkStep ==
    ASSUME NEW p \in Procs, IInv, TypeOK', \A q \in Procs : Tidy(q)',
           LinkClaim(p)
    PROVE  IInv'
<1> DEFINE t == Target(p)
           x == op[p]
<1>1. ProcInv(p) /\ TypeOK
  BY DEF IInv
<1>2. /\ pc[p] = "probe" /\ probe[p] < Capacity[p]
      /\ slot[t] = Free
      /\ slot' = [slot EXCEPT ![t] = x] /\ pc' = [pc EXCEPT ![p] = "syncClaim"]
      /\ UNCHANGED <<meta, durable, torn, op, must, seen, probe, reply, granted>>
  BY DEF LinkClaim, TryLink, Probing, Goto
<1>3. /\ x \in Identities /\ x # Free /\ x # Check
      /\ probe[p] \in Nat /\ Capacity[p] \in Nat
  <2>1. x \in Identities
    BY <1>1, <1>2 DEF ProcInv, Tidy
  <2>2. probe[p] \in Nat /\ Capacity[p] \in Nat
    BY <1>1, CapacityAssumption DEF TypeOK
  <2> QED
    BY <2>1, <2>2, IdentityAssumption DEF Free
<1>4. t \in Slots
  BY <1>3, ProbeSlotType DEF Target
<1>5. ProcInv(p) /\ TypeOK /\ t \in Slots
  BY <1>4, <1>1
<1>6. \A i \in Slots : slot[i] # x
  BY NoOtherRecord
<1>7. \A i \in Slots : slot'[i] = IF i = t THEN x ELSE slot[i]
  BY <1>5, <1>2 DEF TypeOK
<1>8. \A r \in Procs \ {p} : pc'[r] = pc[r]
  BY <1>5, <1>2, <1>3 DEF TypeOK
<1>9. pc'[p] = "syncClaim"
  BY <1>5, <1>2, <1>3 DEF TypeOK
<1> HIDE DEF t, x
<1>10. ASSUME NEW q \in Procs, pc[q] \in Owning
      PROVE  op[q] # x /\ Target(q) \in Slots /\ Target(q) # t
  <2>1. op[q] \in Identities /\ op[q] # Free /\ slot[Target(q)] = op[q]
    BY <1>10, IdentityAssumption DEF IInv, ProcInv, Tidy, Owns, Owning, Free
  <2>2. Target(q) \in Slots
    BY <2>1, ProbeSlotType DEF IInv, TypeOK, Target
  <2> QED
    BY <1>5, <1>2, <1>3, <1>6, <2>1, <2>2
<1>11. ASSUME NEW q \in Procs, NEW k \in Nat, NEW i \in Slots, op[q] \in Identities,
             Reaches(op[q], Capacity[q], k, i)
      PROVE  Reaches(op[q], Capacity[q], k, i)'
  <2>1. \A j \in 0 .. k - 1 : ProbeSlot(op[q], Capacity[q], j) \in Slots
    BY <1>11, ProbeSlotType
  <2> QED
    BY <1>5, <1>2, <1>3, <1>7, <1>11, <2>1 DEF Reaches
<1>12. ASSUME NEW q \in Procs, op[q] = x, Capacity[q] = Capacity[p],
             NEW k \in Nat, k = probe[p], NEW i \in Slots, i = t
      PROVE  Reaches(op[q], Capacity[q], k, i)'
  <2>1. \A j \in 0 .. probe[p] - 1 :
            /\ ProbeSlot(x, Capacity[p], j) \in Slots
            /\ slot[ProbeSlot(x, Capacity[p], j)] # Free
    BY <1>5, <1>2, <1>3, ProbeSlotType DEF ProcInv, PassedTaken, x
  <2> QED
    BY <1>5, <1>2, <1>3, <1>7, <1>12, <2>1 DEF Reaches, t, x, Target
<1>13. ASSUME NEW q \in Procs, q # p
      PROVE  ProcInv(q)'
  <2>0. ProcInv(q) /\ pc'[q] = pc[q] /\ op[q] \in Identities \cup {Check, None}
        /\ probe[q] \in Nat /\ Capacity[q] \in Nat
        /\ seen[q] \subseteq Slots
    BY <1>8, <1>13, CapacityAssumption DEF IInv, TypeOK
  <2>1. Agreed(q)'
    BY <1>5, <1>2, <1>3, <2>0 DEF ProcInv, Agreed
  <2>2. SeenTaken(q)'
    BY <1>5, <1>2, <1>3, <1>7, <2>0 DEF ProcInv, SeenTaken
  <2>3. PassedTaken(q)'
    <3> SUFFICES ASSUME pc[q] = "probe", NEW j \in 0 .. probe[q] - 1
                 PROVE  slot'[ProbeSlot(op[q], Capacity[q], j)] \notin {Free, op[q]}
      BY <1>5, <1>2, <1>3, <2>0 DEF PassedTaken
    <3>1. op[q] \in Identities
      BY <2>0 DEF ProcInv, Tidy
    <3>2. ProbeSlot(op[q], Capacity[q], j) \in Slots
      BY <2>0, <3>1, ProbeSlotType
    <3> QED
      BY <1>5, <1>2, <1>3, <1>7, <2>0, <3>2 DEF ProcInv, PassedTaken
  <2>4. ScanMisses(q)'
    <3> SUFFICES ASSUME pc[q] = "scan", op[q] # Check,
                        NEW i \in Slots \ must[q], slot'[i] = op[q]
                 PROVE  \E k \in 0 .. Capacity[q] - 1 :
                            Reaches(op[q], Capacity[q], k, i)'
      BY <1>5, <1>2, <1>3, <2>0 DEF ScanMisses, Reaches
    <3>1. op[q] \in Identities
      BY <2>0 DEF ProcInv, Tidy
    <3>2. CASE i = t
      <4>1. op[q] = x /\ Capacity[q] = Capacity[p]
        BY <1>5, <1>2, <1>3, <1>7, <2>0, <3>2 DEF ProcInv, Agreed
      <4>2. probe[p] \in 0 .. Capacity[q] - 1
        BY <1>5, <1>2, <1>3, <4>1
      <4> QED
        BY <1>5, <1>2, <1>3, <1>12, <3>2, <4>1, <4>2
    <3>3. CASE i # t
      BY <1>7, <1>11, <2>0, <3>1, <3>3 DEF ProcInv, ScanMisses
    <3> QED
      BY <3>2, <3>3
  <2>5. RecordAhead(q)'
    <3> SUFFICES ASSUME pc[q] = "probe", NEW i \in Slots, slot'[i] = op[q]
                 PROVE  \E k \in probe[q] .. Capacity[q] - 1 :
                            Reaches(op[q], Capacity[q], k, i)'
      BY <1>5, <1>2, <1>3, <2>0 DEF RecordAhead, Reaches
    <3>1. op[q] \in Identities
      BY <2>0 DEF ProcInv, Tidy
    <3>2. CASE i = t
      <4>1. op[q] = x /\ Capacity[q] = Capacity[p]
        BY <1>5, <1>2, <1>3, <1>7, <2>0, <3>2 DEF ProcInv, Agreed
      <4>2. ~(probe[p] < probe[q])
        \* q would have passed over the free slot t.
        <5> SUFFICES ASSUME probe[p] < probe[q] PROVE FALSE
          OBVIOUS
        <5>1. probe[p] \in 0 .. probe[q] - 1
          BY <1>5, <1>2, <1>3, <2>0
        <5> QED
          BY <1>5, <1>2, <1>3, <2>0, <4>1, <5>1 DEF ProcInv, PassedTaken, t, x, Target
      <4>3. probe[p] \in probe[q] .. Capacity[q] - 1
        BY <1>5, <1>2, <1>3, <2>0, <4>1, <4>2
      <4> QED
        BY <1>5, <1>2, <1>3, <1>12, <3>2, <4>1, <4>3
    <3>3. CASE i # t
      <4>1. PICK k \in probe[q] .. Capacity[q] - 1 :
                Reaches(op[q], Capacity[q], k, i)
        BY <1>7, <2>0, <3>3 DEF ProcInv, RecordAhead
      <4>2. k \in Nat
        BY <2>0
      <4> QED
        BY <1>11, <3>1, <4>1, <4>2
    <3> QED
      BY <3>2, <3>3
  <2>6. Owns(q)'
    <3> SUFFICES ASSUME pc[q] \in Owning PROVE Owns(q)'
      BY <2>0 DEF Owns
    <3>1. op[q] # x /\ Target(q) \in Slots /\ Target(q) # t
      BY <1>10
    <3> QED
      BY <1>5, <1>2, <1>3, <1>7, <1>8, <2>0, <3>1 DEF ProcInv, Owns, Target, x
  <2> QED
    BY <2>1, <2>2, <2>3, <2>4, <2>5, <2>6 DEF ProcInv
<1>14. ProcInv(p)'
  <2>1. Agreed(p)' /\ SeenTaken(p)' /\ PassedTaken(p)' /\ ScanMisses(p)'
        /\ RecordAhead(p)'
    BY <1>5, <1>2, <1>3, <1>9 DEF ProcInv, Agreed, SeenTaken, PassedTaken, ScanMisses,
       RecordAhead, Owning
  <2>2. granted[x] = 0
    BY <1>5, <1>2, <1>3, <1>6 DEF IInv, TypeOK, GrantIsDurable, Linked
  <2>3. Owns(p)'
    BY <1>5, <1>2, <1>3, <1>7, <1>8, <1>9, <1>10, <2>2 DEF Owns, Target, t, x
  <2> QED
    BY <2>1, <2>3 DEF ProcInv
<1>15. ClaimInv'
  <2>1. UniqueRecord'
    BY <1>5, <1>2, <1>3, <1>6, <1>7 DEF IInv, UniqueRecord, Linked
  <2>2. AtMostOneGrant' /\ GrantIsDurable'
    BY <1>5, <1>2, <1>3, <1>7 DEF IInv, AtMostOneGrant, GrantIsDurable, Linked
  <2> QED
    BY <2>1, <2>2 DEF ClaimInv
<1> QED
  BY <1>13, <1>14, <1>15 DEF IInv, ClaimInv

LEMMA GrantStep ==
    ASSUME NEW p \in Procs, IInv, TypeOK', \A q \in Procs : Tidy(q)',
           VerifyClaim(p)
    PROVE  IInv'
<1> DEFINE x == op[p]
<1>1. /\ TypeOK /\ ProcInv(p) /\ pc[p] = "verify"
      /\ pc' = [pc EXCEPT ![p] = "answered"]
      /\ granted' = [granted EXCEPT ![x] = @ + 1]
      /\ UNCHANGED <<slot, meta, durable, torn, op, must, seen, probe>>
  BY DEF IInv, VerifyClaim, Answer, Goto, disk
<1>2. x \in Identities /\ x # Free
  BY <1>1, IdentityAssumption DEF ProcInv, Tidy, Owning, Free
<1>3. /\ slot[Target(p)] = x /\ granted[x] = 0 /\ Target(p) \in durable
      /\ \A q \in Procs \ {p} : pc[q] \in Owning => op[q] # x
  BY <1>1 DEF ProcInv, Owns, Owning
<1>4. Target(p) \in Slots
  BY <1>1, <1>2, ProbeSlotType DEF Target, TypeOK
<1>5. \A id \in Identities : granted'[id] = IF id = x THEN 1 ELSE granted[id]
  BY <1>1, <1>2, <1>3 DEF TypeOK
<1>6. \A q \in Procs : pc'[q] = IF q = p THEN "answered" ELSE pc[q]
  BY <1>1 DEF TypeOK
<1> HIDE DEF x
<1>7. ClaimInv'
  <2>1. UniqueRecord' /\ AtMostOneGrant'
    BY <1>1, <1>5 DEF IInv, UniqueRecord, AtMostOneGrant, Linked
  <2>2. ASSUME NEW id \in Identities, granted'[id] > 0
        PROVE  \E i \in Linked \cap durable : slot[i] = id
    <3>1. CASE id = x
      BY <1>2, <1>3, <1>4, <3>1 DEF Linked
    <3>2. CASE id # x
      BY <1>5, <2>2, <3>2 DEF IInv, GrantIsDurable
    <3> QED
      BY <3>1, <3>2
  <2>3. GrantIsDurable'
    BY <1>1, <2>2 DEF GrantIsDurable, Linked
  <2> QED
    BY <2>1, <2>3 DEF ClaimInv
<1>8. ASSUME NEW q \in Procs
      PROVE  ProcInv(q)'
  <2>1. CASE q = p
    BY <1>6, <2>1, Outside DEF Setup
  <2>2. CASE q # p
    <3>1. ProcInv(q) /\ pc'[q] = pc[q]
      BY <1>6, <2>2 DEF IInv
    <3>2. Agreed(q)' /\ SeenTaken(q)' /\ PassedTaken(q)' /\ ScanMisses(q)'
          /\ RecordAhead(q)'
      BY <1>1, <3>1 DEF ProcInv, Agreed, SeenTaken, PassedTaken, ScanMisses,
         RecordAhead, Reaches
    <3>3. Owns(q)'
      <4> SUFFICES ASSUME pc[q] \in Owning PROVE Owns(q)'
        BY <3>1 DEF Owns
      <4>1. op[q] \in Identities /\ op[q] # x
        BY <1>3, <2>2, <3>1 DEF ProcInv, Tidy
      <4>2. granted'[op[q]] = 0
        BY <1>5, <3>1, <4>1 DEF ProcInv, Owns
      <4>3. \A r \in Procs : pc'[r] \in Owning => pc[r] \in Owning
        BY <1>6 DEF Owning
      <4> QED
        BY <1>1, <3>1, <4>2, <4>3 DEF ProcInv, Owns, Target
    <3> QED
      BY <3>1, <3>2, <3>3 DEF ProcInv
  <2> QED
    BY <2>1, <2>2
<1> QED
  BY <1>7, <1>8 DEF IInv, ClaimInv

LEMMA BeginStep ==
    ASSUME NEW p \in Procs, NEW what \in Identities \cup {Check},
           IInv, TypeOK', Tidy(p)', Begin(p, what)
    PROVE  IInv'
<1>1. pc'[p] = "validate" /\ TypeOK
  BY DEF IInv, TypeOK, Begin, Goto
<1>2. ProcInv(p)'
  BY <1>1, Outside DEF Setup
<1> QED
  BY <1>1, <1>2, QuietStep DEF Begin, Goto, disk, TypeOK, Owning

LEMMA ForgetStep ==
    ASSUME NEW p \in Procs, IInv, TypeOK', Tidy(p)', Forget({p}), UNCHANGED disk
    PROVE  IInv'
<1>1. TypeOK /\ pc'[p] = "idle"
  BY DEF IInv, Forget
<1>2. ProcInv(p)'
  BY <1>1, Outside
<1> QED
  BY <1>1, <1>2, QuietStep DEF Forget, disk, TypeOK, Owning

LEMMA PowerLossStep ==
    ASSUME IInv, TypeOK', \A q \in Procs : Tidy(q)', PowerLoss
    PROVE  IInv'
<1>1. \A q \in Procs : pc'[q] = "idle"
  BY DEF PowerLoss, Forget
<1>2. \A q \in Procs : ProcInv(q)'
  BY <1>1, Outside
<1>3. PICK kept \in SUBSET Present :
          /\ Present \cap durable \subseteq kept
          /\ slot' = [i \in Slots |-> IF i \in kept THEN slot[i] ELSE Free]
          /\ durable' = kept
          /\ granted' = granted
  BY DEF PowerLoss, Forget
<1>4. UniqueRecord' /\ AtMostOneGrant'
  BY <1>3 DEF IInv, UniqueRecord, AtMostOneGrant, Linked
<1>5. GrantIsDurable'
  <2> SUFFICES ASSUME NEW id \in Identities, granted[id] > 0
               PROVE  \E i \in Linked' \cap durable' : slot'[i] = id
    BY <1>3 DEF GrantIsDurable
  <2>1. PICK i \in Linked \cap durable : slot[i] = id
    BY DEF IInv, GrantIsDurable
  <2>2. i \in Slots /\ i \in kept
    BY <1>3, <2>1 DEF Present, Linked
  <2> QED
    BY <1>3, <2>1, <2>2 DEF Linked
<1> QED
  BY <1>2, <1>4, <1>5 DEF IInv

LEMMA DamageStep ==
    ASSUME IInv, TypeOK', NEW e \in Entries, Damage(e)
    PROVE  IInv'
<1>1. UNCHANGED <<slot, meta, durable, local, granted>>
  BY DEF Damage
<1>2. ASSUME NEW q \in Procs PROVE ProcInv(q)'
  BY <1>1, <1>2, Bystander DEF IInv, local
<1>3. ClaimInv'
  BY <1>1, ClaimsUntouched DEF IInv, ClaimInv
<1> QED
  BY <1>2, <1>3 DEF IInv, ClaimInv

-----------------------------------------------------------------------------
LEMMA IInvInit == Init => IInv
<1> SUFFICES ASSUME Init PROVE IInv
  OBVIOUS
<1>1. TypeOK
  BY TypeInit
<1>2. UniqueRecord /\ AtMostOneGrant /\ GrantIsDurable
  BY DEF Init, UniqueRecord, AtMostOneGrant, GrantIsDurable, Linked
<1>3. \A p \in Procs : ProcInv(p)
  BY DEF Init, ProcInv, Tidy, Agreed, SeenTaken, PassedTaken, ScanMisses,
     RecordAhead, Owns, Owning
<1> QED
  BY <1>1, <1>2, <1>3 DEF IInv

LEMMA IInvStep == IInv /\ [Next]_vars => IInv'
<1> SUFFICES ASSUME IInv, [Next]_vars PROVE IInv'
  OBVIOUS
<1>1. TypeOK /\ \A p \in Procs : Tidy(p)
  BY DEF IInv, ProcInv
<1>2. TypeOK' /\ \A q \in Procs : Tidy(q)'
  BY <1>1, TypeStep, TidyStep
<1>3. CASE UNCHANGED vars
  <2>1. UNCHANGED <<slot, meta, durable, torn, pc, op, must, seen, probe, reply,
                    granted>>
    BY <1>3 DEF vars, disk, local
  <2>2. ASSUME NEW q \in Procs PROVE ProcInv(q)'
    BY <1>1, <2>1, Bystander DEF IInv
  <2>3. ClaimInv'
    BY <1>1, <2>1, ClaimsUntouched DEF IInv, ClaimInv
  <2> QED
    BY <1>2, <2>2, <2>3 DEF IInv, ClaimInv
<1>4. ASSUME NEW p \in Procs, Progress(p)
      PROVE  IInv'
  <2>1. CASE \/ RejectMalformed(p) \/ MetaRefused(p) \/ Exhausted(p)
             \/ \E i \in Slots : ScanDuplicate(p, i) \/ ScanUnreadable(p, i)
             \/ ScanFull(p) \/ ReportReady(p) \/ LinkDuplicate(p)
             \/ LinkUnreadable(p) \/ VerifyFails(p)
    BY <1>2, <2>1, AnswerStep DEF RejectMalformed, MetaRefused, Exhausted,
       ScanDuplicate, ScanUnreadable, ScanFull, ReportReady, LinkDuplicate,
       LinkUnreadable, VerifyFails, Replies
  <2>2. CASE \/ Validate(p) \/ Prepare(p) \/ MetaFound(p) \/ MetaAbsent(p)
             \/ DirectoryEmpty(p) \/ DirectoryUsed(p) \/ PublishMeta(p)
             \/ MetaExists(p) \/ SyncMeta(p) \/ ProbeLinks(p)
    BY <1>2, <2>2, SetupStep
  <2>3. CASE OpenDirectory(p)
    BY <1>2, <2>3, OpenStep
  <2>4. CASE \E i \in Slots : ScanOther(p, i)
    BY <1>2, <2>4, ScanStep
  <2>5. CASE StartProbing(p)
    BY <1>2, <2>5, ProbingStarts
  <2>6. CASE SkipSeen(p) \/ LinkTaken(p)
    BY <1>2, <2>6, PassStep
  <2>7. CASE LinkClaim(p)
    BY <1>2, <2>7, LinkStep
  <2>8. CASE SyncClaim(p)
    BY <1>2, <2>8, SyncStep
  <2>9. CASE VerifyClaim(p)
    BY <1>2, <2>9, GrantStep
  <2> QED
    BY <1>4, <2>1, <2>2, <2>3, <2>4, <2>5, <2>6, <2>7, <2>8, <2>9 DEF Progress
<1>5. ASSUME NEW p \in Procs, NEW what \in Identities \cup {Check}, Begin(p, what)
      PROVE  IInv'
  BY <1>2, <1>5, BeginStep
<1>6. ASSUME NEW p \in Procs, Return(p) \/ Crash(p)
      PROVE  IInv'
  BY <1>2, <1>6, ForgetStep DEF Return, Crash
<1>7. ASSUME NEW p \in Procs, IOError(p)
      PROVE  IInv'
  BY <1>2, <1>7, AnswerStep DEF IOError, Replies
<1>8. CASE PowerLoss
  BY <1>2, <1>8, PowerLossStep
<1>9. ASSUME NEW e \in Entries, Damage(e)
      PROVE  IInv'
  BY <1>2, <1>9, DamageStep
<1> QED
  BY <1>3, <1>4, <1>5, <1>6, <1>7, <1>8, <1>9 DEF Next

\* The inductive invariant holds in every reachable state of any number of
\* processes claiming any identities in a table of any size.
THEOREM Invariance == Spec => []IInv
<1>1. Init => IInv
  BY IInvInit
<1>2. IInv /\ [Next]_vars => IInv'
  BY IInvStep
<1> QED
  BY <1>1, <1>2, PTL DEF Spec

\* Every variable keeps its type: no step of claim() or checkReady() leaves
\* the directory or a call in a shape the code does not expect.
THEOREM TypeCorrect == Spec => []TypeOK
<1>1. IInv => TypeOK
  BY DEF IInv
<1> QED
  BY <1>1, Invariance, PTL

\* claim() answers "claimed" at most once per proposal identity, for any number
\* of processes, crashes and power failures.
THEOREM ClaimedAtMostOnce == Spec => []AtMostOneGrant
<1>1. IInv => AtMostOneGrant
  BY DEF IInv
<1> QED
  BY <1>1, Invariance, PTL

\* No identity is ever stored in two slots, whatever the table's size and the
\* digests' collisions.
THEOREM RecordedAtMostOnce == Spec => []UniqueRecord
<1>1. IInv => UniqueRecord
  BY DEF IInv
<1> QED
  BY <1>1, Invariance, PTL

\* A claim that was answered "claimed" survives every later power failure.
THEOREM GrantsSurvivePowerLoss == Spec => []GrantIsDurable
<1>1. IInv => GrantIsDurable
  BY DEF IInv
<1> QED
  BY <1>1, Invariance, PTL

-----------------------------------------------------------------------------
(* How a step may change the directory.                                    *)

LEMMA DiskStep ==
    ASSUME IInv, [Next]_vars
    PROVE  \/ UNCHANGED <<slot, meta>>
           \/ PowerLoss
           \/ \E p \in Procs : PublishMeta(p)
           \/ \E p \in Procs : LinkClaim(p)
<1> USE DEF disk
<1>1. CASE UNCHANGED vars
  BY <1>1 DEF vars
<1>2. ASSUME NEW p \in Procs, Progress(p), ~PublishMeta(p), ~LinkClaim(p)
      PROVE  UNCHANGED <<slot, meta>>
  BY <1>2 DEF Progress, Validate, RejectMalformed, Prepare, MetaFound,
     MetaRefused, MetaAbsent, DirectoryEmpty, DirectoryUsed, MetaExists,
     SyncMeta, ProbeLinks, OpenDirectory, ScanOther, ScanDuplicate,
     ScanUnreadable, ScanFull, ReportReady, StartProbing, SkipSeen, LinkTaken,
     LinkDuplicate, LinkUnreadable, Exhausted, SyncClaim, VerifyClaim,
     VerifyFails, Answer, PassOver
<1>3. ASSUME NEW p \in Procs, NEW what \in Identities \cup {Check},
             Begin(p, what) \/ Return(p) \/ IOError(p) \/ Crash(p)
      PROVE  UNCHANGED <<slot, meta>>
  BY <1>3 DEF Begin, Return, IOError, Crash, Answer
<1>4. ASSUME NEW e \in Entries, Damage(e)
      PROVE  UNCHANGED <<slot, meta>>
  BY <1>4 DEF Damage
<1> QED
  BY <1>1, <1>2, <1>3, <1>4 DEF Next

\* No step of any process replaces a claim, and only a power failure removes
\* one, which then had never been synchronized.
THEOREM ClaimsNeverReplaced == Spec => ClaimsArePermanent
<1> DEFINE Kept == \A i \in Linked :
                      slot'[i] = slot[i] \/ (slot'[i] = Free /\ i \notin durable)
<1>1. IInv /\ [Next]_vars => Kept
  <2> SUFFICES ASSUME IInv, [Next]_vars PROVE Kept
    OBVIOUS
  <2>1. CASE UNCHANGED <<slot, meta>>
    BY <2>1
  <2>2. CASE PowerLoss
    BY <2>2 DEF PowerLoss, Present, Linked
  <2>3. CASE \E p \in Procs : PublishMeta(p)
    BY <2>3 DEF PublishMeta
  <2>4. CASE \E p \in Procs : LinkClaim(p)
    BY <2>4 DEF LinkClaim, Linked, IInv, TypeOK
  <2> QED
    BY <2>1, <2>2, <2>3, <2>4, DiskStep
<1>2. Spec => [][Kept]_vars
  BY <1>1, Invariance, PTL DEF Spec
<1> QED
  BY <1>2 DEF ClaimsArePermanent

\* A process about to publish .registry saw an empty directory, and only a
\* process that found .registry can have linked a claim since.
MetaFirst ==
    \A p \in Procs : pc[p] = "publishMeta" /\ meta = 0 => Linked = {}

CapacityInv == OneCapacity /\ MetaFirst

LEMMA CapacityStep ==
    ASSUME IInv, IInv', CapacityInv, [Next]_vars
    PROVE  CapacityInv'
<1>1. \A p \in Procs : pc'[p] \in {"open", "scan", "probe"} \cup Owning
                          => meta' = Capacity[p]
  BY DEF IInv, ProcInv, Agreed
<1>2. CASE UNCHANGED <<slot, meta>>
  <2>1. ASSUME NEW p \in Procs, pc'[p] = "publishMeta", meta = 0
        PROVE  Linked = {}
    <3>1. pc[p] = "publishMeta" \/ Present = {}
      BY <2>1 DEF IInv, TypeOK, Next, vars, local, disk, Begin, Progress, Validate,
         RejectMalformed, Prepare, MetaFound, MetaRefused, MetaAbsent,
         DirectoryEmpty, DirectoryUsed, PublishMeta, MetaExists, SyncMeta,
         ProbeLinks, OpenDirectory, ScanOther, ScanDuplicate, ScanUnreadable,
         ScanFull, ReportReady, StartProbing, SkipSeen, LinkClaim, LinkTaken,
         LinkDuplicate, LinkUnreadable, Exhausted, SyncClaim, VerifyClaim,
         VerifyFails, Return, IOError, Crash, PowerLoss, Damage, Answer,
         PassOver, Step, Goto, Forget, AfterMeta
    <3> QED
      BY <2>1, <3>1 DEF CapacityInv, MetaFirst, Present
  <2> QED
    BY <1>1, <1>2, <2>1 DEF CapacityInv, OneCapacity, MetaFirst, Linked
<1>3. CASE PowerLoss
  <2>1. \A p \in Procs : pc'[p] = "idle"
    BY <1>3 DEF PowerLoss, Forget
  <2>2. meta' # 0 => meta' = meta /\ Linked' \subseteq Linked
    BY <1>3 DEF PowerLoss, Linked
  <2> QED
    BY <1>1, <2>1, <2>2 DEF CapacityInv, OneCapacity, MetaFirst
<1>4. ASSUME NEW p \in Procs, PublishMeta(p)
      PROVE  CapacityInv'
  <2>1. Linked' = {} /\ meta' # 0
    BY <1>4, CapacityAssumption DEF PublishMeta, Step, CapacityInv, MetaFirst, Linked
  <2> QED
    BY <1>1, <2>1 DEF CapacityInv, OneCapacity, MetaFirst
<1>5. ASSUME NEW p \in Procs, LinkClaim(p)
      PROVE  CapacityInv'
  <2>1. /\ TypeOK /\ op[p] \in Identities /\ probe[p] \in Nat
        /\ meta = Capacity[p] /\ meta' = meta /\ meta # 0
    BY <1>5, CapacityAssumption DEF IInv, ProcInv, Tidy, Agreed, TypeOK,
       LinkClaim, TryLink, Probing
  <2>2. Target(p) \in 0 .. meta - 1
    BY <2>1, ProbeSlotType DEF Target
  <2>3. Linked' \subseteq Linked \cup {Target(p)}
    BY <1>5, <2>1 DEF LinkClaim, Linked, TypeOK
  <2> QED
    BY <1>1, <2>1, <2>2, <2>3 DEF CapacityInv, OneCapacity, MetaFirst, TypeOK
<1> QED
  BY <1>2, <1>3, <1>4, <1>5, DiskStep

\* Processes built with different capacities never share a table of claims.
THEOREM CapacityAgreed == Spec => []OneCapacity
<1>1. Init => CapacityInv
  BY DEF Init, CapacityInv, OneCapacity, MetaFirst, Linked, Owning
<1>2. IInv /\ IInv' /\ CapacityInv /\ [Next]_vars => CapacityInv'
  BY CapacityStep
<1>3. CapacityInv => OneCapacity
  BY DEF CapacityInv
<1> QED
  BY <1>1, <1>2, <1>3, Invariance, PTL DEF Spec

-----------------------------------------------------------------------------
(***************************************************************************)
(* The directory protocol implements the atomic registry, for any          *)
(* processes, identities, capacities and damage: the link is the moment a  *)
(* claim takes effect, and every other call of the file system is a        *)
(* stutter or the answer.                                                  *)
(*                                                                         *)
(* What is hard is the answer "capacity_exceeded": the prober counted      *)
(* slots on a stale listing, and the atomic registry counts identities at  *)
(* the moment of the answer.  Both agree because an occupied slot stays    *)
(* occupied by what it holds, no identity holds two slots (UniqueRecord),  *)
(* and no slot beyond the common capacity is used (OneCapacity).           *)
(***************************************************************************)

\* A call has no reply before its answer; afterwards the answer is still the
\* one the atomic registry would give, and the claims counted are still there.
AnswerInv ==
    \A p \in Procs :
        /\ pc[p] # "answered" => reply[p] = "none"
        /\ pc[p] = "answered" /\ op[p] # Check => reply[p] \notin {"none", "ready"}
        /\ pc[p] = "answered" /\ op[p] # Check /\ reply[p] = "claimed" =>
              op[p] \in Recorded /\ meta = Capacity[p]
        /\ pc[p] = "answered" /\ op[p] # Check /\ reply[p] = "duplicate" => op[p] \in Recorded
        /\ pc[p] = "answered" /\ op[p] # Check /\ reply[p] = "capacity_exceeded" =>
              /\ op[p] \notin Recorded /\ meta = Capacity[p]
              /\ Cardinality(Recorded) >= Capacity[p]

RInv == IInv /\ CapacityInv /\ AnswerInv /\ ReadinessBracketed

-----------------------------------------------------------------------------
(* Counting.                                                               *)

\* The instance counts as this module does.
LEMMA SameCount ==
    ASSUME NEW S
    PROVE  Memory!Cardinality(S) = Cardinality(S)
BY DEF Memory!Cardinality, Cardinality

LEMMA MemoryAnswer ==
    ASSUME NEW held, NEW id, NEW size
    PROVE  Memory!MemoryReply(held, id, size) =
               IF id \in held THEN "duplicate"
               ELSE IF Cardinality(held) >= size THEN "capacity_exceeded" ELSE "claimed"
BY SameCount DEF Memory!MemoryReply

\* As many identities are recorded as slots are linked.
LEMMA RecordedCount ==
    ASSUME IInv
    PROVE  /\ IsFiniteSet(Linked) /\ IsFiniteSet(Recorded)
           /\ Cardinality(Recorded) = Cardinality(Linked)
<1>1. IsFiniteSet(Slots)
    BY FS_Interval, CapacityAssumption DEF Slots
<1>2. IsFiniteSet(Linked)
    BY <1>1, FS_Subset DEF Linked
<1> DEFINE f == [i \in Linked |-> slot[i]]
<1>3. f \in Injection(Linked, Recorded)
    BY DEF Injection, IsInjective, IInv, UniqueRecord, Recorded
<1>4. f \in Surjection(Linked, Recorded)
    BY DEF Surjection, Recorded
<1>5. ExistsBijection(Linked, Recorded)
    BY <1>3, <1>4 DEF ExistsBijection, Bijection
<1> QED
    BY <1>2, <1>5, FS_Bijection

\* The table of a process that has agreed on the capacity.
LEMMA TableSize ==
    ASSUME IInv, OneCapacity, NEW p \in Procs, meta = Capacity[p]
    PROVE  /\ Linked \subseteq 0 .. Capacity[p] - 1
           /\ IsFiniteSet(0 .. Capacity[p] - 1)
           /\ Cardinality(0 .. Capacity[p] - 1) = Capacity[p]
<1>1. Capacity[p] \in Nat \ {0}
    BY CapacityAssumption
<1>2. \A i \in Linked : i \in Nat /\ i < Capacity[p]
    BY <1>1 DEF OneCapacity, Linked, Slots
<1>3. Linked \subseteq 0 .. Capacity[p] - 1
    BY <1>1, <1>2
<1>4. ASSUME NEW c \in Nat \ {0}
      PROVE  IsFiniteSet(0 .. c - 1) /\ Cardinality(0 .. c - 1) = c
    <2>1. 0 \in Int /\ c - 1 \in Int /\ ~(0 > c - 1) /\ c - 1 - 0 + 1 = c
        OBVIOUS
    <2> QED
        BY <2>1, FS_Interval
<1> QED
    BY <1>1, <1>3, <1>4

\* A table with a free slot below the capacity can take another claim.
LEMMA NotFull ==
    ASSUME IInv, OneCapacity, NEW p \in Procs, meta = Capacity[p],
           NEW i \in 0 .. Capacity[p] - 1, i \notin Linked
    PROVE  Cardinality(Recorded) < Capacity[p]
<1> DEFINE T == 0 .. Capacity[p] - 1
<1>1. /\ Linked \subseteq T /\ IsFiniteSet(T) /\ Cardinality(T) = Capacity[p]
    BY TableSize
<1>2. Cardinality(Linked) <= Cardinality(T) /\ Cardinality(Linked) # Cardinality(T)
    <2>1. Linked \in SUBSET T /\ i \in T /\ i \notin Linked
        BY <1>1
    <2> HIDE DEF T
    <2> QED
        BY <1>1, <2>1, FS_Subset
<1>3. Cardinality(Linked) \in Int /\ Cardinality(T) \in Int
    BY <1>1, RecordedCount, FS_CardinalityType, CapacityAssumption
<1> QED
    BY <1>1, <1>2, <1>3, RecordedCount

\* A table with no free slot below the capacity is full.
LEMMA FullTable ==
    ASSUME IInv, OneCapacity, NEW p \in Procs, meta = Capacity[p],
           0 .. Capacity[p] - 1 \subseteq Linked
    PROVE  Cardinality(Recorded) = Capacity[p]
<1>1. Linked = 0 .. Capacity[p] - 1
    BY TableSize
<1> QED
    BY <1>1, TableSize, RecordedCount

\* A probe sequence visits every slot below the capacity.
LEMMA ProbeCovers ==
    ASSUME NEW h \in Nat, NEW c \in Nat \ {0}, NEW i \in 0 .. c - 1
    PROVE  \E j \in 0 .. c - 1 : (h + j) % c = i
<1> DEFINE r == h % c
           q == h \div c
<1>1. r \in 0 .. c - 1 /\ q \in Int /\ h = c * q + r
    OBVIOUS
<1>2. ASSUME NEW d \in Int PROVE (c * d + i) % c = i
    <2> DEFINE x == c * d + i
    <2>1. x \in Int /\ x = c * (x \div c) + (x % c) /\ (x % c) \in 0 .. c - 1 /\ x \div c \in Int
        OBVIOUS
    <2>2. c * (d - (x \div c)) = (x % c) - i
        BY <2>1
    <2>3. CASE d - (x \div c) >= 1
        BY <2>1, <2>2, <2>3
    <2>4. CASE d - (x \div c) <= -1
        BY <2>1, <2>2, <2>4
    <2>5. CASE d = x \div c
        BY <2>1, <2>2, <2>5
    <2> QED
        BY <2>1, <2>3, <2>4, <2>5
<1>3. CASE i >= r
    <2>1. i - r \in 0 .. c - 1 /\ h + (i - r) = c * q + i
        BY <1>1, <1>3
    <2>2. (h + (i - r)) % c = i
        BY <1>1, <1>2, <2>1
    <2> QED
        BY <2>1, <2>2
<1>4. CASE i < r
    <2>1. c + i - r \in 0 .. c - 1 /\ h + (c + i - r) = c * (q + 1) + i
        BY <1>1, <1>4
    <2>2. (h + (c + i - r)) % c = i
        BY <1>1, <1>2, <2>1
    <2> QED
        BY <2>1, <2>2
<1> QED
    BY <1>1, <1>3, <1>4

-----------------------------------------------------------------------------
(* The answers, at the moment they are given.                              *)

\* Between its link and its answer a claim is recorded.
LEMMA OwnedIsRecorded ==
    ASSUME IInv, NEW p \in Procs, pc[p] \in Owning
    PROVE  op[p] \in Identities /\ op[p] \in Recorded
<1>1. /\ op[p] \in Identities /\ slot[Target(p)] = op[p] /\ probe[p] \in Nat
    BY DEF IInv, TypeOK, ProcInv, Tidy, Owns
<1>2. Target(p) \in Slots
    BY <1>1, ProbeSlotType DEF Target
<1> QED
    BY <1>1, <1>2, IdentityAssumption DEF Recorded, Linked, Free

\* The probe loop has passed over the whole table.
LEMMA ExhaustedIsFull ==
    ASSUME IInv, OneCapacity, NEW p \in Procs, Exhausted(p)
    PROVE  /\ op[p] \in Identities /\ op[p] \notin Recorded /\ meta = Capacity[p]
           /\ Cardinality(Recorded) >= Capacity[p]
<1>1. /\ pc[p] = "probe" /\ probe[p] >= Capacity[p] /\ probe[p] \in Nat
      /\ op[p] \in Identities /\ meta = Capacity[p]
      /\ PassedTaken(p) /\ RecordAhead(p)
    BY DEF IInv, TypeOK, ProcInv, Tidy, Agreed, Exhausted
<1>2. Capacity[p] \in Nat \ {0} /\ Home[op[p]] \in Nat
    BY <1>1, CapacityAssumption, IdentityAssumption
<1>3. ASSUME NEW i \in 0 .. Capacity[p] - 1 PROVE i \in Linked
    <2>1. PICK j \in 0 .. Capacity[p] - 1 : ProbeSlot(op[p], Capacity[p], j) = i
        BY <1>2, ProbeCovers DEF ProbeSlot
    <2>2. j \in 0 .. probe[p] - 1
        BY <1>1, <1>2, <2>1
    <2>3. i \in Slots
        BY <1>2, CapacityAssumption DEF Slots
    <2> QED
        BY <1>1, <2>1, <2>2, <2>3 DEF PassedTaken, Linked
<1>4. op[p] \notin Recorded
    <2> SUFFICES ASSUME NEW i \in Slots, slot[i] = op[p] PROVE FALSE
        BY DEF Recorded, Linked
    <2>1. PICK k \in probe[p] .. Capacity[p] - 1 : Reaches(op[p], Capacity[p], k, i)
        BY <1>1 DEF RecordAhead
    <2>2. k = probe[p] /\ probe[p] <= Capacity[p] - 1
        BY <1>1, <1>2, <2>1
    <2> QED
        BY <1>1, <1>2, <2>2
<1>5. Cardinality(Recorded) = Capacity[p]
    BY <1>1, <1>3, FullTable
<1> QED
    BY <1>1, <1>2, <1>4, <1>5

\* The listing filled the table.
LEMMA ScanFullIsFull ==
    ASSUME IInv, OneCapacity, NEW p \in Procs, op[p] # Check, ScanFull(p)
    PROVE  /\ op[p] \in Identities /\ op[p] \notin Recorded /\ meta = Capacity[p]
           /\ Cardinality(Recorded) >= Capacity[p]
<1> DEFINE T == 0 .. Capacity[p] - 1
<1>1. /\ pc[p] = "scan" /\ op[p] \in Identities /\ meta = Capacity[p]
      /\ seen[p] \subseteq Slots /\ SeenTaken(p)
      /\ Cardinality(seen[p]) >= Capacity[p] /\ Capacity[p] \in Nat \ {0}
    BY CapacityAssumption
    DEF IInv, TypeOK, ProcInv, Tidy, Agreed, ScanFull, ScanComplete, Full
<1>2. seen[p] \subseteq Linked /\ \A i \in seen[p] : slot[i] # op[p]
    BY <1>1 DEF SeenTaken, Linked
<1>3. Linked \subseteq T /\ IsFiniteSet(T) /\ Cardinality(T) = Capacity[p]
    BY <1>1, TableSize
<1>4. seen[p] = T
    <2>1. seen[p] \in SUBSET T
        BY <1>2, <1>3
    <2> HIDE DEF T
    <2>2. /\ IsFiniteSet(seen[p]) /\ Cardinality(seen[p]) <= Cardinality(T)
          /\ Cardinality(T) = Cardinality(seen[p]) => T = seen[p]
        BY <1>3, <2>1, FS_Subset
    <2>3. Cardinality(seen[p]) \in Int
        BY <2>2, FS_CardinalityType
    <2> QED
        BY <1>1, <1>3, <2>2, <2>3
<1>5. T \subseteq Linked /\ \A i \in Linked : slot[i] # op[p]
    BY <1>2, <1>3, <1>4
<1>6. Cardinality(Recorded) = Capacity[p]
    BY <1>1, <1>5, FullTable
<1> QED
    BY <1>1, <1>5, <1>6 DEF Recorded

\* A free slot was taken by an identity recorded nowhere, in a table not full.
LEMMA LinkIsFirst ==
    ASSUME IInv, OneCapacity, NEW p \in Procs, LinkClaim(p)
    PROVE  /\ op[p] \in Identities /\ op[p] \notin Recorded
           /\ meta = Capacity[p] /\ Cardinality(Recorded) < Capacity[p]
           /\ Recorded' = Recorded \cup {op[p]}
<1>1. /\ TypeOK /\ op[p] \in Identities /\ probe[p] \in Nat /\ meta = Capacity[p]
      /\ slot[Target(p)] = Free /\ slot' = [slot EXCEPT ![Target(p)] = op[p]]
    BY DEF IInv, TypeOK, ProcInv, Tidy, Agreed, LinkClaim, TryLink, Probing
<1>2. Target(p) \in 0 .. Capacity[p] - 1 /\ Target(p) \in Slots /\ Target(p) \notin Linked
    BY <1>1, ProbeSlotType DEF Target, Linked
<1>3. op[p] \notin Recorded
    BY NoOtherRecord DEF Recorded, Linked
<1>4. Cardinality(Recorded) < Capacity[p]
    BY <1>1, <1>2, NotFull
<1>5. Linked' = Linked \cup {Target(p)}
    BY <1>1, <1>2, IdentityAssumption DEF TypeOK, Linked, Free
<1>6. Recorded' = Recorded \cup {op[p]}
    BY <1>1, <1>2, <1>5 DEF TypeOK, Recorded, Linked
<1> QED
    BY <1>1, <1>3, <1>4, <1>6

-----------------------------------------------------------------------------
(* The answers, as long as they wait for the caller.                       *)

\* A call that is answered was so before, or is answered in this step.
LEMMA AnswerGiven ==
    ASSUME IInv, [Next]_vars, NEW q \in Procs, pc'[q] = "answered"
    PROVE  \/ /\ pc[q] = "answered"
              /\ op'[q] = op[q] /\ reply'[q] = reply[q] /\ seen'[q] = seen[q] /\ must'[q] = must[q]
           \/ /\ UNCHANGED <<slot, meta, op, seen, must>>
              /\ \/ reply'[q] = "unavailable"
                 \/ reply'[q] = "claimed" /\ pc[q] = "verify"
                 \/ reply'[q] = "duplicate" /\ op[q] \in Recorded
                 \/ reply'[q] = "capacity_exceeded" /\ (Exhausted(q) \/ ScanFull(q))
                 \/ reply'[q] = "ready" /\ ReportReady(q)
<1> USE DEF Goto, disk, local
<1>0. /\ pc \in [Procs -> PCs] /\ reply \in [Procs -> Replies \cup {"none"}]
      /\ op \in [Procs -> Identities \cup {Check, None}]
      /\ seen \in [Procs -> SUBSET Slots] /\ must \in [Procs -> SUBSET Slots]
    BY DEF IInv, TypeOK
<1>1. CASE UNCHANGED vars
    BY <1>1 DEF vars
<1>2. ASSUME NEW p \in Procs, p # q,
             \/ \E what \in Identities \cup {Check} : Begin(p, what)
             \/ Progress(p) \/ Return(p) \/ IOError(p) \/ Crash(p)
      PROVE  /\ pc'[q] = pc[q] /\ op'[q] = op[q] /\ reply'[q] = reply[q]
             /\ seen'[q] = seen[q] /\ must'[q] = must[q]
    BY <1>0, <1>2 DEF Begin, Progress, Validate,
       RejectMalformed, Prepare, MetaFound, MetaRefused, MetaAbsent,
       DirectoryEmpty, DirectoryUsed, PublishMeta, MetaExists, SyncMeta,
       ProbeLinks, OpenDirectory, ScanOther, ScanDuplicate, ScanUnreadable,
       ScanFull, ReportReady, StartProbing, SkipSeen, LinkClaim, LinkTaken,
       LinkDuplicate, LinkUnreadable, Exhausted, SyncClaim, VerifyClaim,
       VerifyFails, Return, IOError, Crash, Answer, PassOver, Step, Forget
<1>3. CASE Progress(q)
    <2>1. CASE \/ Validate(q) \/ Prepare(q) \/ MetaFound(q) \/ MetaAbsent(q)
               \/ DirectoryEmpty(q) \/ DirectoryUsed(q) \/ PublishMeta(q)
               \/ MetaExists(q) \/ SyncMeta(q) \/ ProbeLinks(q) \/ OpenDirectory(q)
               \/ StartProbing(q) \/ SkipSeen(q) \/ LinkClaim(q) \/ LinkTaken(q)
               \/ SyncClaim(q) \/ (\E i \in Slots : ScanOther(q, i))
        BY <1>0, <2>1 DEF Validate, Prepare, MetaFound, MetaAbsent, DirectoryEmpty,
           DirectoryUsed, PublishMeta, MetaExists, SyncMeta, ProbeLinks, OpenDirectory,
           StartProbing, ScanComplete, SkipSeen, Probing, LinkClaim, TryLink, LinkTaken,
           SyncClaim, ScanOther, ScanEntry, Step, PassOver, AfterMeta
    <2>2. CASE \/ RejectMalformed(q) \/ MetaRefused(q) \/ LinkUnreadable(q)
               \/ VerifyFails(q) \/ (\E i \in Slots : ScanUnreadable(q, i))
        BY <1>0, <2>2 DEF RejectMalformed, MetaRefused, LinkUnreadable, VerifyFails,
           ScanUnreadable, Answer
    <2>3. CASE LinkDuplicate(q) \/ (\E i \in Slots : ScanDuplicate(q, i))
        <3>1. /\ UNCHANGED <<slot, meta, op, seen, must>> /\ reply'[q] = "duplicate"
              /\ op[q] \in Identities \cup {Check} /\ probe[q] \in Nat
              /\ pc[q] = "probe" => op[q] \in Identities
            BY <1>0, <2>3 DEF LinkDuplicate, ScanDuplicate, ScanEntry, TryLink, Probing, Answer,
               IInv, TypeOK, ProcInv, Tidy
        <3>2. \E i \in Slots : slot[i] = op[q]
            <4>1. CASE LinkDuplicate(q)
                BY <3>1, <4>1, ProbeSlotType DEF LinkDuplicate, TryLink, Probing, Target
            <4>2. CASE \E i \in Slots : ScanDuplicate(q, i)
                BY <4>2 DEF ScanDuplicate
            <4> QED
                BY <2>3, <4>1, <4>2
        <3>3. op[q] # Free
            BY <3>1, IdentityAssumption DEF Free
        <3> QED
            BY <3>1, <3>2, <3>3 DEF Recorded, Linked
    <2>4. CASE Exhausted(q) \/ ScanFull(q)
        BY <1>0, <2>4 DEF Exhausted, ScanFull, Answer
    <2>5. CASE ReportReady(q)
        BY <1>0, <2>5 DEF ReportReady, Answer
    <2>6. CASE VerifyClaim(q)
        BY <1>0, <2>6 DEF VerifyClaim, Answer
    <2> QED
        BY <1>3, <2>1, <2>2, <2>3, <2>4, <2>5, <2>6 DEF Progress
<1>4. CASE IOError(q)
    BY <1>0, <1>4 DEF IOError, Answer
<1>5. CASE \/ \E what \in Identities \cup {Check} : Begin(q, what)
           \/ Return(q) \/ Crash(q) \/ PowerLoss
    BY <1>0, <1>5 DEF Begin, Return, Crash, PowerLoss, Forget
<1>6. CASE \E e \in Entries : Damage(e)
    BY <1>6 DEF Damage
<1>7. PICK p \in Procs : \/ \E what \in Identities \cup {Check} : Begin(p, what)
                         \/ Progress(p) \/ Return(p) \/ IOError(p) \/ Crash(p)
                         \/ PowerLoss \/ (\E e \in Entries : Damage(e)) \/ UNCHANGED vars
    BY DEF Next
<1> QED
    BY <1>1, <1>2, <1>3, <1>4, <1>5, <1>6, <1>7

\* Until its answer a call has no reply.
LEMMA NoReplyYet ==
    ASSUME IInv, AnswerInv, [Next]_vars, NEW q \in Procs, pc'[q] # "answered"
    PROVE  reply'[q] = "none"
<1> USE DEF Goto, disk, local
<1>0. /\ pc \in [Procs -> PCs] /\ reply \in [Procs -> Replies \cup {"none"}]
      /\ pc[q] # "answered" => reply[q] = "none"
    BY DEF IInv, TypeOK, AnswerInv
<1>1. CASE \E p \in Procs : Return(p) \/ Crash(p)
    BY <1>0, <1>1 DEF Return, Crash, Forget
<1>2. CASE PowerLoss
    BY <1>2 DEF PowerLoss, Forget
<1>3. ASSUME NEW p \in Procs,
             (\E what \in Identities \cup {Check} : Begin(p, what)) \/ Progress(p) \/ IOError(p)
      PROVE  reply'[q] = "none"
    <2>1. \/ reply' = reply /\ pc' = [pc EXCEPT ![p] = pc'[p]] /\ pc[p] # "answered"
          \/ \E r \in Replies : Answer(p, r)
        BY <1>0, <1>3 DEF Replies, Begin, Progress, Validate,
           RejectMalformed, Prepare, MetaFound, MetaRefused, MetaAbsent,
           DirectoryEmpty, DirectoryUsed, PublishMeta, MetaExists, SyncMeta,
           ProbeLinks, OpenDirectory, ScanOther, ScanDuplicate, ScanUnreadable, ScanEntry,
           ScanFull, ScanComplete, ReportReady, StartProbing, SkipSeen, LinkClaim, LinkTaken,
           Probing, TryLink, LinkDuplicate, LinkUnreadable, Exhausted, SyncClaim, VerifyClaim,
           VerifyFails, IOError, PassOver, Step
    <2> QED
        BY <1>0, <2>1 DEF Answer
<1>4. CASE UNCHANGED vars \/ (\E e \in Entries : Damage(e))
    BY <1>0, <1>4 DEF vars, Damage
<1> QED
    BY <1>1, <1>2, <1>3, <1>4 DEF Next

\* What a step does to the recorded identities.
LEMMA RecordedStep ==
    ASSUME IInv, OneCapacity, [Next]_vars
    PROVE  \/ Recorded' = Recorded /\ Linked' = Linked /\ (meta' = meta \/ meta = 0)
           \/ PowerLoss
           \/ \E p \in Procs :
                 /\ LinkClaim(p) /\ meta' = meta /\ meta = Capacity[p] /\ Linked \subseteq Linked'
                 /\ op[p] \notin Recorded /\ Cardinality(Recorded) < Capacity[p]
                 /\ Recorded' = Recorded \cup {op[p]}
<1>1. CASE UNCHANGED <<slot, meta>>
    BY <1>1 DEF Recorded, Linked
<1>2. ASSUME NEW p \in Procs, PublishMeta(p)
      PROVE  Recorded' = Recorded /\ Linked' = Linked /\ meta = 0
    BY <1>2 DEF PublishMeta, Recorded, Linked
<1>3. ASSUME NEW p \in Procs, LinkClaim(p)
      PROVE  meta' = meta /\ Linked \subseteq Linked'
    BY <1>3, IdentityAssumption
    DEF LinkClaim, Linked, IInv, TypeOK, ProcInv, Tidy, TryLink, Probing, Free
<1> QED
    BY <1>1, <1>2, <1>3, LinkIsFirst, DiskStep

LEMMA AnswersStep ==
    ASSUME RInv, [Next]_vars
    PROVE  AnswerInv' /\ ReadinessBracketed'
<1>0. IInv /\ OneCapacity /\ AnswerInv /\ ReadinessBracketed
    BY DEF RInv, CapacityInv
<1>1. \A q \in Procs : pc'[q] # "answered" => reply'[q] = "none"
    BY <1>0, NoReplyYet
<1>2. ASSUME NEW q \in Procs, pc'[q] = "answered", pc[q] = "answered", op'[q] = op[q],
             reply'[q] = reply[q], seen'[q] = seen[q], must'[q] = must[q], op[q] # Check
      PROVE  /\ reply'[q] \notin {"none", "ready"}
             /\ reply'[q] = "claimed" => op'[q] \in Recorded' /\ meta' = Capacity[q]
             /\ reply'[q] = "duplicate" => op'[q] \in Recorded'
             /\ reply'[q] = "capacity_exceeded" =>
                   /\ op'[q] \notin Recorded' /\ meta' = Capacity[q]
                   /\ Cardinality(Recorded') >= Capacity[q]
    <2>1. ~PowerLoss
        BY <1>2 DEF PowerLoss, Forget
    <2>2. Capacity[q] # 0
        BY CapacityAssumption
    <2>3. reply[q] \notin {"none", "ready"}
        BY <1>0, <1>2 DEF AnswerInv
    <2>4. CASE Recorded' = Recorded /\ (meta' = meta \/ meta = 0)
        BY <1>0, <1>2, <2>2, <2>3, <2>4 DEF AnswerInv
    <2>5. ASSUME NEW p \in Procs, meta' = meta, meta = Capacity[p],
                 Cardinality(Recorded) < Capacity[p], Recorded' = Recorded \cup {op[p]}
          PROVE  /\ reply[q] # "capacity_exceeded"
                 /\ reply[q] = "claimed" => op[q] \in Recorded' /\ meta' = Capacity[q]
                 /\ reply[q] = "duplicate" => op[q] \in Recorded'
        <3>1. Cardinality(Recorded) \in Int /\ Capacity[p] \in Int
            BY <1>0, RecordedCount, FS_CardinalityType, CapacityAssumption
        <3> QED
            BY <1>0, <1>2, <2>5, <3>1 DEF AnswerInv
    <2> QED
        BY <1>0, <1>2, <2>1, <2>3, <2>4, <2>5, RecordedStep
<1>3. ASSUME NEW q \in Procs, pc'[q] = "answered", op'[q] # Check,
             UNCHANGED <<slot, meta, op, seen, must>>,
             \/ reply'[q] = "unavailable"
             \/ reply'[q] = "claimed" /\ pc[q] = "verify"
             \/ reply'[q] = "duplicate" /\ op[q] \in Recorded
             \/ reply'[q] = "capacity_exceeded" /\ (Exhausted(q) \/ ScanFull(q))
             \/ reply'[q] = "ready" /\ ReportReady(q)
      PROVE  /\ reply'[q] \notin {"none", "ready"}
             /\ reply'[q] = "claimed" => op'[q] \in Recorded' /\ meta' = Capacity[q]
             /\ reply'[q] = "duplicate" => op'[q] \in Recorded'
             /\ reply'[q] = "capacity_exceeded" =>
                   /\ op'[q] \notin Recorded' /\ meta' = Capacity[q]
                   /\ Cardinality(Recorded') >= Capacity[q]
    <2>1. Recorded' = Recorded /\ meta' = meta /\ op' = op
        BY <1>3 DEF Recorded, Linked
    <2>2. pc[q] = "verify" => op[q] \in Recorded /\ meta = Capacity[q]
        BY <1>0, OwnedIsRecorded DEF IInv, ProcInv, Agreed, Owning
    <2>3. ~ReportReady(q)
        BY <1>3, <2>1 DEF ReportReady
    <2>4. Exhausted(q) \/ ScanFull(q) =>
             /\ op[q] \notin Recorded /\ meta = Capacity[q]
             /\ Cardinality(Recorded) >= Capacity[q]
        BY <1>0, <1>3, <2>1, ExhaustedIsFull, ScanFullIsFull
    <2> QED
        BY <1>3, <2>1, <2>2, <2>3, <2>4
<1>4. AnswerInv'
    BY <1>0, <1>1, <1>2, <1>3, AnswerGiven DEF AnswerInv
<1>5. ASSUME NEW q \in Procs, pc'[q] = "answered", reply'[q] = "ready"
      PROVE  /\ seen'[q] \subseteq Linked' /\ must'[q] \subseteq seen'[q]
             /\ Cardinality(seen'[q]) < Capacity[q]
    <2>1. CASE pc[q] = "answered" /\ reply'[q] = reply[q] /\ seen'[q] = seen[q] /\ must'[q] = must[q]
        <3>1. /\ seen[q] \subseteq Linked /\ must[q] \subseteq seen[q]
              /\ Cardinality(seen[q]) < Capacity[q]
            BY <1>0, <1>5, <2>1 DEF ReadinessBracketed
        <3>2. ~PowerLoss
            BY <1>5 DEF PowerLoss, Forget
        <3>3. Linked \subseteq Linked'
            BY <1>0, <3>2, RecordedStep
        <3> QED
            BY <2>1, <3>1, <3>3
    <2>2. CASE UNCHANGED <<slot, meta, op, seen, must>> /\ ReportReady(q)
        <3>1. /\ SeenTaken(q) /\ pc[q] = "scan" /\ seen[q] \in SUBSET Slots
              /\ must[q] \subseteq seen[q] /\ ~(Cardinality(seen[q]) >= Capacity[q])
              /\ Capacity[q] \in Nat
            BY <1>0, <2>2, CapacityAssumption
            DEF ReportReady, ScanComplete, Full, IInv, TypeOK, ProcInv
        <3>2. seen[q] \subseteq Linked
            BY <3>1 DEF SeenTaken, Linked
        <3>3. Cardinality(seen[q]) \in Int
            BY <1>0, <3>2, RecordedCount, FS_Subset, FS_CardinalityType
        <3> QED
            BY <2>2, <3>1, <3>2, <3>3 DEF Linked
    <2> QED
        BY <1>0, <1>5, <2>1, <2>2, AnswerGiven
<1> QED
    BY <1>4, <1>5 DEF ReadinessBracketed

-----------------------------------------------------------------------------
\* The invariant with the answers holds in every behaviour.
THEOREM AnswerInvariance == Spec => []RInv
<1>1. Init => RInv
    BY IInvInit DEF RInv, Init, CapacityInv, OneCapacity, MetaFirst, Linked, Owning, AnswerInv,
       ReadinessBracketed
<1>2. RInv /\ [Next]_vars => RInv'
    BY IInvStep, CapacityStep, AnswersStep DEF RInv
<1> QED
    BY <1>1, <1>2, PTL DEF Spec

\* What claim() answers is what an atomic table would answer at that moment.
THEOREM AnswersAreAtomic == Spec => []AnswersLikeMemory
<1>1. RInv => AnswersLikeMemory
    <2> SUFFICES ASSUME RInv, NEW p \in Procs, pc[p] = "answered", op[p] # Check,
                        reply[p] # "unavailable"
                 PROVE  reply[p] = Memory!MemoryReply(
                            IF reply[p] = "claimed" THEN Recorded \ {op[p]} ELSE Recorded,
                            op[p], Capacity[p])
        BY DEF AnswersLikeMemory
    <2>1. reply[p] \in {"claimed", "duplicate", "capacity_exceeded"}
        BY DEF RInv, AnswerInv, IInv, TypeOK, Replies
    <2>2. CASE reply[p] = "claimed"
        <3>1. op[p] \in Recorded /\ meta = Capacity[p] /\ IsFiniteSet(Recorded)
            BY <2>2, RecordedCount DEF RInv, AnswerInv
        <3>2. Cardinality(Recorded \ {op[p]}) = Cardinality(Recorded) - 1
            BY <3>1, FS_RemoveElement
        <3>3. /\ Cardinality(Recorded) \in Int /\ Capacity[p] \in Int
              /\ Cardinality(Recorded) <= Capacity[p]
            <4>1. /\ Linked \in SUBSET (0 .. Capacity[p] - 1)
                  /\ IsFiniteSet(0 .. Capacity[p] - 1)
                  /\ Cardinality(0 .. Capacity[p] - 1) = Capacity[p]
                BY <3>1, TableSize DEF RInv, CapacityInv
            <4>2. Cardinality(Linked) <= Capacity[p]
                BY <4>1, FS_Subset
            <4> QED
                BY <3>1, <4>2, RecordedCount, FS_CardinalityType, CapacityAssumption DEF RInv
        <3>4. ~(Cardinality(Recorded \ {op[p]}) >= Capacity[p])
            BY <3>2, <3>3
        <3> QED
            BY <2>2, <3>4, MemoryAnswer
    <2>3. CASE reply[p] = "duplicate"
        BY <2>3, MemoryAnswer DEF RInv, AnswerInv
    <2>4. CASE reply[p] = "capacity_exceeded"
        BY <2>4, MemoryAnswer DEF RInv, AnswerInv
    <2> QED
        BY <2>1, <2>2, <2>3, <2>4
<1> QED
    BY <1>1, AnswerInvariance, PTL

\* checkReady() counts the claims it found, and misses none that was there.
THEOREM ReadinessIsHonest == Spec => []ReadinessBracketed
<1>1. RInv => ReadinessBracketed
    BY DEF RInv
<1> QED
    BY <1>1, AnswerInvariance, PTL

-----------------------------------------------------------------------------
(* The refinement.                                                         *)

LEMMA MapInit == Init => Memory!Init
<1> SUFFICES ASSUME Init PROVE Memory!Init
    OBVIOUS
<1>1. Recorded = {}
    BY DEF Init, Recorded, Linked
<1>2. CallPhase = [p \in Procs |-> "idle"]
    BY DEF Init, CallPhase
<1>3. CallAsked = [p \in Procs |-> None]
    BY IdentityAssumption DEF Init, CallAsked
<1>4. CallReply = [p \in Procs |-> "none"]
    BY IdentityAssumption DEF Init, CallReply
<1> QED
    BY <1>1, <1>2, <1>3, <1>4 DEF Init, Memory!Init

\* A step of one process that changes at most its pc and reply.
LEMMA MapOne ==
    ASSUME NEW p \in Procs, NEW to, NEW r, IInv,
           pc' = [pc EXCEPT ![p] = to], reply' = [reply EXCEPT ![p] = r], op' = op
    PROVE  /\ CallAsked' = CallAsked
           /\ op[p] \notin {Check, None} =>
                 /\ CallPhase' = [CallPhase EXCEPT ![p] =
                        IF to = "answered" THEN "answered"
                        ELSE IF to \in Owning THEN "recorded" ELSE "asked"]
                 /\ CallReply' = [CallReply EXCEPT ![p] = r]
           /\ op[p] = Check => CallPhase' = CallPhase /\ CallReply' = CallReply
<1>1. pc \in [Procs -> PCs] /\ reply \in [Procs -> Replies \cup {"none"}]
    BY DEF IInv, TypeOK
<1>2. CallAsked' = CallAsked
    BY DEF CallAsked
<1>3. ASSUME op[p] \notin {Check, None}
      PROVE  /\ CallPhase' = [CallPhase EXCEPT ![p] =
                   IF to = "answered" THEN "answered"
                   ELSE IF to \in Owning THEN "recorded" ELSE "asked"]
             /\ CallReply' = [CallReply EXCEPT ![p] = r]
    BY <1>1, <1>3 DEF CallPhase, CallReply
<1>4. ASSUME op[p] = Check
      PROVE  CallPhase' = CallPhase /\ CallReply' = CallReply
    BY <1>1, <1>4 DEF CallPhase, CallReply
<1> QED
    BY <1>2, <1>3, <1>4

\* What the abstract registry shows of a call that is under way.
LEMMA MapOf ==
    ASSUME NEW p \in Procs, IInv
    PROVE  /\ CallPhase[p] = IF op[p] \in {Check, None} THEN "idle"
                             ELSE IF pc[p] = "answered" THEN "answered"
                             ELSE IF pc[p] \in Owning THEN "recorded" ELSE "asked"
           /\ CallAsked[p] = IF op[p] = Check THEN None ELSE op[p]
           /\ CallReply[p] = IF op[p] = Check THEN "none" ELSE reply[p]
           /\ op[p] = None <=> pc[p] = "idle"
           /\ op[p] \in Identities \cup {Check, None}
           /\ op[p] \in Identities => op[p] \notin {Check, None}
BY IdentityAssumption DEF CallPhase, CallAsked, CallReply, IInv, TypeOK, ProcInv, Tidy

\* A call that goes on without effect on the claims.
LEMMA MapQuiet ==
    ASSUME IInv, NEW p \in Procs, NEW to, pc' = [pc EXCEPT ![p] = to],
           UNCHANGED <<slot, op, reply, granted>>,
           pc[p] \notin {"idle", "answered"}, to # "answered",
           pc[p] \in Owning <=> to \in Owning
    PROVE  UNCHANGED Memory!vars
<1>1. Recorded' = Recorded
    BY DEF Recorded, Linked
<1>2. CallAsked' = CallAsked
    BY DEF CallAsked
<1>3. CallReply' = CallReply
    BY DEF CallReply
<1>4. pc \in [Procs -> PCs]
    BY DEF IInv, TypeOK
<1>5. CallPhase' = CallPhase
    BY <1>4 DEF CallPhase
<1> QED
    BY <1>1, <1>2, <1>3, <1>5 DEF Memory!vars

\* An answer to checkReady() is none of the abstract registry's.
LEMMA MapCheckAnswer ==
    ASSUME IInv, NEW p \in Procs, NEW r, op[p] = Check, Answer(p, r), UNCHANGED granted
    PROVE  UNCHANGED Memory!vars
<1>1. Recorded' = Recorded
    BY DEF Recorded, Linked, Answer, disk
<1>2. CallAsked' = CallAsked /\ CallPhase' = CallPhase /\ CallReply' = CallReply
    BY MapOne DEF Answer, Goto
<1> QED
    BY <1>1, <1>2 DEF Memory!vars

\* A failed call.
LEMMA MapUnavailable ==
    ASSUME IInv, NEW p \in Procs, pc[p] \in InCall, Answer(p, "unavailable"), UNCHANGED granted
    PROVE  Memory!Unavailable(p) \/ UNCHANGED Memory!vars
<1>0. pc[p] # "idle" /\ pc[p] # "answered"
    BY DEF InCall, Setup, Scanning, Owning
<1>1. CASE op[p] = Check
    BY <1>1, MapCheckAnswer
<1>2. CASE op[p] # Check
    <2>1. op[p] \notin {Check, None}
        BY <1>0, <1>2, MapOf
    <2>2. Recorded' = Recorded
        BY DEF Recorded, Linked, Answer, disk
    <2>3. /\ CallAsked' = CallAsked
          /\ CallPhase' = [CallPhase EXCEPT ![p] = "answered"]
          /\ CallReply' = [CallReply EXCEPT ![p] = "unavailable"]
        BY <2>1, MapOne DEF Answer, Goto
    <2>4. CallPhase[p] \in {"asked", "recorded"}
        BY <1>0, <2>1, MapOf
    <2> QED
        BY <2>2, <2>3, <2>4 DEF Memory!Unavailable, Memory!Answer
<1> QED
    BY <1>1, <1>2

\* A refusal is the atomic registry's at this moment.
LEMMA MapRefuse ==
    ASSUME IInv, NEW p \in Procs, NEW r, pc[p] \in {"scan", "probe"}, op[p] \in Identities,
           Answer(p, r), UNCHANGED granted,
           \/ r = "duplicate" /\ op[p] \in Recorded
           \/ /\ r = "capacity_exceeded" /\ op[p] \notin Recorded
              /\ Cardinality(Recorded) >= Capacity[p]
    PROVE  Memory!Refuse(p)
<1>1. op[p] \notin {Check, None} /\ pc[p] \notin Owning /\ pc[p] # "answered"
    BY MapOf DEF Owning
<1>2. Recorded' = Recorded
    BY DEF Recorded, Linked, Answer, disk
<1>3. /\ CallAsked' = CallAsked
      /\ CallPhase' = [CallPhase EXCEPT ![p] = "answered"]
      /\ CallReply' = [CallReply EXCEPT ![p] = r]
    BY <1>1, MapOne DEF Answer, Goto
<1>4. CallPhase[p] = "asked" /\ CallAsked[p] = op[p]
    BY <1>1, MapOf
<1>5. Memory!MemoryReply(Recorded, op[p], Capacity[p]) = r
    BY MemoryAnswer
<1>6. r # "claimed"
    OBVIOUS
<1> QED
    BY <1>2, <1>3, <1>4, <1>5, <1>6 DEF Memory!Refuse, Memory!Answer

\* The link is the moment the claim takes effect.
LEMMA MapLink ==
    ASSUME IInv, OneCapacity, NEW p \in Procs, LinkClaim(p)
    PROVE  Memory!Record(p)
<1>1. /\ op[p] \in Identities /\ op[p] \notin Recorded
      /\ Cardinality(Recorded) < Capacity[p]
      /\ Recorded' = Recorded \cup {op[p]}
    BY LinkIsFirst
<1>2. /\ pc[p] = "probe" /\ pc' = [pc EXCEPT ![p] = "syncClaim"]
      /\ UNCHANGED <<op, reply, granted>>
    BY DEF LinkClaim, TryLink, Probing, Goto
<1>3. op[p] \notin {Check, None} /\ CallPhase[p] = "asked" /\ CallAsked[p] = op[p]
    BY <1>1, <1>2, MapOf DEF Owning
<1>4. reply' = [reply EXCEPT ![p] = reply[p]] /\ CallReply' = CallReply
    BY <1>2 DEF IInv, TypeOK, CallReply
<1>5. CallAsked' = CallAsked /\ CallPhase' = [CallPhase EXCEPT ![p] = "recorded"]
    BY <1>2, <1>3, <1>4, MapOne DEF Owning
<1>6. Cardinality(Recorded) \in Int /\ Capacity[p] \in Int
    BY RecordedCount, FS_CardinalityType, CapacityAssumption
<1>7. Memory!MemoryReply(Recorded, op[p], Capacity[p]) = "claimed"
    BY <1>1, <1>6, MemoryAnswer
<1> QED
    BY <1>1, <1>2, <1>3, <1>4, <1>5, <1>7 DEF Memory!Record

LEMMA MapGrant ==
    ASSUME IInv, NEW p \in Procs, VerifyClaim(p)
    PROVE  Memory!Grant(p)
<1>1. /\ pc[p] = "verify" /\ op[p] \in Identities
      /\ Answer(p, "claimed") /\ granted' = [granted EXCEPT ![op[p]] = @ + 1]
    BY DEF VerifyClaim, IInv, ProcInv, Tidy, Owning
<1>2. Recorded' = Recorded
    BY <1>1 DEF Recorded, Linked, Answer, disk
<1>3. op[p] \notin {Check, None} /\ CallPhase[p] = "recorded" /\ CallAsked[p] = op[p]
    BY <1>1, MapOf DEF Owning
<1>4. /\ CallAsked' = CallAsked
      /\ CallPhase' = [CallPhase EXCEPT ![p] = "answered"]
      /\ CallReply' = [CallReply EXCEPT ![p] = "claimed"]
    BY <1>1, <1>3, MapOne DEF Answer, Goto
<1> QED
    BY <1>1, <1>2, <1>3, <1>4 DEF Memory!Grant, Memory!Answer

LEMMA MapBegin ==
    ASSUME RInv, NEW p \in Procs, NEW what \in Identities \cup {Check}, Begin(p, what)
    PROVE  (Memory!Ask(p, what) /\ what \in Identities) \/ UNCHANGED Memory!vars
<1>1. /\ IInv /\ pc[p] = "idle" /\ pc' = [pc EXCEPT ![p] = "validate"]
      /\ op' = [op EXCEPT ![p] = what] /\ UNCHANGED <<slot, reply, granted>>
    BY DEF RInv, Begin, Goto, disk
<1>2. op[p] = None /\ reply[p] = "none"
    BY <1>1, MapOf DEF RInv, AnswerInv
<1>3. Recorded' = Recorded
    BY <1>1 DEF Recorded, Linked
<1>4. /\ pc \in [Procs -> PCs] /\ op \in [Procs -> Identities \cup {Check, None}]
    BY <1>1 DEF IInv, TypeOK
<1>5. CASE what = Check
    <2>1. CallPhase' = CallPhase /\ CallAsked' = CallAsked /\ CallReply' = CallReply
        BY <1>1, <1>2, <1>4, <1>5 DEF CallPhase, CallAsked, CallReply
    <2> QED
        BY <1>1, <1>3, <2>1 DEF Memory!vars
<1>6. CASE what \in Identities /\ what \notin {Check, None}
    <2>1. CallPhase[p] = "idle"
        BY <1>1, <1>2, MapOf
    <2>2. CallPhase' = [CallPhase EXCEPT ![p] = "asked"]
        BY <1>1, <1>2, <1>4, <1>6 DEF CallPhase, Owning
    <2>3. CallAsked' = [CallAsked EXCEPT ![p] = what]
        BY <1>1, <1>4, <1>6 DEF CallAsked
    <2>4. CallReply' = CallReply
        BY <1>1, <1>2, <1>4, <1>6, IdentityAssumption DEF CallReply
    <2> QED
        BY <1>1, <1>3, <1>6, <2>1, <2>2, <2>3, <2>4 DEF Memory!Ask
<1> QED
    BY <1>5, <1>6, IdentityAssumption

\* What is left of the calls of S is nothing.
LEMMA MapForget ==
    ASSUME IInv, NEW S \in SUBSET Procs, Forget(S)
    PROVE  Memory!Abandon(S) /\ granted' = granted
<1>1. CallPhase' = [q \in Procs |-> IF q \in S THEN "idle" ELSE CallPhase[q]]
    BY DEF Forget, CallPhase
<1>2. CallAsked' = [q \in Procs |-> IF q \in S THEN None ELSE CallAsked[q]]
    BY IdentityAssumption DEF Forget, CallAsked
<1>3. CallReply' = [q \in Procs |-> IF q \in S THEN "none" ELSE CallReply[q]]
    BY IdentityAssumption DEF Forget, CallReply
<1> QED
    BY <1>1, <1>2, <1>3 DEF Memory!Abandon, Forget

LEMMA MapCrash ==
    ASSUME IInv, NEW p \in Procs, Return(p) \/ Crash(p)
    PROVE  Memory!Crash(p)
<1>1. Recorded' = Recorded /\ Forget({p})
    BY DEF Return, Crash, disk, Recorded, Linked
<1> QED
    BY <1>1, MapForget DEF Memory!Crash

LEMMA MapPowerLoss ==
    ASSUME IInv, PowerLoss
    PROVE  Memory!PowerLoss
<1>1. PICK kept \in SUBSET Present :
          /\ Present \cap durable \subseteq kept
          /\ slot' = [i \in Slots |-> IF i \in kept THEN slot[i] ELSE Free]
    BY DEF PowerLoss
<1>2. Linked' = Linked \cap kept /\ \A i \in Linked' : slot'[i] = slot[i]
    BY <1>1 DEF Linked
<1>3. Recorded' \in SUBSET Recorded
    BY <1>2 DEF Recorded
<1>4. ASSUME NEW id \in Identities, granted[id] > 0
      PROVE  id \in Recorded'
    <2>1. PICK i \in Linked \cap durable : slot[i] = id
        BY <1>4 DEF IInv, GrantIsDurable
    <2>2. i \in Linked'
        BY <1>1, <1>2, <2>1 DEF Present
    <2> QED
        BY <1>2, <2>1, <2>2 DEF Recorded
<1>5. Memory!Abandon(Procs) /\ granted' = granted
    BY MapForget DEF PowerLoss
<1> QED
    BY <1>3, <1>4, <1>5 DEF Memory!PowerLoss

LEMMA MapProgress ==
    ASSUME RInv, NEW p \in Procs, Progress(p)
    PROVE  \/ Memory!Record(p) \/ Memory!Grant(p) \/ Memory!Refuse(p) \/ Memory!Unavailable(p)
           \/ UNCHANGED Memory!vars
<1>0. /\ IInv /\ OneCapacity /\ pc \in [Procs -> PCs] /\ ProcInv(p)
      /\ op[p] \in Identities \cup {Check, None} /\ probe[p] \in Nat
    BY DEF RInv, CapacityInv, IInv, TypeOK
<1>1. CASE \/ Validate(p) \/ Prepare(p) \/ MetaFound(p) \/ MetaAbsent(p)
           \/ DirectoryEmpty(p) \/ DirectoryUsed(p) \/ PublishMeta(p)
           \/ MetaExists(p) \/ SyncMeta(p) \/ ProbeLinks(p) \/ OpenDirectory(p)
           \/ StartProbing(p) \/ SkipSeen(p) \/ LinkTaken(p)
           \/ SyncClaim(p) \/ (\E i \in Slots : ScanOther(p, i))
    <2>1. \E to \in PCs :
             /\ pc' = [pc EXCEPT ![p] = to] /\ UNCHANGED <<slot, op, reply, granted>>
             /\ pc[p] \notin {"idle", "answered"} /\ to # "answered"
             /\ pc[p] \in Owning <=> to \in Owning
        BY <1>0, <1>1 DEF Validate, Prepare, MetaFound, MetaAbsent, DirectoryEmpty,
           DirectoryUsed, PublishMeta, MetaExists, SyncMeta, ProbeLinks, OpenDirectory,
           StartProbing, ScanComplete, SkipSeen, Probing, TryLink, LinkTaken,
           SyncClaim, ScanOther, ScanEntry, Step, PassOver, AfterMeta, Goto, disk,
           PCs, InCall, Setup, Scanning, Owning
    <2> QED
        BY <1>0, <2>1, MapQuiet
<1>2. CASE \/ RejectMalformed(p) \/ MetaRefused(p) \/ LinkUnreadable(p)
           \/ VerifyFails(p) \/ (\E i \in Slots : ScanUnreadable(p, i))
    <2>1. pc[p] \in InCall /\ Answer(p, "unavailable") /\ UNCHANGED granted
        BY <1>2 DEF RejectMalformed, MetaRefused, LinkUnreadable, TryLink, Probing,
           VerifyFails, ScanUnreadable, ScanEntry, InCall, Setup, Scanning, Owning
    <2> QED
        BY <1>0, <2>1, MapUnavailable
<1>3. CASE LinkDuplicate(p)
    <2>1. /\ pc[p] = "probe" /\ op[p] \in Identities /\ slot[Target(p)] = op[p]
          /\ Answer(p, "duplicate") /\ UNCHANGED granted
        BY <1>0, <1>3 DEF LinkDuplicate, TryLink, Probing, ProcInv, Tidy
    <2>2. op[p] \in Recorded
        BY <1>0, <2>1, ProbeSlotType, IdentityAssumption DEF Target, Recorded, Linked, Free
    <2> QED
        BY <1>0, <2>1, <2>2, MapRefuse
<1>4. CASE \E i \in Slots : ScanDuplicate(p, i)
    <2>1. PICK i \in Slots : ScanDuplicate(p, i)
        BY <1>4
    <2>2. /\ pc[p] = "scan" /\ i \in Linked /\ slot[i] = op[p]
          /\ Answer(p, "duplicate") /\ UNCHANGED granted
        BY <2>1 DEF ScanDuplicate, ScanEntry
    <2>3. op[p] \in Recorded /\ op[p] \in Identities \cup {Check}
        BY <1>0, <2>2 DEF Recorded, Linked, Free
    <2>4. CASE op[p] = Check
        BY <1>0, <2>2, <2>4, MapCheckAnswer
    <2>5. CASE op[p] \in Identities
        BY <1>0, <2>2, <2>3, <2>5, MapRefuse
    <2> QED
        BY <2>3, <2>4, <2>5
<1>5. CASE Exhausted(p)
    <2>1. /\ op[p] \in Identities /\ op[p] \notin Recorded
          /\ Cardinality(Recorded) >= Capacity[p]
        BY <1>0, <1>5, ExhaustedIsFull
    <2> QED
        BY <1>0, <1>5, <2>1, MapRefuse DEF Exhausted
<1>6. CASE ScanFull(p)
    <2>1. pc[p] = "scan" /\ Answer(p, "capacity_exceeded") /\ UNCHANGED granted
        BY <1>6 DEF ScanFull, ScanComplete
    <2>2. CASE op[p] = Check
        BY <1>0, <2>1, <2>2, MapCheckAnswer
    <2>3. CASE op[p] # Check
        <3>1. /\ op[p] \in Identities /\ op[p] \notin Recorded
              /\ Cardinality(Recorded) >= Capacity[p]
            BY <1>0, <1>6, <2>3, ScanFullIsFull
        <3> QED
            BY <1>0, <2>1, <3>1, MapRefuse
    <2> QED
        BY <2>2, <2>3
<1>7. CASE ReportReady(p)
    BY <1>0, <1>7, MapCheckAnswer DEF ReportReady
<1>8. CASE LinkClaim(p)
    BY <1>0, <1>8, MapLink
<1>9. CASE VerifyClaim(p)
    BY <1>0, <1>9, MapGrant
<1> QED
    BY <1>1, <1>2, <1>3, <1>4, <1>5, <1>6, <1>7, <1>8, <1>9 DEF Progress

\* Every step is one of the atomic registry, or a stutter.
LEMMA MapStep ==
    ASSUME RInv, [Next]_vars
    PROVE  [Memory!Next]_(Memory!vars)
<1>0. IInv
    BY DEF RInv
<1>1. ASSUME NEW p \in Procs, Progress(p)
      PROVE  [Memory!Next]_(Memory!vars)
    BY <1>1, MapProgress DEF Memory!Next
<1>2. ASSUME NEW p \in Procs, NEW what \in Identities \cup {Check}, Begin(p, what)
      PROVE  [Memory!Next]_(Memory!vars)
    BY <1>2, MapBegin DEF Memory!Next
<1>3. ASSUME NEW p \in Procs, Return(p) \/ Crash(p)
      PROVE  [Memory!Next]_(Memory!vars)
    BY <1>0, <1>3, MapCrash DEF Memory!Next
<1>4. ASSUME NEW p \in Procs, IOError(p)
      PROVE  [Memory!Next]_(Memory!vars)
    BY <1>0, <1>4, MapUnavailable DEF Memory!Next, IOError
<1>5. CASE PowerLoss
    BY <1>0, <1>5, MapPowerLoss DEF Memory!Next
<1>6. CASE UNCHANGED vars \/ (\E e \in Entries : Damage(e))
    <2>1. UNCHANGED <<slot, pc, op, reply, granted>>
        BY <1>6 DEF vars, Damage, disk, local
    <2>2. UNCHANGED <<Recorded, CallPhase, CallAsked, CallReply>>
        BY <2>1 DEF Recorded, Linked, CallPhase, CallAsked, CallReply
    <2> QED
        BY <2>1, <2>2 DEF Memory!vars
<1> QED
    BY <1>1, <1>2, <1>3, <1>4, <1>5, <1>6 DEF Next

\* The directory protocol implements the atomic registry: whatever is proved
\* of ReplayRegistry holds of the files.
THEOREM RegistryImplemented == Spec => ImplementsRegistry
<1>1. Init => Memory!Init
    BY MapInit
<1>2. RInv /\ [Next]_vars => [Memory!Next]_(Memory!vars)
    BY MapStep
<1> QED
    BY <1>1, <1>2, AnswerInvariance, PTL DEF Spec, ImplementsRegistry, Memory!Spec
=============================================================================
