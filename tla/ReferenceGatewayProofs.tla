----------------------- MODULE ReferenceGatewayProofs -----------------------
(***************************************************************************)
(* Proofs about ReferenceGateway, for any proposals, paths, limits, clocks *)
(* and numbers of deliveries.                                              *)
(***************************************************************************)
EXTENDS ReferenceGateway, WellFoundedInduction, TLAPS

Reasons == {"none", "time", "room", "disk"}

Sinks ==
    [pc : {"off", "reserving", "ready", "writing", "written", "renamed",
           "appended", "failed"},
     path : Paths \cup {None}, entries : Seq(Entries), next : Bundles \cup {None},
     synchronized : BOOLEAN, reason : Reasons]

\* The phases of a proposal that has been claimed and has no goal yet.
Undispatched == {"state", "assemble", "deciding", "execute", "refreshing"}

Phases ==
    Undispatched \cup {"idle", "claim", "dispatching", "recordDecision",
                       "recordExecution", "over"}

Jobs ==
    [pc : Phases,
     proposal : Proposals \cup {None}, refusing : BOOLEAN,
     stateAt : Int \cup {None}, now : Int, readAt : Int, before : Nat,
     madeAt : Int, sent : BOOLEAN, told : {"none", "yes", "no"}, lost : Reasons]

Contents == Bundles \cup {None, Torn}

SinkTypes ==
    /\ mono \in Nat /\ skew \in Nat
    /\ visible \in [Paths -> Contents]
    /\ possible \in [Paths -> SUBSET Contents]
    /\ acknowledged \in [Paths -> Seq(Entries)]
    /\ sink \in Sinks

GatewayTypes ==
    /\ claimed \subseteq Proposals
    /\ job \in Jobs
    /\ job.pc # "idle" => job.proposal \in Proposals
    /\ goalCount \in Nat
    /\ goals \in [Proposals -> Nat]

-----------------------------------------------------------------------------
(* The inductive invariant of the evidence file: readers find what the     *)
(* properties promise, and the sink and the file agree up to the entry     *)
(* that is being written.                                                  *)

Reserved ==
    sink.pc # "off" =>
        sink.path \in Paths /\ acknowledged[sink.path] = sink.entries

Prepared ==
    sink.pc \in {"writing", "written", "renamed"} =>
        /\ sink.next \in Bundles /\ Verifies(sink.next)
        /\ \E entry \in Entries : sink.next.entries = Append(sink.entries, entry)

Synchronized == sink.pc \in {"written", "renamed"} => sink.synchronized

Renamed == sink.pc = "renamed" => visible[sink.path] = sink.next

VisiblePossible == \A path \in Paths : visible[path] \in possible[path]

SinkInv ==
    /\ SinkTypes
    /\ Reserved /\ Prepared /\ Synchronized /\ Renamed /\ VisiblePossible
    /\ EvidenceReadable /\ AcknowledgedStays

-----------------------------------------------------------------------------
(* The inductive invariant of the gateway: a goal is behind a claim, the   *)
(* claim is in front of everything else, and the counter tells a goal of   *)
(* this payload from none.                                                 *)

GoalsClaimed == \A m \in Proposals : m \notin claimed => goals[m] = 0

ClaimedFirst ==
    job.pc \in Undispatched =>
        job.proposal \in claimed /\ goals[job.proposal] = 0

Counted ==
    /\ job.pc \in {"execute", "refreshing"} => goalCount = job.before
    /\ job.pc \in {"dispatching", "recordExecution"} /\ job.sent =>
          goalCount > job.before

\* The operator is told of a proposal when it is over.
ToldLast == job.told # "none" => job.pc = "over"

SentLate ==
    job.sent => job.pc \in {"dispatching", "recordExecution", "over"}

GatewayInv ==
    /\ GatewayTypes
    /\ GoalsClaimed /\ ClaimedFirst /\ Counted /\ ToldLast /\ SentLate
    /\ OneGoalPerProposal /\ ToldNoTruthfully

IInv == SinkInv /\ GatewayInv
-----------------------------------------------------------------------------
LEMMA Extends ==
    ASSUME NEW s \in Seq(Entries), NEW entry \in Entries
    PROVE  IsPrefix(s, s) /\ IsPrefix(s, Append(s, entry))
  BY DEF IsPrefix

LEMMA NoBundle == None \notin Bundles /\ Torn \notin Bundles /\ None # Torn
  BY SinkAssumption

LEMMA ReservationBundle == Reservation \in Bundles /\ Reservation.entries = <<>>
  BY DEF Reservation, Bundles

LEMMA SinkInitial == Init => SinkInv
<1> SUFFICES ASSUME SinkInit
             PROVE  SinkInv
  BY DEF Init
<1> USE DEF SinkInit
<1>1. SinkTypes
  BY SinkAssumption DEF SinkTypes, Contents, Sinks, Reasons, Off
<1>2. Reserved /\ Prepared /\ Synchronized /\ Renamed /\ VisiblePossible
  BY DEF Reserved, Prepared, Synchronized, Renamed, VisiblePossible, Off
<1>3. EvidenceReadable /\ AcknowledgedStays
  BY DEF EvidenceReadable, AcknowledgedStays
<1> QED
  BY <1>1, <1>2, <1>3 DEF SinkInv

\* The actions that leave the files as they are.
LEMMA SinkOnly ==
    ASSUME SinkInv, UNCHANGED files, mono' \in Nat, skew' \in Nat,
           sink' \in Sinks, Reserved', Prepared', Synchronized', Renamed'
    PROVE  SinkInv'
<1>1. SinkTypes'
  BY DEF SinkInv, SinkTypes, files
<1>2. VisiblePossible' /\ EvidenceReadable' /\ AcknowledgedStays'
  BY DEF SinkInv, VisiblePossible, EvidenceReadable, AcknowledgedStays, files
<1> QED
  BY <1>1, <1>2 DEF SinkInv

LEMMA SinkSame == SinkInv /\ UNCHANGED sinkVars => SinkInv'
<1> SUFFICES ASSUME SinkInv, UNCHANGED sinkVars
             PROVE  SinkInv'
  OBVIOUS
<1>1. UNCHANGED files /\ mono' \in Nat /\ skew' \in Nat /\ sink' \in Sinks
  BY DEF SinkInv, SinkTypes, sinkVars, clock
<1>2. Reserved' /\ Prepared' /\ Synchronized' /\ Renamed'
  BY DEF SinkInv, Reserved, Prepared, Synchronized, Renamed, sinkVars, files
<1> QED
  BY <1>1, <1>2, SinkOnly

LEMMA SinkReserve ==
    ASSUME SinkInv, NEW path \in Paths, Reserve(path)
    PROVE  SinkInv'
<1> USE DEF SinkInv, Reserve, Off
<1>1. acknowledged[path] = <<>>
  BY DEF AcknowledgedStays
<1>2. SinkTypes'
  BY ReservationBundle DEF SinkTypes, Contents, Sinks, Reasons
<1>3. Reserved' /\ Prepared' /\ Synchronized' /\ Renamed'
  BY <1>1 DEF Reserved, Prepared, Synchronized, Renamed, SinkTypes
<1>4. VisiblePossible'
  BY DEF VisiblePossible, SinkTypes
<1>5. EvidenceReadable'
  BY DEF EvidenceReadable, SinkTypes
<1>6. AcknowledgedStays'
  BY <1>1 DEF AcknowledgedStays, SinkTypes
<1> QED
  BY <1>2, <1>3, <1>4, <1>5, <1>6

\* What is visible on a path becomes its only possible content.
LEMMA SettledKeeps ==
    ASSUME SinkInv, NEW path \in Paths, Settled(path), UNCHANGED visible
    PROVE  /\ possible' \in [Paths -> SUBSET Contents]
           /\ VisiblePossible' /\ EvidenceReadable'
<1> USE DEF SinkInv, Settled, SinkTypes
<1>1. possible' \in [Paths -> SUBSET Contents]
  OBVIOUS
<1>2. VisiblePossible'
  BY DEF VisiblePossible
<1>3. EvidenceReadable'
  BY DEF EvidenceReadable
<1> QED
  BY <1>1, <1>2, <1>3

LEMMA SinkSynchronizeReservation ==
    ASSUME SinkInv, SynchronizeReservation
    PROVE  SinkInv'
<1> USE DEF SinkInv, SynchronizeReservation
<1>1. sink.path \in Paths /\ Settled(sink.path) /\ UNCHANGED visible
  BY DEF Reserved
<1>2. SinkTypes'
  BY <1>1, SettledKeeps DEF SinkTypes, Sinks, clock
<1>3. Reserved' /\ Prepared' /\ Synchronized' /\ Renamed'
  BY DEF Reserved, Prepared, Synchronized, Renamed, SinkTypes, Sinks
<1>4. AcknowledgedStays'
  BY <1>1 DEF AcknowledgedStays, Settled, SinkTypes
<1> QED
  BY <1>1, <1>2, <1>3, <1>4, SettledKeeps

LEMMA SinkBeginAppend ==
    ASSUME SinkInv, NEW entry \in Entries, BeginAppend(entry)
    PROVE  SinkInv'
<1> USE DEF SinkInv, BeginAppend
<1> DEFINE next == [createdAt |-> Wall, entries |-> Append(sink.entries, entry)]
<1>1. next \in Bundles
  BY DEF SinkTypes, Sinks, Bundles, Wall
<1>2. AppendRefused(entry) \in Reasons
  BY DEF AppendRefused, Reasons
<1>3. AppendRefused(entry) = "none" => Verifies(next)
  BY DEF AppendRefused
<1>4. sink' \in Sinks
  BY <1>1, <1>2 DEF SinkTypes, Sinks
<1>5. Reserved' /\ Synchronized' /\ Renamed'
  BY DEF Reserved, Synchronized, Renamed, SinkTypes, Sinks, files
<1>6. Prepared'
  <2>1. CASE AppendRefused(entry) = "none"
    <3>1. sink'.next = next /\ sink'.entries = sink.entries
      BY <2>1 DEF SinkTypes, Sinks
    <3> QED
      BY <3>1, <2>1, <1>1, <1>3 DEF Prepared
  <2>2. CASE AppendRefused(entry) # "none"
    BY <2>2 DEF Prepared, SinkTypes, Sinks
  <2> QED
    BY <2>1, <2>2
<1> QED
  BY <1>4, <1>5, <1>6, SinkOnly DEF SinkTypes, clock

LEMMA SinkSynchronizeTemporary ==
    ASSUME SinkInv, SynchronizeTemporary
    PROVE  SinkInv'
<1> USE DEF SinkInv, SynchronizeTemporary
<1>1. sink' \in Sinks
  BY DEF SinkTypes, Sinks
<1>2. Reserved' /\ Prepared' /\ Synchronized' /\ Renamed'
  BY DEF Reserved, Prepared, Synchronized, Renamed, SinkTypes, Sinks, files
<1> QED
  BY <1>1, <1>2, SinkOnly DEF SinkTypes, clock

LEMMA SinkRename ==
    ASSUME SinkInv, Rename
    PROVE  SinkInv'
<1> USE DEF SinkInv, Rename
<1>1. /\ sink.path \in Paths /\ acknowledged[sink.path] = sink.entries
      /\ sink.next \in Bundles /\ Verifies(sink.next) /\ sink.synchronized
  BY DEF Reserved, Prepared, Synchronized
<1>2. possible' = [possible EXCEPT ![sink.path] = @ \cup {sink.next}]
  BY <1>1
<1>3. SinkTypes'
  <2>1. visible' \in [Paths -> Contents] /\ possible' \in [Paths -> SUBSET Contents]
    BY <1>1, <1>2 DEF SinkTypes, Contents
  <2>2. sink' \in Sinks
    BY DEF SinkTypes, Sinks
  <2> QED
    BY <2>1, <2>2 DEF SinkTypes, clock
<1>4. Reserved' /\ Prepared' /\ Synchronized' /\ Renamed'
  BY <1>1 DEF Reserved, Prepared, Synchronized, Renamed, SinkTypes, Sinks
<1>5. VisiblePossible'
  BY <1>1, <1>2 DEF VisiblePossible, SinkTypes
<1>6. EvidenceReadable'
  BY <1>1, <1>2, NoBundle DEF EvidenceReadable, SinkTypes
<1>7. IsPrefix(sink.entries, sink.next.entries)
  BY Extends DEF Prepared, SinkTypes, Sinks
<1>8. AcknowledgedStays'
  BY <1>1, <1>2, <1>7, NoBundle DEF AcknowledgedStays, SinkTypes
<1> QED
  BY <1>3, <1>4, <1>5, <1>6, <1>8

LEMMA SinkSynchronizeDirectory ==
    ASSUME SinkInv, SynchronizeDirectory
    PROVE  SinkInv'
<1> USE DEF SinkInv, SynchronizeDirectory, Acknowledge
<1>1. /\ sink.path \in Paths /\ sink.next \in Bundles
      /\ visible[sink.path] = sink.next
      /\ Settled(sink.path) /\ UNCHANGED visible
  BY DEF Reserved, Prepared, Renamed
<1>2. sink.next.entries \in Seq(Entries)
  BY <1>1 DEF Bundles
<1>3. SinkTypes'
  BY <1>1, <1>2, SettledKeeps DEF SinkTypes, Sinks, clock
<1>4. Reserved' /\ Prepared' /\ Synchronized' /\ Renamed'
  BY <1>1 DEF Reserved, Prepared, Synchronized, Renamed, SinkTypes, Sinks
<1>5. IsPrefix(sink.next.entries, sink.next.entries)
  BY <1>2, Extends DEF IsPrefix
<1>6. AcknowledgedStays'
  BY <1>1, <1>2, <1>5, NoBundle DEF AcknowledgedStays, Settled, SinkTypes
<1> QED
  BY <1>1, <1>3, <1>4, <1>6, SettledKeeps

LEMMA SinkCallEnds ==
    ASSUME SinkInv, AppendFails \/ ReadyAgain
    PROVE  SinkInv'
<1> USE DEF SinkInv, AppendFails, ReadyAgain
<1>1. sink' \in Sinks
  BY DEF SinkTypes, Sinks, Reasons
<1>2. Reserved' /\ Prepared' /\ Synchronized' /\ Renamed'
  BY DEF Reserved, Prepared, Synchronized, Renamed, SinkTypes, Sinks, files
<1> QED
  BY <1>1, <1>2, SinkOnly DEF SinkTypes, clock

LEMMA SinkClock ==
    ASSUME SinkInv, Tick \/ \E s \in Skews : SetClock(s)
    PROVE  SinkInv'
<1> USE DEF SinkInv, Tick, SetClock
<1>1. mono' \in Nat /\ skew' \in Nat /\ UNCHANGED sink /\ UNCHANGED files
  BY SinkAssumption DEF SinkTypes
<1>2. Reserved' /\ Prepared' /\ Synchronized' /\ Renamed'
  BY <1>1 DEF Reserved, Prepared, Synchronized, Renamed, files
<1> QED
  BY <1>1, <1>2, SinkOnly DEF SinkTypes

LEMMA OffRelated ==
    ASSUME sink' = Off
    PROVE  sink' \in Sinks /\ Reserved' /\ Prepared' /\ Synchronized' /\ Renamed'
  BY DEF Off, Sinks, Reasons, Reserved, Prepared, Synchronized, Renamed

LEMMA SinkProcessEnds ==
    ASSUME SinkInv, ProcessEnds
    PROVE  SinkInv'
  BY SinkOnly, OffRelated DEF SinkInv, SinkTypes, ProcessEnds, clock

LEMMA SinkPowerLoss ==
    ASSUME SinkInv, PowerLoss
    PROVE  SinkInv'
<1> USE DEF SinkInv, PowerLoss, SinkTypes
<1>1. SinkTypes'
  BY OffRelated DEF clock
<1>2. VisiblePossible'
  BY DEF VisiblePossible
<1>3. EvidenceReadable'
  BY DEF EvidenceReadable
<1>4. AcknowledgedStays'
  BY DEF AcknowledgedStays
<1> QED
  BY <1>1, <1>2, <1>3, <1>4, OffRelated

-----------------------------------------------------------------------------
LEMMA NoJobType ==
    /\ NoJob \in Jobs /\ NoJob.pc = "idle"
    /\ ~NoJob.sent /\ NoJob.told = "none" /\ NoJob.lost = "none"
  BY DEF NoJob, Jobs, Phases, Undispatched, Reasons

LEMMA GatewayInitial == Init => GatewayInv
<1> SUFFICES ASSUME Init
             PROVE  GatewayInv
  OBVIOUS
<1> USE NoJobType DEF Init
<1>1. GatewayTypes
  BY DEF GatewayTypes
<1>2. GoalsClaimed /\ ClaimedFirst /\ Counted /\ ToldLast /\ SentLate
  BY DEF GoalsClaimed, ClaimedFirst, Counted, ToldLast, SentLate, Undispatched
<1>3. OneGoalPerProposal /\ ToldNoTruthfully
  BY DEF OneGoalPerProposal, ToldNoTruthfully
<1> QED
  BY <1>1, <1>2, <1>3 DEF GatewayInv

\* The actions of the evidence file alone.
LEMMA GatewaySame == GatewayInv /\ UNCHANGED gatewayVars => GatewayInv'
  BY DEF GatewayInv, GatewayTypes, GoalsClaimed, ClaimedFirst, Counted, ToldLast, SentLate,
     OneGoalPerProposal, ToldNoTruthfully, gatewayVars

\* The actions that claim nothing, send nothing and count nothing.
LEMMA JobOnly ==
    ASSUME GatewayInv, job' \in Jobs, job'.pc # "idle" => job'.proposal \in Proposals,
           UNCHANGED <<claimed, goals>>, goalCount' \in Nat,
           ClaimedFirst', Counted', ToldLast', SentLate', ToldNoTruthfully'
    PROVE  GatewayInv'
<1>1. GatewayTypes'
  BY DEF GatewayInv, GatewayTypes
<1>2. GoalsClaimed' /\ OneGoalPerProposal'
  BY DEF GatewayInv, GoalsClaimed, OneGoalPerProposal
<1> QED
  BY <1>1, <1>2 DEF GatewayInv

LEMMA StepHandlePayload ==
    ASSUME GatewayInv, NEW m \in Proposals, HandlePayload(m)
    PROVE  GatewayInv'
<1> USE DEF GatewayInv, HandlePayload
<1>1. job' \in Jobs /\ job'.pc = "claim" /\ job'.proposal = m
      /\ ~job'.sent /\ job'.told = "none"
  BY NoJobType DEF Jobs, Phases
<1>2. ClaimedFirst' /\ Counted' /\ ToldLast' /\ SentLate' /\ ToldNoTruthfully'
  BY <1>1 DEF ClaimedFirst, Counted, ToldLast, SentLate, ToldNoTruthfully, Undispatched
<1> QED
  BY <1>1, <1>2, JobOnly DEF GatewayTypes

\* What Record leaves of the job.
LEMMA Recorded ==
    ASSUME GatewayTypes, NEW sent, NEW madeAt, NEW stateAt,
           NEW then \in {"recordDecision", "recordExecution"},
           Record(sent, madeAt, stateAt, then)
    PROVE  /\ job' \in Jobs /\ job'.pc = then /\ job'.proposal = job.proposal
           /\ job'.sent = job.sent /\ job'.before = job.before
           /\ job'.told = "none"
<1>1. job' = [NoJob EXCEPT !.pc = then, !.proposal = job.proposal,
                           !.sent = job.sent, !.before = job.before]
  BY DEF Record
<1>2. /\ then \in Phases /\ job.proposal \in Proposals \cup {None}
      /\ job.sent \in BOOLEAN /\ job.before \in Nat
  BY DEF GatewayTypes, Jobs, Phases
<1> QED
  BY <1>1, <1>2, NoJobType DEF Jobs

LEMMA StepRecord ==
    ASSUME GatewayInv, NEW sent, NEW madeAt, NEW stateAt,
           NEW then \in {"recordDecision", "recordExecution"},
           Record(sent, madeAt, stateAt, then), job.pc # "idle",
           job.sent => job.pc = "dispatching" /\ then = "recordExecution",
           UNCHANGED <<claimed, goalCount, goals>>
    PROVE  GatewayInv'
<1> USE DEF GatewayInv
<1>1. ClaimedFirst' /\ Counted' /\ ToldLast' /\ SentLate' /\ ToldNoTruthfully'
  BY Recorded DEF ClaimedFirst, Counted, ToldLast, SentLate, ToldNoTruthfully, Undispatched
<1> QED
  BY <1>1, Recorded, JobOnly DEF GatewayTypes

LEMMA StepClaimGranted ==
    ASSUME GatewayInv, ClaimGranted
    PROVE  GatewayInv'
<1> USE DEF GatewayInv, ClaimGranted, At, Goto
<1>1. job' \in Jobs /\ job'.pc \in {"state", "assemble"}
      /\ job'.proposal = job.proposal /\ job'.sent = job.sent
      /\ job'.told = job.told /\ job'.before = job.before
  <2>1. job \in Jobs
    BY DEF GatewayTypes
  <2>2. CASE job' = [job EXCEPT !.pc = "state"]
    BY <2>1, <2>2 DEF Jobs, Phases, Undispatched
  <2>3. CASE job' = [job EXCEPT !.pc = "assemble", !.refusing = TRUE]
    BY <2>1, <2>3 DEF Jobs, Phases, Undispatched
  <2> QED
    BY <2>2, <2>3
<1>2. job.proposal \in Proposals /\ goals[job.proposal] = 0
  BY DEF GatewayTypes, GoalsClaimed
<1>3. GatewayTypes'
  BY <1>1, <1>2 DEF GatewayTypes
<1>4. GoalsClaimed' /\ OneGoalPerProposal'
  BY DEF GoalsClaimed, OneGoalPerProposal
<1>5. ClaimedFirst' /\ Counted' /\ ToldLast' /\ SentLate' /\ ToldNoTruthfully'
  BY <1>1, <1>2 DEF ClaimedFirst, Counted, ToldLast, SentLate, ToldNoTruthfully
<1> QED
  BY <1>3, <1>4, <1>5

LEMMA StepClaimRefused ==
    ASSUME GatewayInv, ClaimRefused
    PROVE  GatewayInv'
<1> USE DEF GatewayInv, ClaimRefused, At
<1>1. Record(FALSE, Wall, None, "recordDecision") /\ ~job.sent
  BY DEF SentLate
<1>2. job' \in Jobs /\ job'.pc = "recordDecision" /\ job'.proposal = job.proposal
      /\ ~job'.sent /\ job'.told = "none"
  BY <1>1, Recorded
<1>3. GatewayTypes'
  BY <1>2 DEF GatewayTypes
<1>4. GoalsClaimed' /\ OneGoalPerProposal'
  BY DEF GoalsClaimed, OneGoalPerProposal
<1>5. ClaimedFirst' /\ Counted' /\ ToldLast' /\ SentLate' /\ ToldNoTruthfully'
  BY <1>2 DEF ClaimedFirst, Counted, ToldLast, SentLate, ToldNoTruthfully, Undispatched
<1> QED
  BY <1>3, <1>4, <1>5

\* The steps between the claim and the permit.
LEMMA StepBeforePermit ==
    ASSUME SinkTypes, GatewayInv, GetFreshJointState \/ JointStateMissing \/ Assemble
    PROVE  GatewayInv'
<1> USE DEF GatewayInv, GetFreshJointState, JointStateMissing, Assemble, At
<1>1. Wall \in Int /\ mono \in Int
  BY DEF SinkTypes, Wall
<1>2. job.pc \in Undispatched /\ ~job.sent
  BY DEF Undispatched, SentLate
<1>j. job \in Jobs
  BY DEF GatewayTypes
<1>3. job' \in Jobs /\ job'.pc \in {"assemble", "deciding"}
      /\ job'.proposal = job.proposal /\ job'.sent = job.sent
      /\ job'.told = job.told
  <2>1. CASE GetFreshJointState
    BY <1>1, <1>j, <2>1 DEF Jobs, Phases, Undispatched
  <2>2. CASE JointStateMissing
    BY <1>1, <1>j, <2>2 DEF Jobs, Phases, Undispatched
  <2>3. CASE Assemble
    BY <1>1, <1>j, <2>3 DEF Jobs, Phases, Undispatched
  <2> QED
    BY <2>1, <2>2, <2>3
<1>4. ClaimedFirst' /\ Counted' /\ ToldLast' /\ SentLate' /\ ToldNoTruthfully'
  BY <1>2, <1>3 DEF ClaimedFirst, Counted, ToldLast, SentLate, ToldNoTruthfully
<1> QED
  BY <1>2, <1>3, <1>4, JobOnly DEF GatewayTypes, Undispatched

LEMMA StepIssuePermit ==
    ASSUME SinkTypes, GatewayInv, IssuePermit \/ EnterExecute
    PROVE  GatewayInv'
<1> USE DEF GatewayInv, IssuePermit, EnterExecute, At, Goto
<1>1. Projected \in Int /\ mono \in Int
  BY DEF SinkTypes, Projected, GatewayTypes, Jobs
<1>2. job.pc \in Undispatched /\ ~job.sent
  BY DEF Undispatched, SentLate
<1>3. job' \in Jobs /\ job'.pc \in {"execute", "refreshing"}
      /\ job'.proposal = job.proposal /\ job'.sent = job.sent
      /\ job'.told = job.told /\ job'.before = goalCount
  BY <1>1 DEF GatewayTypes, Jobs, Phases, Undispatched, Counted
<1>4. ClaimedFirst' /\ Counted' /\ ToldLast' /\ SentLate' /\ ToldNoTruthfully'
  BY <1>2, <1>3 DEF ClaimedFirst, Counted, ToldLast, SentLate, ToldNoTruthfully
<1> QED
  BY <1>2, <1>3, <1>4, JobOnly DEF GatewayTypes, Undispatched

\* The proposal is claimed and has no goal: the one sent here is its first.
LEMMA StepDispatchTrajectory ==
    ASSUME SinkTypes, GatewayInv, DispatchTrajectory
    PROVE  GatewayInv'
<1> USE DEF GatewayInv, DispatchTrajectory, At
<1>1. ExecutionNow \in Int
  BY DEF SinkTypes, ExecutionNow, Projected, Wall, GatewayTypes, Jobs
<1>2. /\ job.proposal \in Proposals /\ job.proposal \in claimed
      /\ goals[job.proposal] = 0 /\ goalCount = job.before
  BY DEF ClaimedFirst, Counted, GatewayTypes, Undispatched
<1>3. PICK sent \in BOOLEAN :
          /\ job' = [job EXCEPT !.pc = "dispatching", !.sent = sent,
                                !.madeAt = ExecutionNow]
          /\ goals' = [goals EXCEPT ![job.proposal] = @ + IF sent THEN 1 ELSE 0]
  OBVIOUS
<1>4. job' \in Jobs /\ job'.pc = "dispatching" /\ job'.proposal = job.proposal
      /\ job'.before = job.before /\ job'.told = job.told
  BY <1>1, <1>3 DEF GatewayTypes, Jobs, Phases
<1>5. goals' \in [Proposals -> Nat] /\ goals'[job.proposal] <= 1
  BY <1>2, <1>3 DEF GatewayTypes
<1>6. GatewayTypes'
  BY <1>2, <1>4, <1>5 DEF GatewayTypes
<1>7. GoalsClaimed' /\ OneGoalPerProposal'
  BY <1>2, <1>3, <1>5 DEF GoalsClaimed, OneGoalPerProposal, GatewayTypes
<1>8. ClaimedFirst' /\ Counted' /\ ToldLast' /\ SentLate'
  BY <1>2, <1>4 DEF ClaimedFirst, Counted, ToldLast, SentLate, Undispatched, GatewayTypes, Jobs
<1>9. ToldNoTruthfully'
  BY <1>4 DEF ToldLast, ToldNoTruthfully
<1> QED
  BY <1>6, <1>7, <1>8, <1>9

\* "no" is said of a payload whose goal was not counted, so was not sent.
LEMMA StepOver ==
    ASSUME GatewayInv, NEW lost \in Reasons, Over(lost),
           job.pc \in {"execute", "recordDecision", "recordExecution"},
           UNCHANGED <<claimed, goalCount, goals>>
    PROVE  GatewayInv'
<1> USE DEF GatewayInv, Over, At
<1>1. job' \in Jobs /\ job'.pc = "over" /\ job'.proposal = job.proposal
      /\ job'.sent = job.sent
  BY NoJobType DEF GatewayTypes, Jobs, Phases
<1>2. job.sent => job'.told = "yes"
  BY NoJobType DEF SentLate, Counted, GatewayTypes, Jobs
<1>3. ClaimedFirst' /\ Counted' /\ ToldLast' /\ SentLate' /\ ToldNoTruthfully'
  BY <1>1, <1>2 DEF ClaimedFirst, Counted, ToldLast, SentLate, ToldNoTruthfully, Undispatched
<1> QED
  BY <1>1, <1>3, JobOnly DEF GatewayTypes

LEMMA StepGone ==
    ASSUME GatewayInv, Gone
    PROVE  GatewayInv'
<1> USE DEF GatewayInv, Gone
<1>1. job' \in Jobs /\ job'.pc = "idle" /\ ~job'.sent /\ job'.told = "none"
  BY NoJobType
<1>2. ClaimedFirst' /\ Counted' /\ ToldLast' /\ SentLate' /\ ToldNoTruthfully'
  BY <1>1 DEF ClaimedFirst, Counted, ToldLast, SentLate, ToldNoTruthfully, Undispatched
<1> QED
  BY <1>1, <1>2, JobOnly

-----------------------------------------------------------------------------
\* The entry of a proposal is well formed, so that the sink may be asked.
LEMMA SinkRecord ==
    ASSUME IInv, NEW sent \in BOOLEAN, NEW madeAt \in Int,
           NEW stateAt \in Int \cup {None}, NEW then,
           Record(sent, madeAt, stateAt, then), job.pc # "idle"
    PROVE  SinkInv'
<1> DEFINE entry == [proposal |-> job.proposal, sent |-> sent,
                     madeAt |-> madeAt, stateAt |-> stateAt]
<1>1. entry \in Entries
  BY DEF Entries, IInv, GatewayInv, GatewayTypes
<1>2. BeginAppend(entry)
  BY DEF Record
<1> HIDE DEF entry
<1> QED
  BY <1>1, <1>2, SinkBeginAppend DEF IInv

LEMMA GatewayActions == IInv /\ Gateway => IInv'
<1> SUFFICES ASSUME IInv, Gateway
             PROVE  SinkInv' /\ GatewayInv'
  BY DEF IInv
<1> USE DEF IInv
<1>1. /\ mono \in Int /\ Wall \in Int /\ Projected \in Int /\ ExecutionNow \in Int
      /\ job.now \in Int /\ job.madeAt \in Int /\ job.stateAt \in Int \cup {None}
      /\ sink.reason \in Reasons
  BY DEF SinkInv, SinkTypes, Sinks, Wall, Projected, ExecutionNow, GatewayInv,
     GatewayTypes, Jobs
<1>2. SinkTypes /\ GatewayTypes
  BY DEF SinkInv, GatewayInv
<1>3. ASSUME NEW m \in Proposals, HandlePayload(m)
      PROVE  SinkInv' /\ GatewayInv'
  BY <1>3, SinkSame, StepHandlePayload DEF HandlePayload
<1>4. CASE ClaimGranted
  BY <1>4, SinkSame, StepClaimGranted DEF ClaimGranted
<1>5. CASE ClaimRefused
  BY <1>1, <1>5, SinkRecord, StepClaimRefused DEF ClaimRefused, At
<1>6. CASE GetFreshJointState \/ JointStateMissing \/ Assemble
  BY <1>2, <1>6, SinkSame, StepBeforePermit
     DEF GetFreshJointState, JointStateMissing, Assemble
<1>7. CASE Refuse
  <2>1. PICK madeAt \in {job.now, Projected} :
            Record(FALSE, madeAt, job.stateAt, "recordDecision")
    BY <1>7 DEF Refuse
  <2>2. ~job.sent /\ job.pc # "idle"
    BY <1>7 DEF Refuse, At, GatewayInv, SentLate
  <2> QED
    BY <1>1, <1>7, <2>1, <2>2, SinkRecord, StepRecord DEF Refuse
<1>8. CASE IssuePermit \/ EnterExecute
  BY <1>2, <1>8, SinkSame, StepIssuePermit DEF IssuePermit, EnterExecute
<1>9. CASE NoRoomToDispatch
  BY <1>9, SinkSame, StepOver DEF NoRoomToDispatch, At, Reasons
<1>10. CASE RefuseExecution
  <2>1. ~job.sent /\ job.pc # "idle"
    BY <1>10 DEF RefuseExecution, GatewayInv, SentLate
  <2> QED
    BY <1>1, <1>10, <2>1, SinkRecord, StepRecord DEF RefuseExecution
<1>11. CASE DispatchTrajectory
  BY <1>2, <1>11, SinkSame, StepDispatchTrajectory DEF DispatchTrajectory
<1>12. CASE DispatchSettles
  BY <1>1, <1>12, SinkRecord, StepRecord DEF DispatchSettles, At
<1>13. CASE AppendSettles
  BY <1>1, <1>13, SinkCallEnds, StepOver DEF AppendSettles
<1> QED
  BY <1>3, <1>4, <1>5, <1>6, <1>7, <1>8, <1>9, <1>10, <1>11, <1>12, <1>13
     DEF Gateway

LEMMA Preserved == IInv /\ [Next]_vars => IInv'
<1> SUFFICES ASSUME IInv, [Next]_vars
             PROVE  IInv'
  OBVIOUS
<1> USE DEF IInv
<1>1. ASSUME NEW path \in Paths, Start(path)
      PROVE  IInv'
  BY <1>1, SinkReserve, GatewaySame DEF Start
<1>2. CASE WriteStep /\ UNCHANGED gatewayVars
  BY <1>2, SinkSynchronizeReservation, SinkSynchronizeTemporary, SinkRename,
     SinkSynchronizeDirectory, SinkCallEnds, GatewaySame DEF WriteStep
<1>3. CASE /\ Tick \/ \E s \in Skews : SetClock(s)
           /\ UNCHANGED gatewayVars
  BY <1>3, SinkClock, GatewaySame
<1>4. CASE (ProcessEnds \/ PowerLoss) /\ Gone
  BY <1>4, SinkProcessEnds, SinkPowerLoss, StepGone
<1>5. CASE UNCHANGED vars
  BY <1>5, SinkSame, GatewaySame DEF vars
<1> QED
  BY <1>1, <1>2, <1>3, <1>4, <1>5, GatewayActions DEF Next

\* The strengthening that the properties follow from holds in every behaviour.
THEOREM Invariance == Spec => []IInv
<1>1. Init => IInv
  BY SinkInitial, GatewayInitial DEF IInv
<1> QED
  BY <1>1, Preserved, PTL DEF Spec

\* Whatever crashes, loses power or fails, and however often a proposal is
\* delivered: the controller gets at most one goal for it.
THEOREM MovesAtMostOnce == Spec => []OneGoalPerProposal
  BY Invariance, PTL DEF IInv, GatewayInv

\* A hardware signal that was sent is never denied to the caller.
THEOREM NeverDenied == Spec => []ToldNoTruthfully
  BY Invariance, PTL DEF IInv, GatewayInv

\* At every moment, and after every crash, each evidence file is the empty
\* reservation or a bundle that verifies.
THEOREM AlwaysReadable == Spec => []EvidenceReadable
  BY Invariance, PTL DEF IInv, SinkInv

\* An entry that the sink has acknowledged stays at its place for ever.
THEOREM NothingAcknowledgedIsLost == Spec => []AcknowledgedStays
  BY Invariance, PTL DEF IInv, SinkInv

-----------------------------------------------------------------------------
(* The size of a bundle.                                                   *)

LEMMA LeastNumber ==
    ASSUME NEW T, T \subseteq Nat, T # {}
    PROVE  \E x \in T : \A y \in T : x <= y
<1>1. PICK x \in T : \A y \in T : ~(<<y, x>> \in OpToRel(<, Nat))
  BY NatLessThanWellFounded, WFMin, Zenon
<1>2. \A y \in T : ~(y < x)
  BY <1>1, Zenon DEF OpToRel
<1> QED
  BY <1>2

\* f[k] is the size of the first k entries of s.
Adds(f, s, n) ==
    f = [k \in 0..n |-> IF k = 0 THEN 0 ELSE f[k - 1] + Size[s[k].proposal]]

LEMMA SizesExist ==
    ASSUME NEW s \in Seq(Entries), NEW n \in 0..Len(s)
    PROVE  \E f \in [0..n -> Nat] : Adds(f, s, n)
<1> DEFINE T == {m \in 0..Len(s) : ~\E f \in [0..m -> Nat] : Adds(f, s, m)}
<1>1. SUFFICES ASSUME T # {} PROVE FALSE
  OBVIOUS
<1>t. T \subseteq Nat
  OBVIOUS
<1> HIDE DEF T
<1>2. PICK x \in T : \A y \in T : x <= y
  BY <1>1, <1>t, LeastNumber, Zenon
<1> USE DEF T
<1>3. x # 0
  <2> SUFFICES ASSUME x = 0 PROVE FALSE
    OBVIOUS
  <2> DEFINE f == [k \in 0..0 |-> 0]
  <2>1. f \in [0..0 -> Nat] /\ Adds(f, s, 0)
    BY DEF Adds
  <2> QED
    BY <2>1
<1>4. x \in 1..Len(s) /\ x - 1 \in 0..Len(s) /\ x - 1 \notin T
  <2>1. x \in 0..Len(s) /\ Len(s) \in Nat /\ \A y \in T : x <= y
    BY <1>2
  <2> HIDE DEF T
  <2> QED
    BY <1>3, <2>1
<1>5. PICK f \in [0..(x - 1) -> Nat] : Adds(f, s, x - 1)
  BY <1>4
<1> DEFINE g == [k \in 0..x |-> IF k = x THEN f[x - 1] + Size[s[x].proposal] ELSE f[k]]
<1>6. Size[s[x].proposal] \in Nat
  <2>1. s[x] \in Entries
    BY <1>4
  <2>2. s[x].proposal \in Proposals
    BY <2>1 DEF Entries
  <2> QED
    BY <2>2, SinkAssumption
<1>7. g \in [0..x -> Nat]
  <2>1. f[x - 1] \in Nat /\ \A k \in 0..x : k # x => f[k] \in Nat
    BY <1>4, <1>5
  <2> QED
    BY <1>6, <2>1
<1>8. ASSUME NEW k \in 0..x
      PROVE  g[k] = IF k = 0 THEN 0 ELSE g[k - 1] + Size[s[k].proposal]
  <2>1. CASE k = x
    BY <1>4, <2>1
  <2>2. CASE k # x
    <3>1. k \in 0..(x - 1) /\ (k # 0 => k - 1 \in 0..(x - 1) /\ k - 1 # x /\ k - 1 \in 0..x)
      BY <1>4, <2>2
    <3>2. f[k] = IF k = 0 THEN 0 ELSE f[k - 1] + Size[s[k].proposal]
      BY <1>5, <3>1 DEF Adds
    <3> QED
      BY <2>2, <3>1, <3>2
  <2> QED
    BY <2>1, <2>2
<1>9. Adds(g, s, x)
  BY <1>8 DEF Adds
<1> QED
  BY <1>4, <1>7, <1>9

SameEntries(s, t, m) == \A k \in 1..m : s[k] = t[k]

\* Entries in common have sizes in common.
LEMMA SizesAgree ==
    ASSUME NEW s, NEW t, NEW m \in Nat, NEW n \in Nat, m <= n, SameEntries(s, t, m),
           NEW f, NEW g, Adds(f, s, m), Adds(g, t, n)
    PROVE  f[m] = g[m]
<1> DEFINE T == {k \in 0..m : f[k] # g[k]}
<1>1. SUFFICES ASSUME T # {} PROVE FALSE
  <2>1. m \in 0..m
    OBVIOUS
  <2> QED
    BY <2>1
<1>t. T \subseteq Nat
  OBVIOUS
<1> HIDE DEF T
<1>2. PICK x \in T : \A y \in T : x <= y
  BY <1>1, <1>t, LeastNumber, Zenon
<1> USE DEF T
<1>3. /\ f[x] = IF x = 0 THEN 0 ELSE f[x - 1] + Size[s[x].proposal]
      /\ g[x] = IF x = 0 THEN 0 ELSE g[x - 1] + Size[t[x].proposal]
  BY DEF Adds
<1>4. x # 0 => f[x - 1] = g[x - 1] /\ s[x] = t[x]
  <2>1. x \in 0..m /\ \A y \in 0..m : y < x => f[y] = g[y]
    BY <1>2
  <2> QED
    BY <2>1 DEF SameEntries
<1> QED
  BY <1>3, <1>4

LEMMA BytesAre ==
    ASSUME NEW s \in Seq(Entries)
    PROVE  \E f \in [0..Len(s) -> Nat] : Adds(f, s, Len(s)) /\ Bytes(s) = f[Len(s)]
<1> DEFINE g == CHOOSE f : Adds(f, s, Len(s))
<1>1. Bytes(s) = g[Len(s)]
  BY DEF Bytes, Adds
<1>2. PICK f \in [0..Len(s) -> Nat] : Adds(f, s, Len(s))
  BY SizesExist
<1>3. Adds(g, s, Len(s))
  BY <1>2
<1> HIDE DEF g
<1>4. f[Len(s)] = g[Len(s)]
  BY <1>2, <1>3, SizesAgree DEF SameEntries
<1> QED
  BY <1>1, <1>2, <1>4

\* An entry more takes the size of its proposal.
LEMMA BytesAppend ==
    ASSUME NEW s \in Seq(Entries), NEW entry \in Entries
    PROVE  /\ Bytes(s) \in Nat
           /\ Bytes(Append(s, entry)) = Bytes(s) + Size[entry.proposal]
<1> DEFINE t == Append(s, entry)
<1>1. t \in Seq(Entries) /\ Len(t) = Len(s) + 1 /\ t[Len(t)] = entry
      /\ \A k \in 1..Len(s) : s[k] = t[k]
  OBVIOUS
<1> HIDE DEF t
<1>2. PICK f \in [0..Len(s) -> Nat] : Adds(f, s, Len(s)) /\ Bytes(s) = f[Len(s)]
  BY BytesAre
<1>3. PICK g \in [0..Len(t) -> Nat] : Adds(g, t, Len(t)) /\ Bytes(t) = g[Len(t)]
  BY <1>1, BytesAre
<1>4. g[Len(t)] = g[Len(s)] + Size[entry.proposal]
  BY <1>1, <1>3 DEF Adds
<1>5. g[Len(s)] = f[Len(s)]
  <2>1. Len(s) \in Nat /\ Len(t) \in Nat /\ Len(s) <= Len(t)
    BY <1>1
  <2>2. SameEntries(s, t, Len(s))
    BY <1>1 DEF SameEntries
  <2> QED
    BY <1>2, <1>3, <2>1, <2>2, SizesAgree
<1> QED
  BY <1>2, <1>3, <1>4, <1>5 DEF t

-----------------------------------------------------------------------------
(* The inductive invariant of a dispatch and its entry: the sink waits for *)
(* it with room to spare, and its time comes after those of all entries.   *)

Appending == {"writing", "written", "renamed"}

InStep ==
    /\ job.pc = "idle" => sink.pc \in {"off", "reserving", "ready"}
    /\ job.pc \in Undispatched \cup {"claim", "dispatching", "over"} => sink.pc = "ready"
    /\ job.pc \in {"recordDecision", "recordExecution"} =>
          sink.pc \in Appending \cup {"appended", "failed"}

RoomKept == job.pc \in {"refreshing", "dispatching"} => HasRoom

\* Of the entries by themselves, what a bundle needs to verify.
Chained(entries) ==
    \A k \in DOMAIN entries :
        /\ k > 1 => entries[k - 1].madeAt <= entries[k].madeAt
        /\ entries[k].stateAt # None => entries[k].stateAt <= entries[k].madeAt

\* The times that are compared with the wall clock, if it was not set back.
NothingAhead ==
    /\ \A k \in DOMAIN sink.entries : sink.entries[k].madeAt <= Wall
    /\ sink.pc \in Appending => sink.next.createdAt <= Wall
    /\ job.pc \in {"deciding", "execute", "refreshing"} => Projected <= Wall
    /\ job.pc = "dispatching" =>
          /\ job.madeAt <= Wall
          /\ \A k \in DOMAIN sink.entries : sink.entries[k].madeAt <= job.madeAt

\* The state was observed before the decision, and the decision before the goal.
StateFirst ==
    /\ job.pc \in {"deciding", "execute", "refreshing"} => job.readAt <= mono
    /\ job.pc \in {"execute", "refreshing"} /\ job.stateAt # None =>
          job.stateAt <= job.now
    /\ job.pc = "dispatching" /\ job.stateAt # None => job.stateAt <= job.madeAt

TellsOfGoal(entries) ==
    \E k \in DOMAIN entries : entries[k].proposal = job.proposal /\ entries[k].sent

\* Why the sink may have failed to take the entry of a goal.
LossExplained ==
    \/ sink.reason = "disk"
    \/ sink.reason = "time" /\ setBack
    \/ sink.reason = "room" /\ Size[job.proposal] > DispatchReserve

\* The entry of a goal on its way to the file.
OnItsWay ==
    At("recordExecution") /\ job.sent =>
        /\ sink.pc \in Appending => TellsOfGoal(sink.next.entries)
        /\ sink.pc = "appended" => TellsOfGoal(sink.entries)
        /\ sink.pc = "failed" => LossExplained

RecordInv ==
    /\ InStep /\ RoomKept /\ Chained(sink.entries)
    /\ ~setBack => NothingAhead
    /\ StateFirst /\ OnItsWay /\ DispatchRecorded

LEMMA RecordInitial == Init => RecordInv
<1> SUFFICES ASSUME Init PROVE RecordInv
  OBVIOUS
<1>1. /\ job.pc = "idle" /\ sink.pc = "off" /\ sink.entries = <<>> /\ ~job.sent
  BY DEF Init, SinkInit, NoJob, Off
<1> QED
  BY <1>1 DEF RecordInv, InStep, RoomKept, Chained, NothingAhead, StateFirst, OnItsWay,
              DispatchRecorded, At, Undispatched, Appending

\* The types that the comparisons of times need.
LEMMA Times ==
    ASSUME IInv
    PROVE  /\ mono \in Int /\ skew \in Int /\ Wall \in Int /\ Projected \in Int
           /\ job.now \in Int /\ job.readAt \in Int /\ job.madeAt \in Int
           /\ job.stateAt \in Int \cup {None} /\ job.sent \in BOOLEAN
           /\ sink.entries \in Seq(Entries)
           /\ \A k \in DOMAIN sink.entries : sink.entries[k].madeAt \in Int
           /\ sink.pc \in Appending => sink.next.createdAt \in Int
<1>1. /\ mono \in Int /\ skew \in Int /\ sink.entries \in Seq(Entries)
      /\ job \in Jobs
      /\ sink.pc \in Appending => sink.next \in Bundles
  BY DEF IInv, SinkInv, SinkTypes, Sinks, GatewayInv, GatewayTypes, Prepared, Appending
<1>2. \A k \in DOMAIN sink.entries : sink.entries[k] \in Entries
  BY <1>1
<1>3. /\ job.now \in Int /\ job.readAt \in Int /\ job.madeAt \in Int
      /\ job.stateAt \in Int \cup {None} /\ job.sent \in BOOLEAN
  BY <1>1 DEF Jobs
<1>4. \A k \in DOMAIN sink.entries : sink.entries[k].madeAt \in Int
  BY <1>2 DEF Entries
<1>5. sink.pc \in Appending => sink.next.createdAt \in Int
  BY <1>1 DEF Bundles
<1> QED
  BY <1>1, <1>3, <1>4, <1>5 DEF Wall, Projected

LEMMA Handled ==
    ASSUME NEW m \in Proposals, HandlePayload(m)
    PROVE  job'.pc = "claim" /\ sink.pc = "ready"
  BY NoJobType DEF HandlePayload, Jobs

\* The steps of a job that do not involve the sink, but for a dispatch: none of
\* them ends with a goal sent.
LEMMA RecordBefore ==
    ASSUME IInv, RecordInv, UNCHANGED sinkVars,
           \/ \E m \in Proposals : HandlePayload(m)
           \/ ClaimGranted \/ GetFreshJointState \/ JointStateMissing \/ Assemble
           \/ IssuePermit \/ NoRoomToDispatch \/ EnterExecute
    PROVE  RecordInv'
<1>1. /\ UNCHANGED <<sink, mono, skew, setBack>> /\ Wall' = Wall
  BY DEF sinkVars, clock, Wall
<1>2. /\ job \in Jobs /\ sink.pc = "ready"
      /\ job'.pc \in Undispatched \cup {"claim", "over"}
      /\ job'.pc = "over" => ~job'.sent
  <2>1. job \in Jobs /\ SentLate /\ InStep
    BY DEF IInv, GatewayInv, GatewayTypes, RecordInv
  <2>2. CASE \E m \in Proposals : HandlePayload(m)
    BY <2>1, <2>2, Handled
  <2>3. CASE ClaimGranted
    <3>1. sink.pc = "ready"
      BY <2>1, <2>3 DEF ClaimGranted, At, InStep
    <3>2. job'.pc \in {"state", "assemble"}
      BY <2>1, <2>3 DEF ClaimGranted, Goto, Jobs
    <3> QED
      BY <2>1, <3>1, <3>2 DEF Undispatched
  <2>6. CASE GetFreshJointState \/ JointStateMissing \/ Assemble
    <3>1. sink.pc = "ready"
      BY <2>1, <2>6 DEF GetFreshJointState, JointStateMissing, Assemble, At, InStep, Undispatched
    <3>2. job'.pc \in {"assemble", "deciding"}
      BY <2>1, <2>6 DEF GetFreshJointState, JointStateMissing, Assemble, Jobs
    <3> QED
      BY <2>1, <3>1, <3>2 DEF Undispatched
  <2>4. CASE IssuePermit \/ EnterExecute
    BY <2>1, <2>4 DEF IssuePermit, EnterExecute, At, Goto, Jobs, InStep, Undispatched
  <2>5. CASE NoRoomToDispatch
    BY <2>1, <2>5, NoJobType DEF NoRoomToDispatch, Over, At, Jobs, InStep, Undispatched, SentLate
  <2> QED
    BY <2>1, <2>2, <2>3, <2>4, <2>5, <2>6
<1>3. InStep' /\ OnItsWay' /\ DispatchRecorded' /\ Chained(sink'.entries)
  BY <1>1, <1>2 DEF InStep, OnItsWay, DispatchRecorded, At, Undispatched, RecordInv
<1>4. RoomKept'
  <2>1. CASE EnterExecute
    BY <1>1, <2>1 DEF EnterExecute, RoomKept, HasRoom
  <2>2. CASE ~EnterExecute
    <3>1. CASE \E m \in Proposals : HandlePayload(m)
      BY <3>1, Handled DEF RoomKept
    <3>2. CASE ClaimGranted
      BY <1>2, <3>2 DEF ClaimGranted, Goto, Jobs, RoomKept
    <3>4. CASE GetFreshJointState \/ JointStateMissing \/ Assemble \/ IssuePermit
      BY <1>2, <3>4 DEF GetFreshJointState, JointStateMissing, Assemble, IssuePermit, Jobs, RoomKept
    <3>3. CASE NoRoomToDispatch
      BY <3>3, NoJobType DEF NoRoomToDispatch, Over, Jobs, RoomKept
    <3> QED
      BY <2>2, <3>1, <3>2, <3>3, <3>4
  <2> QED
    BY <2>1, <2>2
<1>t. /\ mono \in Int /\ Wall \in Int /\ Projected \in Int /\ job.now \in Int
      /\ job.readAt \in Int /\ job.stateAt \in Int \cup {None}
  BY Times
<1>5. /\ StateFirst'
      /\ job'.pc \in {"deciding", "execute", "refreshing"} => Projected' <= Wall \/ setBack
  <2>1. CASE Assemble
    <3>1. job'.pc = "deciding" /\ job'.now = Wall /\ job'.readAt = mono
      BY <1>2, <2>1 DEF Assemble, Jobs
    <3>2. Projected' = Wall
      BY <1>1, <1>t, <3>1 DEF Projected
    <3> QED
      BY <1>1, <1>t, <3>1, <3>2 DEF StateFirst
  <2>2. CASE IssuePermit
    <3>1. /\ job'.pc = "execute" /\ job'.now = Projected /\ job'.readAt = mono
          /\ job'.stateAt = job.stateAt /\ job.stateAt <= job.now /\ job.pc = "deciding"
      BY <1>2, <2>2 DEF IssuePermit, Jobs, At
    <3>2. job.readAt <= mono /\ (setBack \/ Projected <= Wall)
      BY <3>1 DEF RecordInv, StateFirst, NothingAhead
    <3>3. Projected' = Projected /\ Projected >= job.now
      BY <1>1, <1>t, <3>1, <3>2 DEF Projected
    <3>4. job'.stateAt # None => job'.stateAt <= job'.now
      BY <1>t, <3>1, <3>3
    <3> QED
      BY <1>1, <1>t, <3>1, <3>2, <3>3, <3>4 DEF StateFirst
  <2>3. CASE EnterExecute
    <3>1. /\ job'.pc = "refreshing" /\ job'.now = job.now /\ job'.readAt = job.readAt
          /\ job'.stateAt = job.stateAt /\ job.pc = "execute"
      BY <1>2, <2>3 DEF EnterExecute, Jobs, At, Goto
    <3>2. Projected' = Projected
      BY <1>1, <3>1 DEF Projected
    <3> QED
      BY <1>1, <3>1, <3>2 DEF RecordInv, StateFirst, NothingAhead
  <2>4. CASE ~(Assemble \/ IssuePermit \/ EnterExecute)
    <3>1. job'.pc \in {"claim", "state", "assemble", "over"}
      <4>1. CASE \E m \in Proposals : HandlePayload(m)
        BY <4>1, Handled
      <4>2. CASE ClaimGranted
        BY <1>2, <4>2 DEF ClaimGranted, Goto, Jobs
      <4>4. CASE GetFreshJointState \/ JointStateMissing
        BY <1>2, <4>4 DEF GetFreshJointState, JointStateMissing, Jobs
      <4>3. CASE NoRoomToDispatch
        BY <4>3, NoJobType DEF NoRoomToDispatch, Over, Jobs
      <4> QED
        BY <2>4, <4>1, <4>2, <4>3, <4>4
    <3> QED
      BY <3>1 DEF StateFirst
  <2> QED
    BY <2>1, <2>2, <2>3, <2>4
<1>6. ~setBack' => NothingAhead'
  BY <1>1, <1>2, <1>5 DEF RecordInv, NothingAhead, Undispatched, Appending
<1> QED
  BY <1>3, <1>4, <1>5, <1>6 DEF RecordInv

\* A goal has the time of the wall clock, or of its decision carried on, and all
\* entries are from before.
LEMMA RecordDispatch ==
    ASSUME IInv, RecordInv, DispatchTrajectory
    PROVE  RecordInv'
<1>1. /\ UNCHANGED <<sink, mono, skew, setBack>> /\ Wall' = Wall /\ job \in Jobs
      /\ job.pc = "refreshing"
  BY DEF DispatchTrajectory, sinkVars, clock, Wall, At, IInv, GatewayInv, GatewayTypes
<1>2. /\ job'.pc = "dispatching" /\ job'.madeAt = ExecutionNow
      /\ job'.stateAt = job.stateAt
  BY <1>1 DEF DispatchTrajectory, Jobs
<1>3. InStep' /\ RoomKept' /\ OnItsWay' /\ DispatchRecorded' /\ Chained(sink'.entries)
  BY <1>1, <1>2 DEF InStep, RoomKept, HasRoom, OnItsWay, DispatchRecorded, At, Undispatched,
                    RecordInv
<1>4. /\ ExecutionNow >= Projected /\ ExecutionNow >= Wall /\ Projected >= job.now
      /\ ExecutionNow \in {Projected, Wall}
  BY <1>1, Times DEF RecordInv, StateFirst, ExecutionNow, Projected
<1>5. StateFirst'
  BY <1>1, <1>2, <1>4, Times DEF RecordInv, StateFirst
<1>6. ASSUME ~setBack' PROVE NothingAhead'
  <2>1. /\ sink.pc = "ready" /\ Projected <= Wall
        /\ \A k \in DOMAIN sink.entries : sink.entries[k].madeAt <= Wall
    BY <1>1, <1>6 DEF RecordInv, NothingAhead, InStep, Undispatched
  <2>2. ExecutionNow = Wall
    BY <1>4, <2>1, Times
  <2> QED
    BY <1>1, <1>2, <2>1, <2>2, Times DEF NothingAhead, Appending
<1> QED
  BY <1>3, <1>5, <1>6 DEF RecordInv

\* The entry of a goal is refused only because of a wall clock that was set back,
\* or because it is larger than the margin the preflight left for it.
LEMMA GoalNotRefused ==
    ASSUME IInv, RecordInv, job.pc = "dispatching", NEW entry \in Entries,
           entry.madeAt = job.madeAt, entry.stateAt = job.stateAt
    PROVE  \/ AppendRefused(entry) = "none"
           \/ AppendRefused(entry) = "time" /\ setBack
           \/ /\ AppendRefused(entry) = "room"
              /\ Size[entry.proposal] > DispatchReserve
<1> DEFINE entries == Append(sink.entries, entry)
           bundle == [createdAt |-> Wall, entries |-> entries]
<1>1. HasRoom /\ sink.entries \in Seq(Entries) /\ Wall \in Int
  BY Times DEF RecordInv, RoomKept
<1>2. /\ Len(entries) = Len(sink.entries) + 1 /\ entries # <<>>
      /\ Len(sink.entries) \in Nat /\ DOMAIN entries = 1..(Len(sink.entries) + 1)
      /\ entries[Len(sink.entries) + 1] = entry
      /\ \A k \in DOMAIN sink.entries : entries[k] = sink.entries[k]
      /\ DOMAIN sink.entries = 1..Len(sink.entries)
  BY <1>1
<1>3. ~(Len(sink.entries) >= MaxEntries)
  <2>1. MaxEntries \in Nat
    BY SinkAssumption
  <2> QED
    BY <1>1, <1>2, <2>1 DEF HasRoom
<1>4. Bytes(entries) > MaxBytes => Size[entry.proposal] > DispatchReserve
  <2>1. /\ Bytes(sink.entries) \in Nat
        /\ Bytes(entries) = Bytes(sink.entries) + Size[entry.proposal]
    BY <1>1, BytesAppend
  <2>2. entry.proposal \in Proposals
    BY DEF Entries
  <2>3. /\ Size[entry.proposal] \in Nat
        /\ MaxBytes \in Nat /\ DispatchReserve \in Nat
    BY <2>2, SinkAssumption
  <2>4. Bytes(sink.entries) <= MaxBytes - DispatchReserve
    BY <1>1 DEF HasRoom
  <2> HIDE DEF entries
  <2> QED
    BY <2>1, <2>3, <2>4
<1>5. ASSUME ~setBack PROVE Verifies(bundle)
  <2>1. /\ job.madeAt \in Int /\ job.madeAt <= Wall
        /\ \A k \in DOMAIN sink.entries :
              /\ sink.entries[k].madeAt \in Int
              /\ sink.entries[k].madeAt <= Wall /\ sink.entries[k].madeAt <= job.madeAt
    BY <1>5, Times DEF RecordInv, NothingAhead
  <2>2. Chained(sink.entries) /\ (job.stateAt # None => job.stateAt <= job.madeAt)
    BY DEF RecordInv, StateFirst
  <2> HIDE DEF entries
  <2>3. ASSUME NEW k \in DOMAIN entries PROVE EntryConsistent(bundle, k)
    <3>1. CASE k \in DOMAIN sink.entries
      <4>1. entries[k] = sink.entries[k] /\ (k > 1 => entries[k - 1] = sink.entries[k - 1])
        BY <1>2, <3>1
      <4> QED
        BY <2>1, <2>2, <3>1, <4>1 DEF EntryConsistent, Chained
    <3>2. CASE k = Len(sink.entries) + 1
      <4>1. /\ entries[k] = entry
            /\ k > 1 => /\ k - 1 \in DOMAIN sink.entries
                        /\ entries[k - 1] = sink.entries[k - 1]
        BY <1>2, <3>2
      <4> QED
        BY <2>1, <2>2, <4>1 DEF EntryConsistent
    <3> QED
      BY <1>2, <3>1, <3>2
  <2> QED
    BY <1>2, <2>3 DEF Verifies
<1> QED
  BY <1>3, <1>4, <1>5 DEF AppendRefused

\* An entry goes to the sink.
LEMMA RecordEntry ==
    ASSUME IInv, RecordInv, NEW sent \in BOOLEAN, NEW madeAt \in Int,
           NEW stateAt \in Int \cup {None},
           NEW then \in {"recordDecision", "recordExecution"},
           Record(sent, madeAt, stateAt, then), job.pc # "idle",
           job.sent => /\ job.pc = "dispatching"
                       /\ sent /\ madeAt = job.madeAt /\ stateAt = job.stateAt
    PROVE  RecordInv'
<1> DEFINE entry == [proposal |-> job.proposal, sent |-> sent,
                     madeAt |-> madeAt, stateAt |-> stateAt]
           next == [createdAt |-> Wall, entries |-> Append(sink.entries, entry)]
<1>1. /\ job'.pc = then /\ job'.proposal = job.proposal /\ job'.sent = job.sent
  BY Recorded DEF IInv, GatewayInv
<1>2. entry \in Entries /\ entry.sent = sent /\ entry.proposal = job.proposal
      /\ entry.madeAt = madeAt /\ entry.stateAt = stateAt
  BY DEF Entries, IInv, GatewayInv, GatewayTypes
<1>3. BeginAppend(entry) /\ sink \in Sinks
  BY DEF Record, IInv, SinkInv, SinkTypes
<1> HIDE DEF entry
<1>4. /\ UNCHANGED <<mono, skew, setBack>> /\ Wall' = Wall /\ sink'.entries = sink.entries
      /\ \/ sink'.pc = "writing" /\ sink'.next = next
         \/ sink'.pc = "failed" /\ sink'.reason = AppendRefused(entry)
            /\ AppendRefused(entry) # "none"
  BY <1>3 DEF BeginAppend, clock, Wall, Sinks
<1>5. InStep' /\ RoomKept' /\ Chained(sink'.entries) /\ StateFirst' /\ DispatchRecorded'
  BY <1>1, <1>4 DEF InStep, RoomKept, StateFirst, DispatchRecorded, At, Appending,
                    Undispatched, RecordInv
<1>6. ~setBack' => NothingAhead'
  <2>1. sink'.pc \in Appending => sink'.next.createdAt = Wall
    BY <1>4 DEF Appending
  <2>2. job'.pc \notin {"deciding", "execute", "refreshing", "dispatching"}
    BY <1>1
  <2> QED
    BY <1>4, <2>1, <2>2, Times DEF RecordInv, NothingAhead
<1>7. OnItsWay'
  <2> SUFFICES ASSUME job.sent
               PROVE  /\ sink'.pc \in Appending => TellsOfGoal(sink.next.entries)'
                      /\ sink'.pc = "appended" => TellsOfGoal(sink.entries)'
                      /\ sink'.pc = "failed" => LossExplained'
    BY <1>1 DEF OnItsWay, At
  <2>1. CASE sink'.pc = "writing" /\ sink'.next = next
    <3>1. sink.entries \in Seq(Entries)
      BY Times
    <3>2. /\ Len(sink.entries) + 1 \in DOMAIN next.entries
          /\ next.entries[Len(sink.entries) + 1] = entry
      BY <1>2, <3>1
    <3>3. TellsOfGoal(sink.next.entries)'
      BY <1>1, <1>2, <2>1, <3>2 DEF TellsOfGoal
    <3> QED
      BY <2>1, <3>3
  <2>2. CASE /\ sink'.pc = "failed" /\ sink'.reason = AppendRefused(entry)
             /\ AppendRefused(entry) # "none"
    BY <1>1, <1>2, <1>4, <2>2, GoalNotRefused DEF Appending, LossExplained
  <2> QED
    BY <1>4, <2>1, <2>2
<1> QED
  BY <1>5, <1>6, <1>7 DEF RecordInv

\* The caller of an append goes on: the entry is there, or is known to be lost.
LEMMA RecordSettles ==
    ASSUME IInv, RecordInv, AppendSettles
    PROVE  RecordInv'
<1>1. /\ job \in Jobs /\ sink \in Sinks /\ SentLate
      /\ job.pc \in {"recordDecision", "recordExecution"} /\ sink.pc \in {"appended", "failed"}
      /\ UNCHANGED <<mono, skew, setBack>> /\ Wall' = Wall
  BY DEF IInv, SinkInv, SinkTypes, GatewayInv, GatewayTypes, AppendSettles, ReadyAgain, clock,
         Wall
<1>2. /\ job'.pc = "over" /\ job'.proposal = job.proposal /\ job'.sent = job.sent
      /\ job'.lost = sink.reason
  BY <1>1, NoJobType DEF AppendSettles, Over, Jobs
<1>3. sink'.pc = "ready" /\ sink'.entries = sink.entries
  BY <1>1 DEF AppendSettles, ReadyAgain, Sinks
<1>4. InStep' /\ RoomKept' /\ Chained(sink'.entries) /\ StateFirst' /\ OnItsWay'
  BY <1>2, <1>3 DEF InStep, RoomKept, StateFirst, OnItsWay, At, Undispatched, RecordInv
<1>5. ~setBack' => NothingAhead'
  BY <1>1, <1>2, <1>3 DEF RecordInv, NothingAhead, Appending
<1>6. DispatchRecorded'
  <2> SUFFICES ASSUME job.sent
               PROVE  TellsOfGoal(sink.entries) \/ LossExplained
    BY <1>1, <1>2, <1>3 DEF DispatchRecorded, TellsOfGoal, LossExplained
  <2>1. job.pc = "recordExecution"
    BY <1>1 DEF SentLate
  <2> QED
    BY <1>1, <2>1 DEF RecordInv, OnItsWay, At
<1> QED
  BY <1>4, <1>5, <1>6 DEF RecordInv

\* The calls on the files happen while the reservation is made, and nothing has
\* been received, or while an entry is written.
LEMMA RecordWrites ==
    ASSUME IInv, RecordInv, WriteStep, UNCHANGED gatewayVars
    PROVE  RecordInv'
<1>1. /\ UNCHANGED <<job, mono, skew, setBack>> /\ Wall' = Wall /\ sink \in Sinks
  BY DEF gatewayVars, WriteStep, SynchronizeReservation, SynchronizeTemporary, Rename,
         SynchronizeDirectory, AppendFails, clock, Wall, IInv, SinkInv, SinkTypes
<1>2. CASE SynchronizeReservation
  <2>1. /\ sink.pc = "reserving" /\ sink'.pc = "ready" /\ sink'.entries = sink.entries
        /\ job.pc = "idle"
    BY <1>1, <1>2 DEF SynchronizeReservation, Sinks, RecordInv, InStep, IInv, GatewayInv,
       GatewayTypes, Jobs, Phases, Appending
  <2>2. InStep' /\ RoomKept' /\ StateFirst' /\ OnItsWay' /\ DispatchRecorded'
    BY <1>1, <2>1 DEF InStep, RoomKept, StateFirst, OnItsWay, DispatchRecorded, At, Undispatched
  <2>3. ~setBack' => NothingAhead'
    BY <1>1, <2>1 DEF RecordInv, NothingAhead, Appending
  <2> QED
    BY <2>1, <2>2, <2>3 DEF RecordInv
<1>3. CASE \/ SynchronizeTemporary \/ Rename \/ SynchronizeDirectory \/ AppendFails
  <2>1. sink.pc \in Appending
    BY <1>3 DEF SynchronizeTemporary, Rename, SynchronizeDirectory, AppendFails, Appending
  <2>2. job.pc \in {"recordDecision", "recordExecution"}
    BY <2>1 DEF RecordInv, InStep, IInv, GatewayInv, GatewayTypes, Jobs, Phases, Appending
  <2>3. /\ sink'.pc \in Appending \cup {"appended", "failed"}
        /\ \/ /\ sink'.pc \in Appending
              /\ sink'.entries = sink.entries /\ sink'.next = sink.next
           \/ sink'.pc = "appended" /\ sink'.entries = sink.next.entries
           \/ sink'.pc = "failed" /\ sink'.entries = sink.entries /\ sink'.reason = "disk"
    BY <1>1, <1>3 DEF SynchronizeTemporary, Rename, SynchronizeDirectory, AppendFails,
       Acknowledge, Appending, Sinks
  <2>4. InStep' /\ RoomKept' /\ StateFirst' /\ DispatchRecorded'
    BY <1>1, <2>2, <2>3 DEF InStep, RoomKept, StateFirst, DispatchRecorded, At, Undispatched
  <2>5. /\ \A k \in DOMAIN sink.next.entries :
              /\ EntryConsistent(sink.next, k)
              /\ sink.next.entries[k].madeAt \in Int
        /\ sink.next.createdAt \in Int
    <3>1. sink.next \in Bundles /\ Verifies(sink.next)
      BY <2>1 DEF IInv, SinkInv, Prepared, Appending
    <3>2. sink.next.entries \in Seq(Entries) /\ sink.next.createdAt \in Int
      BY <3>1 DEF Bundles
    <3>3. \A k \in DOMAIN sink.next.entries : sink.next.entries[k] \in Entries
      BY <3>2
    <3> QED
      BY <3>1, <3>2, <3>3 DEF Verifies, Entries
  <2>6. Chained(sink.next.entries)
    BY <2>5 DEF Chained, EntryConsistent
  <2>7. Chained(sink'.entries)
    BY <2>3, <2>6 DEF RecordInv
  <2>8. ASSUME ~setBack' PROVE NothingAhead'
    <3>1. /\ sink.next.createdAt <= Wall /\ Wall \in Int
          /\ \A k \in DOMAIN sink.entries : sink.entries[k].madeAt <= Wall
      BY <1>1, <2>1, <2>8, Times DEF RecordInv, NothingAhead
    <3>2. \A k \in DOMAIN sink.next.entries : sink.next.entries[k].madeAt <= Wall
      BY <2>5, <3>1 DEF EntryConsistent
    <3>3. \A k \in DOMAIN sink'.entries : sink'.entries[k].madeAt <= Wall
      BY <2>3, <3>1, <3>2
    <3>4. sink'.pc \in Appending => sink'.next = sink.next
      BY <2>3 DEF Appending
    <3> QED
      BY <1>1, <2>2, <3>1, <3>3, <3>4 DEF NothingAhead
  <2>9. OnItsWay'
    BY <1>1, <2>1, <2>2, <2>3 DEF RecordInv, OnItsWay, At, TellsOfGoal, Appending,
       LossExplained
  <2> QED
    BY <2>4, <2>7, <2>8, <2>9 DEF RecordInv
<1> QED
  BY <1>2, <1>3 DEF WriteStep

\* Unless it was set back, the wall clock goes on, and with the monotonic clock
\* what is projected from an earlier reading.
LEMMA RecordClock ==
    ASSUME IInv, RecordInv, Tick \/ \E s \in Skews : SetClock(s), UNCHANGED gatewayVars
    PROVE  RecordInv'
<1>1. UNCHANGED <<job, sink>> /\ job \in Jobs /\ sink \in Sinks
  BY DEF gatewayVars, Tick, SetClock, IInv, SinkInv, SinkTypes, GatewayInv, GatewayTypes
<1>2. /\ mono' \in Int /\ mono <= mono' /\ mono \in Int /\ skew \in Int /\ skew' \in Int
      /\ setBack => setBack'
      /\ ~setBack' => skew <= skew'
  <2>t. mono \in Int /\ skew \in Int
    BY Times
  <2>1. CASE Tick
    <3>1. mono' = mono + 1 /\ skew' = skew /\ setBack' = setBack
      BY <2>1 DEF Tick
    <3> QED
      BY <2>t, <3>1
  <2>2. CASE \E s \in Skews : SetClock(s)
    <3>1. PICK s \in Skews : SetClock(s)
      BY <2>2
    <3>2. mono' = mono /\ skew' = s /\ setBack' = (setBack \/ s < skew)
      BY <3>1 DEF SetClock
    <3>3. (setBack => setBack') /\ (~setBack' => ~(s < skew))
      BY <3>2, Zenon
    <3>4. s \in Int
      BY SinkAssumption
    <3> QED
      BY <2>t, <3>2, <3>3, <3>4
  <2> QED
    BY <2>1, <2>2
<1>3. /\ Wall \in Int /\ job.readAt \in Int /\ job.now \in Int /\ job.stateAt \in Int \cup {None}
      /\ job.madeAt \in Int
      /\ \A k \in DOMAIN sink.entries : sink.entries[k].madeAt \in Int
      /\ sink.pc \in Appending => sink.next.createdAt \in Int
  BY Times
<1>4. StateFirst'
  BY <1>1, <1>2, <1>3 DEF RecordInv, StateFirst
<1>5. InStep' /\ RoomKept' /\ Chained(sink'.entries) /\ OnItsWay' /\ DispatchRecorded'
  BY <1>1, <1>2 DEF RecordInv, InStep, RoomKept, HasRoom, OnItsWay, DispatchRecorded,
                    TellsOfGoal, At, LossExplained
<1>6. ASSUME ~setBack' PROVE NothingAhead'
  <2>1. NothingAhead
    BY <1>2, <1>6 DEF RecordInv
  <2>a. skew <= skew'
    BY <1>2, <1>6
  <2>b. /\ mono \in Int /\ mono' \in Int /\ skew \in Int /\ skew' \in Int
        /\ mono <= mono'
    BY <1>2
  <2>c. mono + skew \in Int /\ mono' + skew' \in Int /\ mono + skew <= mono' + skew'
    <3>1. \A a, b, c, d \in Int :
             a <= b /\ c <= d => a + c \in Int /\ b + d \in Int /\ a + c <= b + d
      OBVIOUS
    <3> QED
      BY <2>a, <2>b, <3>1, Zenon
  <2>2. Wall' \in Int /\ Wall <= Wall'
    BY <2>c DEF Wall
  <2>3. job.pc \in {"deciding", "execute", "refreshing"} => Projected' <= Wall'
    <3>1. job' = job
      BY <1>1
    <3>2. job.readAt \in Int /\ job.now \in Int
      BY <1>3
    <3>3. job.now + (mono - job.readAt) <= mono + skew =>
             job.now + (mono' - job.readAt) <= mono' + skew'
      BY <2>a, <2>b, <3>2
    <3>4. Projected <= Wall => Projected' <= Wall'
      BY <3>1, <3>3 DEF Projected, Wall
    <3>5. job.pc \in {"deciding", "execute", "refreshing"} => Projected <= Wall
      BY <2>1 DEF NothingAhead
    <3> QED
      BY <3>1, <3>4, <3>5
  <2> QED
    BY <1>1, <1>3, <2>1, <2>2, <2>3 DEF NothingAhead
<1> QED
  BY <1>4, <1>5, <1>6 DEF RecordInv

\* A command that starts, or has ended, holds no entry and no job.
LEMMA RecordAfresh ==
    ASSUME IInv, RecordInv,
           \/ \E path \in Paths : Start(path)
           \/ (ProcessEnds \/ PowerLoss) /\ Gone
    PROVE  RecordInv'
<1>1. sink'.pc \in {"off", "reserving"} /\ sink'.entries = <<>>
  <2>1. ASSUME NEW path \in Paths, Start(path)
        PROVE  sink'.pc = "reserving" /\ sink'.entries = <<>>
    <3>1. sink' = [Off EXCEPT !.pc = "reserving", !.path = path]
      BY <2>1, Zenon DEF Start, Reserve
    <3> QED
      BY <3>1 DEF Off
  <2>2. CASE ProcessEnds \/ PowerLoss
    BY <2>2 DEF ProcessEnds, PowerLoss, Off
  <2> QED
    BY <2>1, <2>2
<1>2. job'.pc = "idle" /\ ~job'.sent
  <2>1. CASE \E path \in Paths : Start(path)
    <3>1. PICK path \in Paths : Start(path)
      BY <2>1
    <3>2. sink = Off /\ job' = job
      BY <3>1, Zenon DEF Start, Reserve, gatewayVars
    <3> QED
      BY <3>2 DEF Off, RecordInv, InStep, IInv, GatewayInv, GatewayTypes, Jobs, Phases,
                  SentLate, Appending
  <2>2. CASE Gone
    BY <2>2, NoJobType DEF Gone
  <2> QED
    BY <2>1, <2>2
<1> QED
  BY <1>1, <1>2 DEF RecordInv, InStep, RoomKept, Chained, NothingAhead, StateFirst, OnItsWay,
                    DispatchRecorded, At, Undispatched, Appending

LEMMA RecordPreserved == IInv /\ RecordInv /\ [Next]_vars => RecordInv'
<1> SUFFICES ASSUME IInv, RecordInv, [Next]_vars PROVE RecordInv'
  OBVIOUS
<1>1. /\ job.stateAt \in Int \cup {None} /\ job.now \in Int /\ Projected \in Int
      /\ Wall \in Int /\ ExecutionNow \in Int /\ job.madeAt \in Int
  BY Times DEF ExecutionNow
<1>2. SentLate /\ job.pc \in Phases /\ job.sent \in BOOLEAN
  BY DEF IInv, GatewayInv, GatewayTypes, Jobs
<1>3. CASE Gateway
  <2>1. CASE \/ (\E m \in Proposals : HandlePayload(m))
             \/ ClaimGranted \/ GetFreshJointState \/ JointStateMissing \/ Assemble
             \/ IssuePermit \/ NoRoomToDispatch \/ EnterExecute
    <3>1. UNCHANGED sinkVars
      <4>1. ASSUME NEW m \in Proposals, HandlePayload(m) PROVE UNCHANGED sinkVars
        BY <4>1, Zenon DEF HandlePayload
      <4>2. CASE ClaimGranted \/ GetFreshJointState \/ JointStateMissing \/ Assemble
        BY <4>2, Zenon DEF ClaimGranted, GetFreshJointState, JointStateMissing, Assemble
      <4>3. CASE IssuePermit \/ NoRoomToDispatch \/ EnterExecute
        BY <4>3, Zenon DEF IssuePermit, NoRoomToDispatch, EnterExecute
      <4> QED
        BY <2>1, <4>1, <4>2, <4>3
    <3> QED
      BY <2>1, <3>1, RecordBefore
  <2>2. CASE DispatchTrajectory
    BY <2>2, RecordDispatch
  <2>3. CASE ClaimRefused
    BY <1>1, <1>2, <2>3, RecordEntry DEF ClaimRefused, At, SentLate
  <2>4. CASE Refuse
    <3>1. PICK madeAt \in {job.now, Projected} :
              Record(FALSE, madeAt, job.stateAt, "recordDecision")
      BY <2>4 DEF Refuse
    <3>2. ~job.sent /\ job.pc # "idle"
      BY <1>2, <2>4 DEF Refuse, At, SentLate
    <3> QED
      BY <1>1, <3>1, <3>2, RecordEntry
  <2>5. CASE RefuseExecution
    <3>1. ~job.sent /\ job.pc # "idle"
      BY <1>2, <2>5 DEF RefuseExecution, SentLate
    <3> QED
      BY <1>1, <2>5, <3>1, RecordEntry DEF RefuseExecution
  <2>6. CASE DispatchSettles
    BY <1>1, <2>6, RecordEntry DEF DispatchSettles, At
  <2>7. CASE AppendSettles
    BY <2>7, RecordSettles
  <2> QED
    BY <1>3, <2>1, <2>2, <2>3, <2>4, <2>5, <2>6, <2>7 DEF Gateway
<1>4. CASE UNCHANGED vars
  BY <1>4 DEF vars, sinkVars, gatewayVars, clock, RecordInv, InStep, RoomKept, HasRoom,
     Chained, NothingAhead, StateFirst, OnItsWay, DispatchRecorded, TellsOfGoal, At, Wall,
     Projected, LossExplained
<1> QED
  BY <1>3, <1>4, RecordWrites, RecordClock, RecordAfresh DEF Next

\* Whatever fails and however the clocks run: a goal that was sent is in the
\* evidence when its proposal is over, unless the disk lost its entry, the wall
\* clock was set back while the command ran, or the entry by itself is larger
\* than the margin.  Entries the margin covers always find room.
THEOREM GoalsAreRecorded == Spec => []DispatchRecorded
<1>1. Init => IInv /\ RecordInv
  BY SinkInitial, GatewayInitial, RecordInitial DEF IInv
<1>2. (IInv /\ RecordInv) /\ [Next]_vars => (IInv /\ RecordInv)'
  BY Preserved, RecordPreserved
<1>3. RecordInv => DispatchRecorded
  BY DEF RecordInv
<1> QED
  BY <1>1, <1>2, <1>3, PTL DEF Spec

=============================================================================
