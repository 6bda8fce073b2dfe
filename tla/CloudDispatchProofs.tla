------------------------ MODULE CloudDispatchProofs ------------------------
(***************************************************************************)
(* What CloudDispatch promises, for every set of runtimes and proposals,   *)
(* every size of the replay registry and any number of attempts, losses,   *)
(* crashes, power losses and redeliveries.                                 *)
(*                                                                         *)
(* The claim is the only way to a goal: whoever holds a proposal's claim,  *)
(* or is on its way from the claim to the goal, is the only one, and the   *)
(* goal has not been sent (HolderInv).  The rest is about one run: how     *)
(* much it knows of its permit's consumption, what it filed, and whether   *)
(* it can still be late, by how far it is (RunInv, FileInv).               *)
(***************************************************************************)
EXTENDS CloudDispatch, TLAPS

\* From the claim to the goal.
BeforeConsume == {"observe", "getRelease", "jointState", "requestPermit", "final",
                  "finalConfig", "finalRelease", "authorize"}
Way == BeforeConsume \cup {"consume", "recheck", "dispatch"}
Submitting == {"submit", "retrieve", "record"}

RegistryInv ==
    /\ Registry!TypeOK
    /\ \A p \in Procs : phase[p] # "idle" <=> run[p].pc = "claim"
    /\ \A p \in Procs : phase[p] # "idle" => asked[p] = run[p].id
    /\ \A p \in Procs : phase[p] = "recorded" =>
          asked[p] \in recorded /\ granted[asked[p]] = 0
    /\ \A p, q \in Procs :
          phase[p] = "recorded" /\ phase[q] = "recorded" /\ asked[p] = asked[q] => p = q
    /\ \A id \in Identities : granted[id] > 0 => id \in recorded

Holder(p) == (phase[p] = "answered" /\ reply[p] = "claimed") \/ run[p].pc \in Way

HolderInv ==
    /\ \A p \in Procs : Holder(p) => granted[run[p].id] > 0 /\ goals[run[p].id] = 0
    /\ \A p, q \in Procs : Holder(p) /\ Holder(q) /\ run[p].id = run[q].id => p = q
    /\ \A id \in Identities : goals[id] > 0 => granted[id] > 0
    /\ OneGoalPerProposal

\* What a run knows, has sent and has filed, by how far it is.
RunOk(p) ==
    LET r == run[p] IN
    r.pc # "idle" =>
        /\ r.sent => r.pc \notin Way \cup {"claim", "denied"}
        /\ r.pc \in BeforeConsume \cup {"claim", "denied"} => r.consumption = "not_consumed"
        /\ r.pc = "consume" => r.consumption = "unknown"
        /\ r.pc \in {"recheck", "dispatch"} \/ r.sent => r.consumption = "consumed"
        /\ r.consumption = "consumed" => permit[p] = "consumed"
        /\ r.consumption = "not_consumed" => permit[p] # "consumed" /\ p \notin inflight
        /\ r.late => r.pc \notin {"authorize", "consume", "recheck", "dispatch"} /\ ~r.sent
        /\ r.late /\ r.pc \in {"finalConfig", "finalRelease"} => release = "revoked"
        /\ r.pc \in Submitting => file[p] # None
        /\ r.pc \notin Submitting \cup {"ended"} => file[p] = None
        /\ file[p] # None => file[p].sent = r.sent
        /\ r.pc = "catch" /\ r.sent => r.failures >= 1
        /\ r.pc = "ended" /\ r.sent /\ file[p] = None => r.failures >= 2

FileOk(p) ==
    file[p] # None =>
        /\ file[p].consumption = "consumed" => permit[p] = "consumed"
        /\ file[p].consumption = "not_consumed" => permit[p] # "consumed" /\ p \notin inflight

RunInv == \A p \in Procs : RunOk(p) /\ FileOk(p)

IInv == TypeOK /\ RegistryInv /\ HolderInv /\ RunInv

-----------------------------------------------------------------------------
LEMMA InitInv == Init => IInv
<1> SUFFICES ASSUME Init PROVE IInv
    OBVIOUS
<1>1. Registry!TypeOK
    BY DEF Init, Registry!Init, Registry!TypeOK, Registry!Phases
<1>2. TypeOK
    BY <1>1, CloudAssumption DEF Init, TypeOK, Idle
<1>3. /\ \A p \in Procs : phase[p] = "idle" /\ run[p] = Idle /\ file[p] = None
      /\ \A id \in Identities : goals[id] = 0 /\ granted[id] = 0
    BY DEF Init, Registry!Init
<1>4. \A p \in Procs : run[p].pc = "idle"
    BY <1>3 DEF Idle
<1>5. RegistryInv
    BY <1>1, <1>3, <1>4 DEF RegistryInv
<1>6. HolderInv
    BY <1>3, <1>4 DEF HolderInv, Holder, Way, BeforeConsume, OneGoalPerProposal
<1>7. RunInv
    BY <1>3, <1>4 DEF RunInv, RunOk, FileOk
<1> QED
    BY <1>2, <1>5, <1>6, <1>7 DEF IInv

\* Who is at work has a run.
LEMMA AtWork ==
    ASSUME IInv, NEW p \in Procs, run[p].pc # "idle"
    PROVE  run[p] \in Runs
BY DEF IInv, TypeOK, Idle

\* A run that goes on without the registry and without a goal.
LEMMA Frame ==
    ASSUME IInv, NEW p \in Procs, TypeOK',
           UNCHANGED <<registry, release, goals>>,
           \A q \in Procs \ {p} :
              /\ run'[q] = run[q] /\ file'[q] = file[q] /\ permit'[q] = permit[q]
              /\ q \in inflight' <=> q \in inflight,
           run[p].pc \notin {"idle", "claim"}, run'[p].pc \notin {"idle", "claim"},
           run'[p].id = run[p].id,
           run'[p].pc \in Way => run[p].pc \in Way,
           RunOk(p)', FileOk(p)'
    PROVE  IInv'
<1>1. UNCHANGED <<recorded, phase, asked, reply, granted, release, goals>>
    BY DEF registry
<1>2. RegistryInv'
    BY <1>1 DEF IInv, RegistryInv, Registry!TypeOK
<1>3. \A q \in Procs : run'[q].id = run[q].id /\ (Holder(q)' => Holder(q))
    BY <1>1 DEF Holder
<1>4. HolderInv'
    BY <1>1, <1>3 DEF IInv, HolderInv, OneGoalPerProposal
<1>5. RunInv'
    BY <1>1 DEF IInv, RunInv, RunOk, FileOk
<1> QED
    BY <1>2, <1>4, <1>5 DEF IInv

\* From where to where a run moves on, without more.
Moves ==
    {<<"getRelease", "jointState">>, <<"getRelease", "persist">>, <<"getRelease", "catch">>,
     <<"requestPermit", "catch">>, <<"observe", "getRelease">>, <<"observe", "catch">>,
     <<"jointState", "requestPermit">>, <<"jointState", "catch">>,
     <<"finalConfig", "finalRelease">>, <<"finalConfig", "persist">>,
     <<"finalRelease", "authorize">>, <<"finalRelease", "persist">>,
     <<"authorize", "persist">>, <<"consume", "persist">>,
     <<"recheck", "dispatch">>, <<"recheck", "persist">>,
     <<"submit", "retrieve">>, <<"submit", "ended">>,
     <<"retrieve", "record">>, <<"retrieve", "ended">>}

LEMMA MoveInv ==
    ASSUME IInv, NEW p \in Procs, NEW from, NEW to, <<from, to>> \in Moves,
           At(p, from), Goto(p, to), to = "authorize" => release = "approved",
           inflight' = inflight \/ (inflight' = inflight \cup {p} /\ from = "consume"),
           UNCHANGED <<registry, release, permit, file, goals, runs>>
    PROVE  IInv'
<1> DEFINE r == run[p]
           n == [r EXCEPT !.pc = to, !.tries = 1]
<1>1. /\ from \in InRun \ {"claim", "denied"} /\ to \in (InRun \cup {"ended"}) \ {"claim"}
      /\ to \in Way => from \in Way
    BY DEF Moves, InRun, Requests, Way, BeforeConsume
<1>2. r.pc = from /\ r \in Runs
    BY <1>1, AtWork DEF At, InRun, Requests
<1>3. 1 \in 1..Attempts
    BY CloudAssumption
<1>4. /\ n \in Runs /\ n.pc = to /\ n.id = r.id /\ n.sent = r.sent
      /\ n.consumption = r.consumption /\ n.failures = r.failures /\ n.late = r.late
    BY <1>1, <1>2, <1>3 DEF Runs
<1>5. run' = [run EXCEPT ![p] = n]
    BY DEF Goto, IInv, TypeOK
<1> HIDE DEF n
<1>6. run' \in [Procs -> Runs \cup {Idle}] /\ run'[p] = n /\ \A q \in Procs \ {p} : run'[q] = run[q]
    BY <1>4, <1>5 DEF IInv, TypeOK
<1>7. UNCHANGED <<recorded, phase, asked, reply, granted>>
    BY DEF registry
<1>8. TypeOK'
    BY <1>6, <1>7 DEF IInv, TypeOK, Registry!TypeOK
<1>9. RunOk(p) /\ FileOk(p)
    BY DEF IInv, RunInv
<1>10. from = "consume" => r.consumption = "unknown" /\ file[p] = None
    BY <1>2, <1>9 DEF RunOk, Submitting
<1>11. FileOk(p)'
    BY <1>9, <1>10 DEF FileOk
<1>12. RunOk(p)'
    BY <1>1, <1>2, <1>4, <1>6, <1>9, <1>10 DEF RunOk, Moves, Way, BeforeConsume, Submitting
<1> QED
    BY <1>1, <1>2, <1>4, <1>6, <1>8, <1>11, <1>12, Frame DEF InRun, Requests

LEMMA StepsInv ==
    ASSUME IInv, NEW p \in Procs,
           \/ GetRelease(p) \/ FinalRelease(p) \/ SubmitEvidence(p) \/ RetrieveEvidence(p)
           \/ Observe(p) \/ ObserveJointState(p) \/ ObserveAgain(p) \/ LocalPermitCurrent(p)
    PROVE  IInv'
<1>1. PICK from, to :
         /\ <<from, to>> \in Moves /\ Step(p, from, to)
         /\ to = "authorize" => release = "approved"
    <2>1. CASE GetRelease(p)
        BY <2>1 DEF GetRelease, Moves
    <2>2. CASE FinalRelease(p)
        BY <2>2 DEF FinalRelease, Moves
    <2>3. CASE SubmitEvidence(p) \/ RetrieveEvidence(p)
        BY <2>3 DEF SubmitEvidence, RetrieveEvidence, Moves
    <2>4. CASE Observe(p) \/ ObserveJointState(p)
        BY <2>4 DEF Observe, ObserveJointState, Moves
    <2>5. CASE ObserveAgain(p) \/ LocalPermitCurrent(p)
        BY <2>5 DEF ObserveAgain, LocalPermitCurrent, Moves
    <2> QED
        BY <2>1, <2>2, <2>3, <2>4, <2>5
<1>2. /\ At(p, from) /\ Goto(p, to)
      /\ UNCHANGED <<registry, release, permit, inflight, file, goals, runs>>
    BY <1>1 DEF Step, cloud
<1> QED
    BY <1>1, <1>2, MoveInv

\* A request that fails for good takes its error path.
LEMMA FailureMoves ==
    ASSUME NEW pc \in Requests
    PROVE  <<pc, AfterFailure[pc]>> \in Moves /\ AfterFailure[pc] # "authorize"
BY DEF Requests, AfterFailure, Moves

LEMMA RefusedInv == ASSUME IInv, NEW p \in Procs, Refused(p) PROVE IInv'
<1>1. /\ run[p].pc \in Requests /\ At(p, run[p].pc) /\ Goto(p, AfterFailure[run[p].pc])
      /\ UNCHANGED <<registry, release, permit, inflight, file, goals, runs>>
    BY DEF Refused, At, cloud
<1> QED
    BY <1>1, FailureMoves, MoveInv

LEMMA AnswerLostInv == ASSUME IInv, NEW p \in Procs, AnswerLost(p) PROVE IInv'
<1>1. /\ run[p].pc \in Requests /\ At(p, run[p].pc)
      /\ UNCHANGED <<registry, release, permit, file, goals, runs>>
      /\ inflight' = inflight \/ (inflight' = inflight \cup {p} /\ run[p].pc = "consume")
    BY DEF AnswerLost, At, Abandoned
<1>2. CASE ~(run[p].tries < Attempts)
    <2>1. Goto(p, AfterFailure[run[p].pc])
        BY <1>2 DEF AnswerLost
    <2> QED
        BY <1>1, <2>1, FailureMoves, MoveInv
<1>3. CASE run[p].tries < Attempts
    <2> DEFINE r == run[p]
               n == [r EXCEPT !.tries = r.tries + 1]
    <2>1. r \in Runs
        BY <1>1, AtWork DEF Requests
    <2>2. r.tries + 1 \in 1..Attempts
        BY <1>3, <2>1, CloudAssumption DEF Runs
    <2>3. /\ n \in Runs /\ n.pc = r.pc /\ n.id = r.id /\ n.sent = r.sent
          /\ n.consumption = r.consumption /\ n.failures = r.failures /\ n.late = r.late
        BY <2>1, <2>2 DEF Runs
    <2>4. run' = [run EXCEPT ![p] = n]
        BY <1>3 DEF AnswerLost, IInv, TypeOK
    <2> HIDE DEF n
    <2>5. run' \in [Procs -> Runs \cup {Idle}] /\ run'[p] = n /\ \A q \in Procs \ {p} : run'[q] = run[q]
        BY <2>3, <2>4 DEF IInv, TypeOK
    <2>6. UNCHANGED <<recorded, phase, asked, reply, granted>>
        BY <1>1 DEF registry
    <2>7. TypeOK'
        BY <1>1, <2>5, <2>6 DEF IInv, TypeOK, Registry!TypeOK
    <2>8. RunOk(p) /\ FileOk(p)
        BY DEF IInv, RunInv
    <2>9. r.pc = "consume" => r.consumption = "unknown" /\ file[p] = None
        BY <2>8 DEF RunOk, Submitting
    <2>10. RunOk(p)' /\ FileOk(p)'
        BY <1>1, <2>3, <2>5, <2>8, <2>9 DEF RunOk, FileOk
    <2> QED
        BY <1>1, <2>3, <2>5, <2>7, <2>10, Frame DEF Requests
<1> QED
    BY <1>2, <1>3

LEMMA RequestPermitInv == ASSUME IInv, NEW p \in Procs, RequestPermit(p) PROVE IInv'
<1> DEFINE r == run[p]
           n == [r EXCEPT !.pc = "final", !.tries = 1]
<1>1. r.pc = "requestPermit" /\ r \in Runs /\ 1 \in 1..Attempts
    BY AtWork, CloudAssumption DEF RequestPermit, At
<1>2. /\ n \in Runs /\ n.pc = "final" /\ n.id = r.id /\ n.sent = r.sent
      /\ n.consumption = r.consumption /\ n.failures = r.failures /\ n.late = r.late
    BY <1>1 DEF Runs, InRun
<1>3. run' = [run EXCEPT ![p] = n] /\ permit' = [permit EXCEPT ![p] = "issued"]
      /\ UNCHANGED <<registry, release, inflight, file, goals, runs>>
    BY DEF RequestPermit, Goto, IInv, TypeOK
<1> HIDE DEF n
<1>4. /\ run' \in [Procs -> Runs \cup {Idle}] /\ run'[p] = n
      /\ permit' \in [Procs -> {"none", "issued", "consumed"}] /\ permit'[p] = "issued"
      /\ \A q \in Procs \ {p} : run'[q] = run[q] /\ permit'[q] = permit[q]
    BY <1>2, <1>3 DEF IInv, TypeOK
<1>5. UNCHANGED <<recorded, phase, asked, reply, granted>>
    BY <1>3 DEF registry
<1>6. TypeOK'
    BY <1>3, <1>4, <1>5 DEF IInv, TypeOK, Registry!TypeOK
<1>7. RunOk(p)
    BY DEF IInv, RunInv
<1>8. RunOk(p)' /\ FileOk(p)'
    BY <1>1, <1>2, <1>3, <1>4, <1>7 DEF RunOk, FileOk, Way, BeforeConsume, Submitting
<1> QED
    BY <1>1, <1>2, <1>3, <1>4, <1>6, <1>8, Frame DEF Way, BeforeConsume

\* The cloud confirms: from here on the run knows.
LEMMA ConsumeInv == ASSUME IInv, NEW p \in Procs, Consume(p) PROVE IInv'
<1> DEFINE r == run[p]
           n == [r EXCEPT !.pc = "recheck", !.consumption = "consumed"]
<1>1. r.pc = "consume" /\ r \in Runs
    BY AtWork DEF Consume, At
<1>2. /\ n \in Runs /\ n.pc = "recheck" /\ n.id = r.id /\ n.sent = r.sent
      /\ n.consumption = "consumed" /\ n.failures = r.failures /\ n.late = r.late
    BY <1>1 DEF Runs, InRun, Consumptions
<1>3. run' = [run EXCEPT ![p] = n] /\ permit' = [permit EXCEPT ![p] = "consumed"]
      /\ inflight' = inflight \ {p} /\ UNCHANGED <<registry, release, file, goals, runs>>
    BY DEF Consume, IInv, TypeOK
<1> HIDE DEF n
<1>4. /\ run' \in [Procs -> Runs \cup {Idle}] /\ run'[p] = n
      /\ permit' \in [Procs -> {"none", "issued", "consumed"}] /\ permit'[p] = "consumed"
      /\ \A q \in Procs \ {p} : run'[q] = run[q] /\ permit'[q] = permit[q]
    BY <1>2, <1>3 DEF IInv, TypeOK
<1>5. UNCHANGED <<recorded, phase, asked, reply, granted>>
    BY <1>3 DEF registry
<1>6. TypeOK'
    BY <1>3, <1>4, <1>5 DEF IInv, TypeOK, Registry!TypeOK
<1>7. RunOk(p)
    BY DEF IInv, RunInv
<1>8. RunOk(p)' /\ FileOk(p)'
    BY <1>1, <1>2, <1>3, <1>4, <1>7 DEF RunOk, FileOk, Way, BeforeConsume, Submitting
<1> QED
    BY <1>1, <1>2, <1>3, <1>4, <1>6, <1>8, Frame DEF Way, BeforeConsume

\* Whether the run is late is read when its final boundary begins.
LEMMA BeginFinalBoundaryInv ==
    ASSUME IInv, NEW p \in Procs, BeginFinalBoundary(p) PROVE IInv'
<1> DEFINE r == run[p]
           Late == release = "revoked"
           made(pc, b) == [r EXCEPT !.pc = pc, !.late = b]
<1>1. r.pc = "final" /\ r \in Runs /\ UNCHANGED <<registry, release, permit, inflight, file, goals, runs>>
    BY AtWork DEF BeginFinalBoundary, At, cloud
<1>2. PICK to \in {"finalConfig", "persist", "catch"}, b \in BOOLEAN :
         run' = [run EXCEPT ![p] = made(to, b)] /\ (b => Late)
    <2>1. PICK to \in {"finalConfig", "persist", "catch"} :
             run' = [run EXCEPT ![p].pc = to, ![p].late = release = "revoked"]
        BY DEF BeginFinalBoundary
    <2>2. run' = [run EXCEPT ![p] = made(to, Late)]
        BY <2>1 DEF IInv, TypeOK
    <2>3. Late \in BOOLEAN
        OBVIOUS
    <2> HIDE DEF made, Late
    <2> QED
        BY <2>2, <2>3, Zenon
<1> DEFINE n == made(to, b)
<1>3. /\ n \in Runs /\ n.pc = to /\ n.id = r.id /\ n.sent = r.sent
      /\ n.consumption = r.consumption /\ n.failures = r.failures /\ n.late = b
    BY <1>1 DEF Runs, InRun
<1>4. n.late => release = "revoked"
    <2>1. b => Late
        BY <1>2
    <2> QED
        BY <1>3, <2>1
<1>5. run' = [run EXCEPT ![p] = n]
    BY <1>2
<1> HIDE DEF n, made
<1>6. /\ run' \in [Procs -> Runs \cup {Idle}] /\ run'[p] = n
      /\ \A q \in Procs \ {p} : run'[q] = run[q]
    BY <1>3, <1>5 DEF IInv, TypeOK
<1>7. UNCHANGED <<recorded, phase, asked, reply, granted>>
    BY <1>1 DEF registry
<1>8. TypeOK'
    BY <1>1, <1>6, <1>7 DEF IInv, TypeOK, Registry!TypeOK
<1>9. RunOk(p) /\ FileOk(p)
    BY DEF IInv, RunInv
<1>10. RunOk(p)' /\ FileOk(p)'
    BY <1>1, <1>3, <1>4, <1>6, <1>9 DEF RunOk, FileOk, Way, BeforeConsume, Submitting
<1> QED
    BY <1>1, <1>3, <1>6, <1>8, <1>10, Frame DEF Way, BeforeConsume

LEMMA AuthorizeInv == ASSUME IInv, NEW p \in Procs, Authorize(p) PROVE IInv'
<1> DEFINE r == run[p]
           n == [r EXCEPT !.pc = "consume", !.consumption = "unknown"]
<1>1. At(p, "authorize") /\ UNCHANGED <<registry, release, permit, inflight, file, goals, runs>>
    BY DEF Authorize, cloud
<1>2. CASE Goto(p, "persist")
    BY <1>1, <1>2, MoveInv DEF Moves
<1>3. CASE run' = [run EXCEPT ![p].pc = "consume", ![p].consumption = "unknown"]
    <2>1. r.pc = "authorize" /\ r \in Runs
        BY <1>1, AtWork DEF At
    <2>2. /\ n \in Runs /\ n.pc = "consume" /\ n.id = r.id /\ n.sent = r.sent
          /\ n.consumption = "unknown" /\ n.failures = r.failures /\ n.late = r.late
        BY <2>1 DEF Runs, InRun, Requests, Consumptions
    <2>3. run' = [run EXCEPT ![p] = n]
        BY <1>3 DEF IInv, TypeOK
    <2> HIDE DEF n
    <2>4. /\ run' \in [Procs -> Runs \cup {Idle}] /\ run'[p] = n
          /\ \A q \in Procs \ {p} : run'[q] = run[q]
        BY <2>2, <2>3 DEF IInv, TypeOK
    <2>5. UNCHANGED <<recorded, phase, asked, reply, granted>>
        BY <1>1 DEF registry
    <2>6. TypeOK'
        BY <1>1, <2>4, <2>5 DEF IInv, TypeOK, Registry!TypeOK
    <2>7. RunOk(p) /\ FileOk(p)
        BY DEF IInv, RunInv
    <2>8. RunOk(p)' /\ FileOk(p)'
        BY <1>1, <2>1, <2>2, <2>4, <2>7 DEF RunOk, FileOk, Way, BeforeConsume, Submitting
    <2> QED
        BY <1>1, <2>1, <2>2, <2>4, <2>6, <2>8, Frame DEF Way, BeforeConsume
<1> QED
    BY <1>2, <1>3 DEF Authorize

\* What the local evidence says is what the run knows.
LEMMA WriteInv ==
    ASSUME IInv, NEW p \in Procs, NEW to \in {"submit", "catch", "ended"},
           NEW no \in {"catch", "ended"},
           \/ run[p].pc = "persist" /\ to = "submit" /\ no = "catch"
           \/ run[p].pc = "denied" /\ to = "submit" /\ no = "ended"
           \/ run[p].pc \in {"record", "catch"} /\ to = "ended" /\ no = "ended",
           Write(p, to, no), UNCHANGED <<registry, cloud, goals, runs>>
    PROVE  IInv'
<1> DEFINE r == run[p]
           written == [sent |-> r.sent, consumption |-> r.consumption]
<1>1. r \in Runs /\ r.pc \in {"persist", "denied", "record", "catch"}
    BY AtWork
<1>2. UNCHANGED <<recorded, phase, asked, reply, granted, release, permit, inflight, goals, runs>>
    BY DEF registry, cloud
<1>3. RunOk(p) /\ FileOk(p)
    BY DEF IInv, RunInv
<1>4. CASE /\ file' = [file EXCEPT ![p] = written]
           /\ run' = [run EXCEPT ![p].pc = to, ![p].result = TRUE]
    <2> DEFINE n == [r EXCEPT !.pc = to, !.result = TRUE]
    <2>1. /\ n \in Runs /\ n.pc = to /\ n.id = r.id /\ n.sent = r.sent
          /\ n.consumption = r.consumption /\ n.failures = r.failures /\ n.late = r.late
        BY <1>1 DEF Runs, InRun, Requests
    <2>2. run' = [run EXCEPT ![p] = n]
        BY <1>4 DEF IInv, TypeOK
    <2>3. /\ written \in Files /\ written.sent = r.sent /\ written.consumption = r.consumption
          /\ written # None
        BY <1>1, CloudAssumption DEF Runs, Files
    <2> HIDE DEF n, written
    <2>4. /\ run' \in [Procs -> Runs \cup {Idle}] /\ run'[p] = n
          /\ file' \in [Procs -> Files \cup {None}] /\ file'[p] = written
          /\ \A q \in Procs \ {p} : run'[q] = run[q] /\ file'[q] = file[q]
        BY <1>4, <2>1, <2>2, <2>3 DEF IInv, TypeOK
    <2>5. TypeOK'
        BY <1>2, <2>4 DEF IInv, TypeOK, Registry!TypeOK
    <2>6. RunOk(p)' /\ FileOk(p)'
        BY <1>1, <1>2, <1>3, <2>1, <2>3, <2>4 DEF RunOk, FileOk, Way, BeforeConsume, Submitting
    <2> QED
        BY <1>1, <1>2, <2>1, <2>4, <2>5, <2>6, Frame DEF Way, BeforeConsume
<1>5. CASE /\ run' = [run EXCEPT ![p].pc = no, ![p].result = TRUE, ![p].failures = @ + 1]
           /\ UNCHANGED file
    <2> DEFINE n == [r EXCEPT !.pc = no, !.result = TRUE, !.failures = r.failures + 1]
    <2>1. /\ n \in Runs /\ n.pc = no /\ n.id = r.id /\ n.sent = r.sent
          /\ n.consumption = r.consumption /\ n.failures = r.failures + 1 /\ n.late = r.late
        <3>1. no \in InRun \cup {"ended"}
            BY DEF InRun
        <3>2. r.failures + 1 \in Nat
            BY <1>1 DEF Runs
        <3> QED
            BY <1>1, <3>1, <3>2 DEF Runs
    <2>2. run' = [run EXCEPT ![p] = n]
        BY <1>1, <1>5 DEF IInv, TypeOK, Runs
    <2>3. r.failures \in Nat
        BY <1>1 DEF Runs
    <2> HIDE DEF n
    <2>4. /\ run' \in [Procs -> Runs \cup {Idle}] /\ run'[p] = n
          /\ \A q \in Procs \ {p} : run'[q] = run[q]
        BY <2>1, <2>2 DEF IInv, TypeOK
    <2>5. TypeOK'
        BY <1>2, <1>5, <2>4 DEF IInv, TypeOK, Registry!TypeOK
    <2>6. RunOk(p)' /\ FileOk(p)'
        BY <1>1, <1>2, <1>3, <1>5, <2>1, <2>3, <2>4 DEF RunOk, FileOk, Way, BeforeConsume, Submitting
    <2> QED
        BY <1>1, <1>2, <1>5, <2>1, <2>4, <2>5, <2>6, Frame DEF Way, BeforeConsume
<1> QED
    BY <1>4, <1>5 DEF Write

LEMMA FilingInv ==
    ASSUME IInv, NEW p \in Procs, Persist(p) \/ Record(p) \/ Catch(p) PROVE IInv'
<1>1. CASE Persist(p)
    BY <1>1, WriteInv DEF Persist, At
<1>2. CASE Record(p)
    BY <1>2, WriteInv DEF Record, At
<1>3. CASE Catch(p)
    <2>1. run[p].pc = "catch"
        BY <1>3 DEF Catch, At
    <2>2. file[p] = None
        BY <2>1 DEF IInv, RunInv, RunOk, Submitting
    <2> QED
        BY <1>3, <2>1, <2>2, WriteInv DEF Catch
<1> QED
    BY <1>1, <1>2, <1>3

\* The goal is the first of its proposal: no one else holds the claim.
LEMMA DispatchInv == ASSUME IInv, NEW p \in Procs, Dispatch(p) PROVE IInv'
<1> DEFINE r == run[p]
           n == [r EXCEPT !.pc = "persist", !.sent = TRUE]
<1>1. r.pc = "dispatch" /\ r \in Runs
    BY AtWork DEF Dispatch, At
<1>2. /\ n \in Runs /\ n.pc = "persist" /\ n.id = r.id /\ n.sent
      /\ n.consumption = r.consumption /\ n.failures = r.failures /\ n.late = r.late
    BY <1>1 DEF Runs, InRun
<1>3. /\ run' = [run EXCEPT ![p] = n] /\ goals' = [goals EXCEPT ![r.id] = goals[r.id] + 1]
      /\ UNCHANGED <<recorded, phase, asked, reply, granted, release, permit, inflight, file, runs>>
    BY <1>1 DEF Dispatch, registry, cloud, IInv, TypeOK, Runs
<1> HIDE DEF n
<1>4. r.id \in Identities /\ Holder(p) /\ granted[r.id] > 0 /\ goals[r.id] = 0
    BY <1>1 DEF Holder, Way, IInv, HolderInv, Runs
<1>5. /\ run' \in [Procs -> Runs \cup {Idle}] /\ run'[p] = n
      /\ \A q \in Procs \ {p} : run'[q] = run[q]
      /\ goals' \in [Identities -> Nat] /\ goals'[r.id] = 1
      /\ \A id \in Identities \ {r.id} : goals'[id] = goals[id]
    BY <1>2, <1>3, <1>4 DEF IInv, TypeOK
<1>6. TypeOK'
    BY <1>3, <1>5 DEF IInv, TypeOK, Registry!TypeOK
<1>7. RegistryInv'
    BY <1>1, <1>2, <1>3, <1>5 DEF IInv, RegistryInv, Registry!TypeOK
<1>8. \A q \in Procs : Holder(q)' => q # p /\ Holder(q) /\ run[q].id # r.id
    <2>1. phase[p] = "idle"
        BY <1>1 DEF IInv, RegistryInv
    <2> QED
        BY <1>2, <1>3, <1>4, <1>5, <2>1 DEF Holder, Way, BeforeConsume, IInv, HolderInv
<1>9. \A q \in Procs : Holder(q) => run[q].id \in Identities
    <2>1. \A q \in Procs : Holder(q) => run[q].pc # "idle"
        BY DEF Holder, Way, BeforeConsume, IInv, RegistryInv
    <2> QED
        BY <2>1, AtWork DEF Runs
<1>10. HolderInv'
    <2>1. \A q \in Procs : Holder(q)' => granted'[run'[q].id] > 0 /\ goals'[run'[q].id] = 0
        BY <1>3, <1>5, <1>8, <1>9 DEF IInv, HolderInv
    <2>2. \A q, q2 \in Procs : Holder(q)' /\ Holder(q2)' /\ run'[q].id = run'[q2].id => q = q2
        BY <1>5, <1>8 DEF IInv, HolderInv
    <2>3. \A id \in Identities : goals'[id] > 0 => granted'[id] > 0
        BY <1>3, <1>4, <1>5 DEF IInv, HolderInv
    <2>4. OneGoalPerProposal'
        BY <1>5 DEF IInv, HolderInv, OneGoalPerProposal
    <2> QED
        BY <2>1, <2>2, <2>3, <2>4 DEF HolderInv
<1>11. RunOk(p) /\ FileOk(p)
    BY DEF IInv, RunInv
<1>12. RunOk(p)' /\ FileOk(p)'
    BY <1>1, <1>2, <1>3, <1>5, <1>11 DEF RunOk, FileOk, Way, BeforeConsume, Submitting
<1>13. RunInv'
    BY <1>3, <1>5, <1>12 DEF IInv, RunInv, RunOk, FileOk
<1> QED
    BY <1>6, <1>7, <1>10, <1>13 DEF IInv

-----------------------------------------------------------------------------
\* Runs that end, by themselves, with their process or with the power.
LEMMA StopInv ==
    ASSUME IInv, NEW S \in SUBSET Procs, TypeOK',
           UNCHANGED <<granted, release, permit, file, goals>>,
           \A q \in S :
              /\ run'[q] = Idle /\ phase'[q] = "idle"
              /\ q \in inflight' => q \in inflight \/ run[q].pc = "consume",
           \A q \in Procs \ S :
              /\ run'[q] = run[q] /\ phase'[q] = phase[q] /\ asked'[q] = asked[q]
              /\ reply'[q] = reply[q] /\ (q \in inflight' <=> q \in inflight),
           \A id \in Identities : granted[id] > 0 => id \in recorded',
           recorded' = recorded \/ S = Procs
    PROVE  IInv'
<1>1. \A q \in S : run'[q].pc = "idle" /\ ~Holder(q)'
    BY DEF Idle, Holder, Way, BeforeConsume
<1>2. \A q \in Procs : Holder(q)' => q \notin S /\ Holder(q)
    BY <1>1 DEF Holder
<1>3. RegistryInv'
    BY <1>1 DEF IInv, RegistryInv, TypeOK
<1>4. HolderInv'
    BY <1>2 DEF IInv, HolderInv, OneGoalPerProposal
<1>5. \A q \in S : RunOk(q)' /\ FileOk(q)'
    BY <1>1 DEF IInv, RunInv, RunOk, FileOk, Submitting
<1>6. \A q \in Procs \ S : RunOk(q)' /\ FileOk(q)'
    BY DEF IInv, RunInv, RunOk, FileOk
<1> QED
    BY <1>3, <1>4, <1>5, <1>6 DEF IInv, RunInv

LEMMA FinishInv == ASSUME IInv, NEW p \in Procs, Finish(p) PROVE IInv'
<1>1. run[p].pc = "ended" /\ run' = [run EXCEPT ![p] = Idle]
      /\ UNCHANGED <<recorded, phase, asked, reply, granted, release, permit, inflight, file, goals, runs>>
    BY DEF Finish, At, registry, cloud
<1>2. phase[p] = "idle"
    BY <1>1 DEF IInv, RegistryInv
<1>3. TypeOK'
    BY <1>1 DEF IInv, TypeOK, Registry!TypeOK
<1> DEFINE S == {p}
<1>4. \A q \in S : run'[q] = Idle /\ phase'[q] = "idle"
    BY <1>1, <1>2 DEF IInv, TypeOK
<1>5. \A q \in Procs \ S : run'[q] = run[q]
    BY <1>1 DEF IInv, TypeOK
<1>6. \A id \in Identities : granted[id] > 0 => id \in recorded'
    BY <1>1 DEF IInv, RegistryInv
<1>7. S \in SUBSET Procs
    OBVIOUS
<1> HIDE DEF S
<1> QED
    BY <1>1, <1>3, <1>4, <1>5, <1>6, <1>7, StopInv

LEMMA CrashInv == ASSUME IInv, NEW p \in Procs, Crash(p) PROVE IInv'
<1>1. /\ run' = [run EXCEPT ![p] = Idle] /\ Registry!Abandon({p})
      /\ UNCHANGED <<recorded, granted, release, permit, file, goals, runs>>
      /\ inflight' = inflight \/ (inflight' = inflight \cup {p} /\ run[p].pc = "consume")
    BY DEF Crash, Registry!Crash, Abandoned, At
<1>2. /\ phase' \in [Procs -> Registry!Phases] /\ asked' \in [Procs -> Identities \cup {None}]
      /\ reply' \in [Procs -> Registry!Replies \cup {"none"}]
    BY <1>1 DEF Registry!Abandon, IInv, TypeOK, Registry!TypeOK, Registry!Phases
<1>3. TypeOK'
    BY <1>1, <1>2 DEF IInv, TypeOK, Registry!TypeOK
<1> DEFINE S == {p}
<1>4. \A q \in S :
         /\ run'[q] = Idle /\ phase'[q] = "idle"
         /\ q \in inflight' => q \in inflight \/ run[q].pc = "consume"
    BY <1>1 DEF IInv, TypeOK, Registry!Abandon
<1>5. \A q \in Procs \ S :
         /\ run'[q] = run[q] /\ phase'[q] = phase[q] /\ asked'[q] = asked[q]
         /\ reply'[q] = reply[q] /\ (q \in inflight' <=> q \in inflight)
    BY <1>1 DEF IInv, TypeOK, Registry!Abandon
<1>6. \A id \in Identities : granted[id] > 0 => id \in recorded'
    BY <1>1 DEF IInv, RegistryInv
<1>7. S \in SUBSET Procs
    OBVIOUS
<1> HIDE DEF S
<1> QED
    BY <1>1, <1>3, <1>4, <1>5, <1>6, <1>7, StopInv

\* What a power loss forgets was granted to nobody.
LEMMA PowerLossInv == ASSUME IInv, PowerLoss PROVE IInv'
<1>1. /\ run' = [p \in Procs |-> Idle] /\ Registry!Abandon(Procs)
      /\ UNCHANGED <<granted, release, permit, file, goals, runs>>
      /\ inflight' = inflight \cup {p \in Procs : run[p].pc = "consume"}
    BY DEF PowerLoss, Registry!PowerLoss, At
<1>2. recorded' \subseteq recorded /\ \A id \in Identities : granted[id] > 0 => id \in recorded'
    BY DEF PowerLoss, Registry!PowerLoss
<1>3. /\ phase' \in [Procs -> Registry!Phases] /\ asked' \in [Procs -> Identities \cup {None}]
      /\ reply' \in [Procs -> Registry!Replies \cup {"none"}]
    BY <1>1 DEF Registry!Abandon, Registry!Phases
<1>4. TypeOK'
    BY <1>1, <1>2, <1>3 DEF IInv, TypeOK, Registry!TypeOK
<1>5. \A q \in Procs :
         /\ run'[q] = Idle /\ phase'[q] = "idle"
         /\ q \in inflight' => q \in inflight \/ run[q].pc = "consume"
    BY <1>1 DEF Registry!Abandon
<1>6. Procs \in SUBSET Procs /\ Procs \ Procs = {}
    OBVIOUS
<1> QED
    BY <1>1, <1>2, <1>4, <1>5, <1>6, StopInv

\* A request of a run that is over reaches the cloud, or never does.
LEMMA LateInv == ASSUME IInv, NEW p \in Procs, LateConsume(p) \/ Vanish(p) PROVE IInv'
<1>1. /\ UNCHANGED <<recorded, phase, asked, reply, granted, release, run, file, goals, runs>>
      /\ p \in inflight /\ inflight' = inflight \ {p}
      /\ permit' = permit \/ permit' = [permit EXCEPT ![p] = "consumed"]
    BY DEF LateConsume, Vanish, registry
<1>2. /\ permit' \in [Procs -> {"none", "issued", "consumed"}]
      /\ \A q \in Procs : permit'[q] = permit[q] \/ (q = p /\ permit'[q] = "consumed")
    BY <1>1 DEF IInv, TypeOK
<1>3. TypeOK'
    BY <1>1, <1>2 DEF IInv, TypeOK, Registry!TypeOK
<1>4. RegistryInv' /\ HolderInv'
    BY <1>1 DEF IInv, RegistryInv, Registry!TypeOK, HolderInv, Holder, OneGoalPerProposal
<1>5. RunInv'
    BY <1>1, <1>2 DEF IInv, RunInv, RunOk, FileOk
<1> QED
    BY <1>3, <1>4, <1>5 DEF IInv

LEMMA RevokeInv == ASSUME IInv, Revoke PROVE IInv'
<1>1. /\ UNCHANGED <<recorded, phase, asked, reply, granted, permit, inflight, run, file, goals, runs>>
      /\ release' = "revoked"
    BY DEF Revoke, registry
<1>2. TypeOK' /\ RegistryInv'
    BY <1>1 DEF IInv, TypeOK, RegistryInv, Registry!TypeOK
<1>3. HolderInv'
    BY <1>1 DEF IInv, HolderInv, Holder, OneGoalPerProposal
<1>4. RunInv'
    BY <1>1 DEF IInv, RunInv, RunOk, FileOk
<1> QED
    BY <1>2, <1>3, <1>4 DEF IInv

-----------------------------------------------------------------------------
\* A delivery begins with the claim.
LEMMA ReceiveInv ==
    ASSUME IInv, NEW p \in Procs, NEW id \in Identities, Receive(p, id) PROVE IInv'
<1> DEFINE n == Fresh(id)
<1>1. /\ run[p].pc = "idle" /\ phase[p] = "idle" /\ runs < MaxRuns /\ runs' = runs + 1
      /\ run' = [run EXCEPT ![p] = n] /\ permit' = [permit EXCEPT ![p] = "none"]
      /\ file' = [file EXCEPT ![p] = None] /\ inflight' = inflight \ {p}
      /\ phase' = [phase EXCEPT ![p] = "asked"] /\ asked' = [asked EXCEPT ![p] = id]
      /\ UNCHANGED <<recorded, reply, granted, release, goals>>
    BY DEF Receive, At, Registry!Ask
<1>2. /\ n \in Runs /\ n.pc = "claim" /\ n.id = id /\ ~n.sent
      /\ n.consumption = "not_consumed" /\ ~n.late
    <2>1. 1 \in 1..Attempts
        BY CloudAssumption
    <2> QED
        BY <2>1 DEF Fresh, Runs, InRun, Consumptions
<1> HIDE DEF n
<1>3. /\ run' \in [Procs -> Runs \cup {Idle}] /\ run'[p] = n
      /\ permit' \in [Procs -> {"none", "issued", "consumed"}] /\ permit'[p] = "none"
      /\ file' \in [Procs -> Files \cup {None}] /\ file'[p] = None
      /\ phase' \in [Procs -> Registry!Phases] /\ phase'[p] = "asked"
      /\ asked' \in [Procs -> Identities \cup {None}] /\ asked'[p] = id
      /\ \A q \in Procs \ {p} :
            /\ run'[q] = run[q] /\ permit'[q] = permit[q] /\ file'[q] = file[q]
            /\ phase'[q] = phase[q] /\ asked'[q] = asked[q]
    BY <1>1, <1>2 DEF IInv, TypeOK, Registry!TypeOK, Registry!Phases
<1>4. runs' \in 0..MaxRuns
    BY <1>1, CloudAssumption DEF IInv, TypeOK
<1>5. TypeOK'
    BY <1>1, <1>3, <1>4 DEF IInv, TypeOK, Registry!TypeOK
<1>6. RegistryInv'
    BY <1>1, <1>2, <1>3, <1>5 DEF IInv, RegistryInv, TypeOK
<1>7. \A q \in Procs : Holder(q)' => q # p /\ Holder(q)
    BY <1>1, <1>2, <1>3 DEF Holder, Way, BeforeConsume
<1>8. HolderInv'
    BY <1>1, <1>3, <1>7 DEF IInv, HolderInv, OneGoalPerProposal
<1>9. RunOk(p)' /\ FileOk(p)'
    BY <1>1, <1>2, <1>3 DEF RunOk, FileOk, Way, BeforeConsume, Submitting
<1>10. RunInv'
    BY <1>1, <1>3, <1>9 DEF IInv, RunInv, RunOk, FileOk
<1> QED
    BY <1>5, <1>6, <1>8, <1>10 DEF IInv

\* Of the registry's steps only a grant makes a holder, of an identity that
\* was granted to nobody and that nobody else has recorded.
LEMMA RegistryStepInv == ASSUME IInv, NEW p \in Procs, RegistryStep(p) PROVE IInv'
<1>1. /\ run[p].pc = "claim"
      /\ UNCHANGED <<release, permit, inflight, run, file, goals, runs>>
    BY DEF RegistryStep, At, cloud
<1>2. run[p] \in Runs /\ asked[p] = run[p].id /\ run[p].id \in Identities
    <2>1. phase[p] # "idle"
        BY <1>1 DEF IInv, RegistryInv
    <2> QED
        BY <1>1, <2>1, AtWork DEF IInv, RegistryInv, Runs
<1>3. RunInv'
    BY <1>1 DEF IInv, RunInv, RunOk, FileOk
<1>4. CASE Registry!Record(p)
    <2>1. /\ phase[p] = "asked" /\ asked[p] \notin recorded
          /\ recorded' = recorded \cup {asked[p]}
          /\ phase' = [phase EXCEPT ![p] = "recorded"] /\ UNCHANGED <<asked, reply, granted>>
        BY <1>4 DEF Registry!Record, Registry!MemoryReply
    <2>2. /\ phase' \in [Procs -> Registry!Phases] /\ phase'[p] = "recorded"
          /\ \A q \in Procs \ {p} : phase'[q] = phase[q]
        BY <2>1 DEF IInv, TypeOK, Registry!TypeOK, Registry!Phases
    <2>3. TypeOK'
        BY <1>1, <1>2, <2>1, <2>2 DEF IInv, TypeOK, Registry!TypeOK
    <2>4. granted[asked[p]] = 0
        BY <1>2, <2>1 DEF IInv, RegistryInv, TypeOK, Registry!TypeOK
    <2>5. RegistryInv'
        BY <1>1, <2>1, <2>2, <2>3, <2>4 DEF IInv, RegistryInv, TypeOK
    <2>6. \A q \in Procs : Holder(q)' => Holder(q)
        BY <1>1, <2>1, <2>2 DEF Holder
    <2>7. HolderInv'
        BY <1>1, <2>1, <2>6 DEF IInv, HolderInv, OneGoalPerProposal
    <2> QED
        BY <1>3, <2>3, <2>5, <2>7 DEF IInv
<1>5. CASE Registry!Grant(p)
    <2>1. /\ phase[p] = "recorded" /\ granted' = [granted EXCEPT ![asked[p]] = granted[asked[p]] + 1]
          /\ phase' = [phase EXCEPT ![p] = "answered"] /\ reply' = [reply EXCEPT ![p] = "claimed"]
          /\ UNCHANGED <<recorded, asked>>
        BY <1>2, <1>5 DEF Registry!Grant, Registry!Answer, IInv, TypeOK, Registry!TypeOK
    <2>2. asked[p] \in recorded /\ granted[asked[p]] = 0
        BY <2>1 DEF IInv, RegistryInv
    <2>3. /\ phase' \in [Procs -> Registry!Phases] /\ phase'[p] = "answered"
          /\ reply' \in [Procs -> Registry!Replies \cup {"none"}] /\ reply'[p] = "claimed"
          /\ \A q \in Procs \ {p} : phase'[q] = phase[q] /\ reply'[q] = reply[q]
          /\ granted' \in [Identities -> Nat] /\ granted'[asked[p]] = 1
          /\ \A id \in Identities \ {asked[p]} : granted'[id] = granted[id]
        BY <1>2, <2>1, <2>2 DEF IInv, TypeOK, Registry!TypeOK, Registry!Phases, Registry!Replies
    <2>4. TypeOK'
        BY <1>1, <2>1, <2>3 DEF IInv, TypeOK, Registry!TypeOK
    <2>5. RegistryInv'
        BY <1>1, <1>2, <2>1, <2>2, <2>3, <2>4 DEF IInv, RegistryInv, TypeOK
    <2>6. \A q \in Procs \ {p} : Holder(q)' => Holder(q) /\ run[q].id # asked[p]
        BY <1>1, <2>2, <2>3 DEF Holder, IInv, HolderInv
    <2>7. \A q \in Procs \ {p} : Holder(q) => run[q].id \in Identities
        <3>1. \A q \in Procs : Holder(q) => run[q].pc # "idle"
            BY DEF Holder, Way, BeforeConsume, IInv, RegistryInv
        <3> QED
            BY <3>1, AtWork DEF Runs
    <2>8. goals[asked[p]] = 0
        BY <1>2, <2>2 DEF IInv, HolderInv, TypeOK
    <2>9. HolderInv'
        <3>1. \A q \in Procs : Holder(q)' => granted'[run'[q].id] > 0 /\ goals'[run'[q].id] = 0
            BY <1>1, <1>2, <2>3, <2>6, <2>7, <2>8 DEF IInv, HolderInv
        <3>2. \A q, q2 \in Procs : Holder(q)' /\ Holder(q2)' /\ run'[q].id = run'[q2].id => q = q2
            BY <1>1, <1>2, <2>6 DEF IInv, HolderInv
        <3>3. \A id \in Identities : goals'[id] > 0 => granted'[id] > 0
            BY <1>1, <2>3 DEF IInv, HolderInv
        <3> QED
            BY <1>1, <3>1, <3>2, <3>3 DEF IInv, HolderInv, OneGoalPerProposal
    <2> QED
        BY <1>3, <2>4, <2>5, <2>9 DEF IInv
<1>6. CASE Registry!Refuse(p) \/ Registry!Unavailable(p)
    <2>1. PICK r \in Registry!Replies \ {"claimed"} :
             /\ phase[p] \in {"asked", "recorded"}
             /\ phase' = [phase EXCEPT ![p] = "answered"] /\ reply' = [reply EXCEPT ![p] = r]
             /\ UNCHANGED <<recorded, asked, granted>>
        BY <1>6 DEF Registry!Refuse, Registry!Unavailable, Registry!Answer, Registry!MemoryReply,
                    Registry!Replies
    <2>2. /\ phase' \in [Procs -> Registry!Phases] /\ phase'[p] = "answered"
          /\ reply' \in [Procs -> Registry!Replies \cup {"none"}] /\ reply'[p] # "claimed"
          /\ \A q \in Procs \ {p} : phase'[q] = phase[q] /\ reply'[q] = reply[q]
        BY <2>1 DEF IInv, TypeOK, Registry!TypeOK, Registry!Phases
    <2>3. TypeOK'
        BY <1>1, <2>1, <2>2 DEF IInv, TypeOK, Registry!TypeOK
    <2>4. RegistryInv'
        BY <1>1, <2>1, <2>2, <2>3 DEF IInv, RegistryInv, TypeOK
    <2>5. \A q \in Procs : Holder(q)' => Holder(q)
        BY <1>1, <2>2 DEF Holder
    <2>6. HolderInv'
        BY <1>1, <2>1, <2>5 DEF IInv, HolderInv, OneGoalPerProposal
    <2> QED
        BY <1>3, <2>3, <2>4, <2>6 DEF IInv
<1> QED
    BY <1>4, <1>5, <1>6 DEF RegistryStep

\* Only the answer "claimed" leads on to the goal.
LEMMA ClaimAnsweredInv == ASSUME IInv, NEW p \in Procs, ClaimAnswered(p) PROVE IInv'
<1> DEFINE r == run[p]
<1>1. /\ r.pc = "claim" /\ phase[p] = "answered"
      /\ phase' = [phase EXCEPT ![p] = "idle"] /\ asked' = [asked EXCEPT ![p] = None]
      /\ reply' = [reply EXCEPT ![p] = "none"]
      /\ UNCHANGED <<recorded, granted, release, permit, inflight, file, goals, runs>>
    BY DEF ClaimAnswered, At, Registry!Return, cloud
<1>2. r \in Runs /\ 1 \in 1..Attempts
    BY <1>1, AtWork, CloudAssumption
<1>3. PICK to \in {"observe", "denied"} :
         run' = [run EXCEPT ![p].pc = to, ![p].tries = 1] /\ (to = "observe" => reply[p] = "claimed")
    BY DEF ClaimAnswered, Goto
<1> DEFINE n == [r EXCEPT !.pc = to, !.tries = 1]
<1>4. /\ n \in Runs /\ n.pc = to /\ n.id = r.id /\ n.sent = r.sent
      /\ n.consumption = r.consumption /\ n.failures = r.failures /\ n.late = r.late
    BY <1>2 DEF Runs, InRun
<1>5. run' = [run EXCEPT ![p] = n]
    BY <1>3 DEF IInv, TypeOK
<1> HIDE DEF n
<1>6. /\ run' \in [Procs -> Runs \cup {Idle}] /\ run'[p] = n
      /\ phase' \in [Procs -> Registry!Phases] /\ phase'[p] = "idle"
      /\ asked' \in [Procs -> Identities \cup {None}]
      /\ reply' \in [Procs -> Registry!Replies \cup {"none"}]
      /\ \A q \in Procs \ {p} :
            /\ run'[q] = run[q] /\ phase'[q] = phase[q] /\ asked'[q] = asked[q]
            /\ reply'[q] = reply[q]
    BY <1>1, <1>4, <1>5 DEF IInv, TypeOK, Registry!TypeOK, Registry!Phases
<1>7. TypeOK'
    BY <1>1, <1>6 DEF IInv, TypeOK, Registry!TypeOK
<1>8. RegistryInv'
    BY <1>1, <1>4, <1>6, <1>7 DEF IInv, RegistryInv, TypeOK
<1>9. \A q \in Procs : run'[q].id = run[q].id /\ (Holder(q)' => Holder(q))
    BY <1>1, <1>3, <1>4, <1>6 DEF Holder, Way, BeforeConsume
<1>10. HolderInv'
    BY <1>1, <1>9 DEF IInv, HolderInv, OneGoalPerProposal
<1>11. RunOk(p) /\ FileOk(p)
    BY DEF IInv, RunInv
<1>12. RunOk(p)' /\ FileOk(p)'
    BY <1>1, <1>4, <1>6, <1>11 DEF RunOk, FileOk, Way, BeforeConsume, Submitting
<1>13. RunInv'
    BY <1>1, <1>6, <1>12 DEF IInv, RunInv, RunOk, FileOk
<1> QED
    BY <1>7, <1>8, <1>10, <1>13 DEF IInv

-----------------------------------------------------------------------------
LEMMA StepInv == ASSUME IInv, [Next]_vars PROVE IInv'
<1>1. ASSUME NEW p \in Procs, Progress(p) PROVE IInv'
    BY <1>1, StepsInv, RegistryStepInv, ClaimAnsweredInv, AnswerLostInv, RefusedInv,
       RequestPermitInv, ConsumeInv, BeginFinalBoundaryInv, AuthorizeInv, DispatchInv,
       FilingInv, FinishInv DEF Progress
<1>2. ASSUME NEW p \in Procs, NEW id \in Identities, Receive(p, id) PROVE IInv'
    BY <1>2, ReceiveInv
<1>3. ASSUME NEW p \in Procs, Crash(p) \/ LateConsume(p) \/ Vanish(p) PROVE IInv'
    BY <1>3, CrashInv, LateInv
<1>4. CASE UNCHANGED vars
    <2>1. UNCHANGED <<recorded, phase, asked, reply, granted, release, permit, inflight, run,
                      file, goals, runs>>
        BY <1>4 DEF vars, registry, cloud
    <2>2. TypeOK' /\ RegistryInv'
        BY <2>1 DEF IInv, TypeOK, RegistryInv, Registry!TypeOK
    <2>3. HolderInv'
        BY <2>1 DEF IInv, HolderInv, Holder, OneGoalPerProposal
    <2>4. RunInv'
        BY <2>1 DEF IInv, RunInv, RunOk, FileOk
    <2> QED
        BY <2>2, <2>3, <2>4 DEF IInv
<1> QED
    BY <1>1, <1>2, <1>3, <1>4, RevokeInv, PowerLossInv DEF Next

\* The inductive invariant holds in every behaviour.
THEOREM Invariance == Spec => []IInv
<1>1. Init => IInv
    BY InitInv
<1>2. IInv /\ [Next]_vars => IInv'
    BY StepInv
<1> QED
    BY <1>1, <1>2, PTL DEF Spec

\* A proposal moves the robot at most once, across deliveries, runtimes, crashes.
THEOREM MovesAtMostOnce == Spec => []OneGoalPerProposal
<1>1. IInv => OneGoalPerProposal
    BY DEF IInv, HolderInv
<1> QED
    BY <1>1, Invariance, PTL

\* No goal is sent before the cloud has the run's permit as consumed.
THEOREM PermitFirst == Spec => []GoalNeedsConsumedPermit
<1>1. IInv => GoalNeedsConsumedPermit
    BY DEF IInv, RunInv, RunOk, GoalNeedsConsumedPermit
<1> QED
    BY <1>1, Invariance, PTL

\* No goal is sent by a run whose final boundary began after the revocation.
THEOREM RevocationStops == Spec => []NoGoalAfterRevocation
<1>1. IInv => NoGoalAfterRevocation
    BY DEF IInv, RunInv, RunOk, NoGoalAfterRevocation
<1> QED
    BY <1>1, Invariance, PTL

\* The local evidence is right about the goal and about the cloud permit.
THEOREM EvidenceIsRight == Spec => []FiledTruthfully
<1>1. IInv => FiledTruthfully
    BY DEF IInv, RunInv, RunOk, FileOk, FiledTruthfully
<1> QED
    BY <1>1, Invariance, PTL

\* A goal leaves local evidence, unless it could not be written twice.
THEOREM GoalIsOnRecord == Spec => []NoSilentGoal
<1>1. IInv => NoSilentGoal
    BY DEF IInv, RunInv, RunOk, NoSilentGoal
<1> QED
    BY <1>1, Invariance, PTL

=============================================================================
