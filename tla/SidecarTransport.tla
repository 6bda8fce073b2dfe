-------------------------- MODULE SidecarTransport --------------------------
(***************************************************************************)
(* The gateway process, the Python sidecar it spawns and the lines they    *)
(* exchange: PythonRos2SidecarTransport (packages/ros2-reference-gateway/  *)
(* sidecar.ts), the request loop of experimental/ros2-reference-sidecar/   *)
(* rlsok_ros2_sidecar.py, and the BoundedProposalProcessor in front of the *)
(* handler (apps/cli/ros2.ts), from the start of `rlsok ros2 run' to its   *)
(* end.                                                                    *)
(*                                                                         *)
(* Proposals and answers travel on one pipe, and the handler of a proposal *)
(* waits for answers that come behind it.  Time is counted in units; a     *)
(* record's "left" is what remains of its limit.  What the handler decides *)
(* is nondeterministic here: a proposal is blocked or dispatched.          *)
(***************************************************************************)
EXTENDS Naturals, FiniteSets, SequencesExt

CONSTANTS
    Published,       \* bound: proposals published
    Observes,        \* whether the release binds a configuration doctor reports
    DiscoveryLimit,  \* discoveryTimeoutMs
    ShutdownLimit,   \* the limit close() puts on its own request
    GoalLimit,       \* how long the sidecar waits for a goal response (2 s)
    ResultLimit,     \* how long it waits for a result (30 s)
    Slack,           \* what a dispatch may take beyond all these (3 s)
    MaxLag,          \* bound: time a request and its answer spend in transit
    None

\* Proposals are numbered in the order of their publication.
Proposals == 1..Published

ASSUME TransportAssumption ==
    /\ {Published, DiscoveryLimit, ShutdownLimit, GoalLimit, ResultLimit, Slack,
        MaxLag} \subseteq Nat
    /\ MaxLag < Slack /\ MaxLag < DiscoveryLimit
    /\ Observes \in BOOLEAN
    /\ None \notin Proposals

VARIABLES
    main,        \* the command: start-up, serving, close()
    channel,     \* "unstarted", "open" (there is a child), "failed" for ever
    nextId,
    pending,     \* requests without an answer
    toSidecar,   \* frames in the child's stdin
    fromSidecar, \* lines in its stdout
    current,     \* the proposal being handled, or None
    stage,       \* how far its handler is
    queued,      \* the one waiting proposal, or None
    outcome,     \* per proposal, how its handling ended
    accepted,    \* proposals the processor took, in order (history)
    side,        \* the sidecar process
    published,   \* proposals published so far
    goal,        \* per proposal, what the controller knows of its goal
    lag          \* time in transit since the last request was written

processor == <<current, stage, queued, outcome, accepted>>
requests == <<channel, nextId, pending, toSidecar>>
outside == <<published, goal>>
vars == <<main, requests, fromSidecar, processor, side, outside, lag>>

Waits == {"waitServer", "waitGoal", "waitResult"}
Outcomes == {"blocked", "rejected", "unconfirmed", "completed", "unknown"}

TypeOK ==
    /\ main \in {"unstarted", "starting", "checking", "serving", "closing",
                 "closed", "aborted"}
    /\ channel \in {"unstarted", "open", "failed"}
    /\ Cardinality(pending) <= 2    \* far from MAXIMUM_PENDING_REQUESTS, 16
    /\ \A r \in pending : r.id < nextId /\ r.left \in Nat
    /\ current \in Proposals \cup {None}
    /\ stage \in {"none", "handling", "observing", "deciding", "dispatching"}
    /\ queued \in Proposals \cup {None}
    /\ outcome \in [Proposals -> Outcomes \cup {"none", "dropped"}]
    /\ side.pc \in {"off", "boot", "reading", "exited"} \cup Waits
    /\ published \in 0..Published
    /\ goal \in [Proposals -> {"none", "sent", "accepted", "refused", "finished"}]
    /\ lag \in 0..MaxLag

Init ==
    /\ main = "unstarted" /\ channel = "unstarted"
    /\ nextId = 1 /\ pending = {} /\ toSidecar = <<>> /\ fromSidecar = <<>>
    /\ current = None /\ stage = "none" /\ queued = None
    /\ outcome = [m \in Proposals |-> "none"]
    /\ accepted = <<>>
    /\ side = [pc |-> "off", left |-> 0, id |-> 0, of |-> None,
               fault |-> "none"]
    /\ published = 0
    /\ goal = [m \in Proposals |-> "none"]
    /\ lag = 0

-----------------------------------------------------------------------------
(* The proposal processor.                                                 *)

\* The handler is done; the loop of submit goes on with the queued proposal.
Settle(result) ==
    /\ outcome' = [outcome EXCEPT ![current] = result]
    /\ current' = queued /\ queued' = None
    /\ stage' = IF queued = None THEN "none" ELSE "handling"
    /\ UNCHANGED accepted

Submit(m) ==
    IF current = None
    THEN /\ current' = m /\ stage' = "handling"
         /\ accepted' = Append(accepted, m)
         /\ UNCHANGED <<queued, outcome>>
    ELSE IF queued = None
    THEN /\ queued' = m
         /\ accepted' = Append(accepted, m)
         /\ UNCHANGED <<current, stage, outcome>>
    ELSE /\ outcome' = [outcome EXCEPT ![m] = "dropped"]
         /\ UNCHANGED <<current, stage, queued, accepted>>

-----------------------------------------------------------------------------
(* Requests.                                                               *)

Smaller(m, n) == IF m < n THEN m ELSE n

\* Slip: one limit for every operation.
TimeoutUniform(operation) == DiscoveryLimit

Timeout(operation) ==
    IF operation = "dispatch"
    THEN DiscoveryLimit + GoalLimit + ResultLimit + Slack
    ELSE IF operation = "shutdown" THEN Smaller(DiscoveryLimit, ShutdownLimit)
    ELSE DiscoveryLimit

\* A request, written next to those in others.
Request(others, operation, of) ==
    /\ pending' = others \cup
          {[id |-> nextId, operation |-> operation, left |-> Timeout(operation)]}
    /\ toSidecar' =
          Append(toSidecar, [id |-> nextId, operation |-> operation, of |-> of])
    /\ nextId' = nextId + 1
    /\ lag' = 0

\* Every call that waits for an answer is rejected: the command's own and the
\* handler's.  A failed dispatch is an unknown one.
RejectCallers ==
    /\ main' = IF main \in {"starting", "checking"} THEN "aborted"
               ELSE IF main = "closing" THEN "closed" ELSE main
    /\ IF stage = "observing" THEN Settle("blocked")
       ELSE IF stage = "dispatching" THEN Settle("unknown")
       ELSE UNCHANGED processor

\* failChannel; there is no way back.  The kill only asks the child to end.
FailChannel ==
    /\ channel' = "failed"
    /\ pending' = {}
    /\ lag' = 0
    /\ RejectCallers
    /\ UNCHANGED <<nextId, toSidecar, side>>

-----------------------------------------------------------------------------
(* The command.                                                            *)

\* doctor() on a transport without a child spawns one and pings it first.
Start ==
    /\ main = "unstarted"
    /\ main' = "starting" /\ channel' = "open"
    /\ side' = [side EXCEPT !.pc = "boot"]
    /\ Request({}, "ping", None)
    /\ UNCHANGED <<fromSidecar, processor, outside>>

\* The operator interrupts the command, which closes the transport.
Close ==
    /\ main = "serving"
    /\ IF channel = "open"
       THEN main' = "closing" /\ Request(pending, "shutdown", None)
       ELSE main' = "closed" /\ UNCHANGED <<pending, toSidecar, nextId, lag>>
    /\ UNCHANGED <<channel, fromSidecar, processor, side, outside>>

(* The handler of a proposal.                                              *)

\* The configuration is observed by a doctor request, or not at all.
Observe ==
    /\ stage = "handling"
    /\ IF Observes /\ channel = "open"
       THEN /\ Request(pending, "doctor", None)
            /\ stage' = "observing"
            /\ UNCHANGED <<current, queued, outcome, accepted>>
       ELSE /\ IF Observes THEN Settle("blocked")
               ELSE /\ stage' = "deciding"
                    /\ UNCHANGED <<current, queued, outcome, accepted>>
            /\ UNCHANGED <<pending, toSidecar, nextId, lag>>
    /\ UNCHANGED <<main, channel, fromSidecar, side, outside>>

Block ==
    /\ stage = "deciding"
    /\ Settle("blocked")
    /\ UNCHANGED <<main, requests, fromSidecar, side, outside, lag>>

DispatchTrajectory ==
    /\ stage = "deciding"
    /\ IF channel = "open"
       THEN /\ Request(pending, "dispatch", current)
            /\ stage' = "dispatching"
            /\ UNCHANGED <<current, queued, outcome, accepted>>
       ELSE /\ Settle("unknown")
            /\ UNCHANGED <<pending, toSidecar, nextId, lag>>
    /\ UNCHANGED <<main, channel, fromSidecar, side, outside>>

-----------------------------------------------------------------------------
(* handleLine: the lines of the sidecar, read even after a failure.        *)

Line == Head(fromSidecar)
NextLine(event) ==
    /\ fromSidecar # <<>>
    /\ Line.event = event
    /\ fromSidecar' = Tail(fromSidecar)

Subscribed == main \in {"serving", "closing", "closed"}

\* The reader does not wait for the handler it calls.
ReadProposal ==
    /\ NextLine("proposal")
    /\ main # "aborted"
    /\ IF Subscribed THEN Submit(Line.of)
       ELSE /\ outcome' = [outcome EXCEPT ![Line.of] = "dropped"]
            /\ UNCHANGED <<current, stage, queued, accepted>>
    /\ UNCHANGED <<main, requests, side, outside, lag>>

Answered(operation) ==
    /\ NextLine("reply")
    /\ \E r \in pending :
          /\ r.id = Line.id /\ r.operation = operation
          /\ pending' = pending \ {r}
    /\ UNCHANGED outside

PingAnswered ==
    /\ NextLine("reply")
    /\ main = "starting" /\ channel = "open"
    /\ main' = "checking"
    /\ Request({}, "doctor", None)
    /\ UNCHANGED <<channel, processor, side, outside>>

DoctorAnswered ==
    /\ Answered("doctor")
    /\ IF main = "checking"
       THEN main' = "serving" /\ UNCHANGED stage
       ELSE stage' = "deciding" /\ UNCHANGED main
    /\ UNCHANGED <<channel, nextId, toSidecar, current, queued, outcome,
                   accepted, side, lag>>

\* An answer with ok = FALSE rejects the call: it is as unknown as no answer.
DispatchAnswered ==
    /\ Answered("dispatch")
    /\ Settle(Line.result)
    /\ UNCHANGED <<main, channel, nextId, toSidecar, side, lag>>

\* The answer to the shutdown request, or one that nobody waits for.
LastAnswer ==
    /\ NextLine("reply")
    /\ \/ \A r \in pending : r.id # Line.id
       \/ \E r \in pending : r.id = Line.id /\ r.operation = "shutdown"
    /\ FailChannel
    /\ UNCHANGED outside

\* Slip: the timer forgets the call it belongs to.
TimerFiresQuietly ==
    /\ \E r \in pending : r.left = 0
    /\ channel' = "failed"
    /\ pending' = {}
    /\ UNCHANGED <<main, nextId, toSidecar, fromSidecar, processor, side, outside,
                   lag>>

\* A malformed or oversized line, or a joint state that is not one.
UnusableLine ==
    /\ NextLine("unusable")
    /\ FailChannel
    /\ UNCHANGED outside

TimerFires ==
    /\ \E r \in pending : r.left = 0
    /\ FailChannel
    /\ UNCHANGED <<fromSidecar, outside>>

\* The exit event, or the error of a write to a process that is gone.
ChildGone ==
    /\ side.pc = "exited" /\ channel = "open"
    /\ FailChannel
    /\ UNCHANGED <<fromSidecar, outside>>

-----------------------------------------------------------------------------
(* The sidecar: one request at a time from its stdin.  A process that was  *)
(* killed may go on for a while.                                           *)

Gateway == <<main, requests, processor, lag>>

Hung == side.fault = "hung"
At(pc) == side.pc = pc /\ ~Hung

Boot ==
    /\ At("boot")
    /\ side' = [side EXCEPT !.pc = "reading"]
    /\ UNCHANGED <<Gateway, fromSidecar, outside>>

Emit(line) == fromSidecar' = Append(fromSidecar, line)
Reply(id, result) == Emit([event |-> "reply", id |-> id, result |-> result])

Serve ==
    /\ At("reading") /\ toSidecar # <<>>
    /\ toSidecar' = Tail(toSidecar)
    /\ LET request == Head(toSidecar)
       IN  IF request.operation = "dispatch"
           THEN /\ side' = [side EXCEPT !.pc = "waitServer", !.id = request.id,
                                        !.of = request.of, !.left = DiscoveryLimit]
                /\ UNCHANGED fromSidecar
           ELSE /\ Reply(request.id, "ok")
                /\ side' = [side EXCEPT
                     !.pc = IF request.operation = "shutdown" THEN "exited" ELSE @]
    /\ UNCHANGED <<main, channel, nextId, pending, processor, outside, lag>>

Await(pc, limit) == side' = [side EXCEPT !.pc = pc, !.left = limit]

\* The dispatch ends with an answer.
Finish(result) ==
    /\ Reply(side.id, result)
    /\ side' = [side EXCEPT !.pc = "reading", !.left = 0, !.id = 0,
                            !.of = None]
    /\ UNCHANGED <<Gateway, outside>>

ServerMissing == At("waitServer") /\ side.left = 0 /\ Finish("rejected")

SendGoal ==
    /\ At("waitServer")
    /\ goal' = [goal EXCEPT ![side.of] = "sent"]
    /\ Await("waitGoal", GoalLimit)
    /\ UNCHANGED <<Gateway, fromSidecar, published>>

GoalRefused ==
    /\ At("waitGoal") /\ goal[side.of] = "refused"
    /\ Finish("rejected")

GoalAccepted ==
    /\ At("waitGoal") /\ goal[side.of] \in {"accepted", "finished"}
    /\ Await("waitResult", ResultLimit)
    /\ UNCHANGED <<Gateway, fromSidecar, outside>>

\* No response in time, or one that carries no goal handle.
NoHandle ==
    At("waitGoal") /\ (side.left = 0 \/ goal[side.of] # "sent")

\* Slip: no response is taken for a refusal.
GoalUnansweredRejected == NoHandle /\ Finish("rejected")

\* That is an exception, answered with ok = FALSE.
GoalUnanswered == NoHandle /\ Finish("unknown")

ResultArrives ==
    At("waitResult") /\ goal[side.of] = "finished" /\ Finish("completed")

\* No result in time, an empty one, or a status that is not a final one.
ResultMissing ==
    /\ At("waitResult")
    /\ side.left = 0 \/ goal[side.of] = "finished"
    /\ Finish("unconfirmed")

-----------------------------------------------------------------------------
(* Surroundings.  The sidecar has at most one fault before it ends.        *)

\* A proposal arrives on the topic; the executor's threads emit it at once.
Publish ==
    /\ side.pc \in {"reading"} \cup Waits
    /\ main # "aborted"
    /\ published < Published
    /\ published' = published + 1
    /\ Emit([event |-> "proposal", of |-> published'])
    /\ UNCHANGED <<Gateway, side, goal>>

Controller(m) ==
    /\ \/ goal[m] = "sent" /\ goal' = [goal EXCEPT ![m] = "accepted"]
       \/ goal[m] = "sent" /\ goal' = [goal EXCEPT ![m] = "refused"]
       \/ goal[m] = "accepted" /\ goal' = [goal EXCEPT ![m] = "finished"]
    /\ UNCHANGED <<Gateway, fromSidecar, side, published>>

\* A bug or the middleware keeps the request loop from going on.
Hang ==
    /\ side.pc \in {"boot", "reading"} \cup Waits
    /\ side.fault = "none"
    /\ side' = [side EXCEPT !.fault = "hung"]
    /\ UNCHANGED <<Gateway, fromSidecar, outside>>

EmitUnusable ==
    /\ side.pc \in {"reading"} \cup Waits
    /\ side.fault = "none"
    /\ side' = [side EXCEPT !.fault = "unusable"]
    /\ Emit([event |-> "unusable"])
    /\ UNCHANGED <<Gateway, outside>>

Exit ==
    /\ side.pc \notin {"off", "exited"}
    /\ side' = [side EXCEPT !.pc = "exited"]
    /\ UNCHANGED <<Gateway, fromSidecar, outside>>

Waiting == side.pc \in Waits /\ ~Hung
InTransit == (At("reading") /\ toSidecar # <<>>) \/ fromSidecar # <<>>

\* A limit that is reached acts before time goes on, and transit is bounded.
Tick ==
    /\ pending # {} \/ Waiting
    /\ \A r \in pending : r.left > 0
    /\ Waiting => side.left > 0
    /\ InTransit => lag < MaxLag
    /\ pending' = {[r EXCEPT !.left = @ - 1] : r \in pending}
    /\ side' = IF Waiting THEN [side EXCEPT !.left = @ - 1] ELSE side
    /\ lag' = IF InTransit THEN lag + 1 ELSE lag
    /\ UNCHANGED <<main, channel, nextId, toSidecar, fromSidecar, processor, outside>>

-----------------------------------------------------------------------------
GatewayStep ==
    \/ Start
    \/ Observe \/ Block \/ DispatchTrajectory
    \/ ReadProposal \/ PingAnswered \/ DoctorAnswered \/ DispatchAnswered
    \/ LastAnswer \/ UnusableLine \/ TimerFires \/ ChildGone

SidecarStep ==
    \/ Boot \/ Serve
    \/ ServerMissing \/ SendGoal
    \/ GoalRefused \/ GoalAccepted \/ GoalUnanswered
    \/ ResultArrives \/ ResultMissing

Next ==
    \/ GatewayStep \/ Close
    \/ SidecarStep
    \/ Publish
    \/ \E m \in Proposals : Controller(m)
    \/ Hang \/ EmitUnusable \/ Exit
    \/ Tick

Spec == Init /\ [][Next]_vars

\* The event loop and the clock go on, and so does the sidecar unless it hangs
\* or dies; nothing is assumed of the controller, the operator or the proposer.
FairSpec ==
    Spec /\ WF_vars(GatewayStep) /\ WF_vars(SidecarStep) /\ WF_vars(Tick)
-----------------------------------------------------------------------------
\* What the gateway was told of a dispatch is so, and stays so: a goal reported
\* as rejected, and one never dispatched, is not and will not be accepted by
\* the controller, and a reported completion has happened.  Only "unknown" and
\* "unconfirmed" leave anything open.
OutcomeTruthful ==
    \A m \in Proposals :
        /\ outcome[m] = "rejected" => goal[m] \in {"none", "refused"}
        /\ outcome[m] \in {"blocked", "dropped"} => goal[m] = "none"
        /\ outcome[m] = "unconfirmed" => goal[m] \in {"accepted", "finished"}
        /\ outcome[m] = "completed" => goal[m] = "finished"
        /\ outcome[m] \in {"rejected", "blocked", "dropped"} =>
              /\ side.of = m => side.pc \notin Waits
              /\ \A k \in 1..Len(toSidecar) : toSidecar[k].of # m

\* A channel in service fails only with its sidecar: the limits leave a sidecar
\* that answers within its own limits, over a pipe that is slow within the
\* slack, always enough time, and no answer is ever one too many.
HealthyChannelStays ==
    channel = "failed" /\ main = "serving" =>
        side.fault # "none" \/ side.pc = "exited"

\* The processor comes to rest, every proposal it took handled to an end (a
\* finite number is published), although the sidecar may hang or die and the
\* controller may never answer.
EveryProposalSettles ==
    []<>(current = None /\ queued = None
            /\ \A k \in 1..Len(accepted) : outcome[accepted[k]] # "none")
=============================================================================
