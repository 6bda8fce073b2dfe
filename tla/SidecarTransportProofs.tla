------------------------ MODULE SidecarTransportProofs ------------------------
(***************************************************************************)
(* What SidecarTransport promises, for every number of proposals and every *)
(* choice of the limits in which the slack exceeds the time in transit.    *)
(*                                                                         *)
(* TruthInv holds whatever fails.  A proposal is in one place at a time:   *)
(* not published yet, on its way, waiting, at work, or settled (Placed,    *)
(* Arriving).  Its dispatch is handed to the sidecar at most once, and not *)
(* before its handler asks for it (HandedOnce, Untouched).  An answer that *)
(* somebody waits for is true of the proposal at work (Told), and what the *)
(* gateway was told stays true, because nothing of a settled proposal is   *)
(* left in the sidecar unless its outcome is unknown (Truthful).           *)
(*                                                                         *)
(* HealthInv adds the channel.  As long as the sidecar has no fault there  *)
(* is at most one request, in exactly one of three places: written, at     *)
(* work, or answered.  In each, the time the request has left and the time *)
(* already spent in transit cover what the sidecar may still take.         *)
(*                                                                         *)
(* Few counts the requests of any channel: two at most.                    *)
(***************************************************************************)
EXTENDS SidecarTransport, FiniteSetTheorems, TLAPS

Operations == {"ping", "doctor", "dispatch", "shutdown"}
Calls == {"doctor", "dispatch"}
Results == {"rejected", "unknown", "unconfirmed", "completed"}
Faults == {"none", "hung", "unusable"}
Ids == Proposals \cup {None}

Requests == [id : Nat, operation : Operations, left : Nat]
Frames == [id : Nat, operation : Operations, of : Ids]
Replies == [event : {"reply"}, id : Nat, result : Results \cup {"ok"}]
Arrivals == [event : {"proposal"}, of : Proposals]
Lines == Replies \cup Arrivals \cup [event : {"unusable"}]
Sides == [pc : {"off", "boot", "reading", "exited"} \cup Waits, left : Nat, id : Nat,
          of : Ids, fault : Faults]

OfProcessor ==
    /\ current \in Ids
    /\ stage \in {"none", "handling", "observing", "deciding", "dispatching"}
    /\ queued \in Ids
    /\ outcome \in [Proposals -> Outcomes \cup {"none", "dropped"}]

OfRequests ==
    /\ nextId \in Nat
    /\ pending \subseteq Requests
    /\ toSidecar \in Seq(Frames)

Types ==
    /\ main \in {"unstarted", "starting", "checking", "serving", "closing",
                 "closed", "aborted"}
    /\ channel \in {"unstarted", "open", "failed"}
    /\ OfRequests
    /\ fromSidecar \in Seq(Lines)
    /\ OfProcessor
    /\ side \in Sides
    /\ published \in 0..Published
    /\ goal \in [Proposals -> {"none", "sent", "accepted", "refused", "finished"}]
    /\ lag \in 0..MaxLag

Written == 1..Len(toSidecar)
Read == 1..Len(fromSidecar)

\* The sidecar has the proposal's dispatch before it, or at work.
Handed(m) ==
    \/ \E k \in Written : toSidecar[k].of = m
    \/ side.pc \in Waits /\ side.of = m

Numbered ==
    /\ \A r \in pending : r.id < nextId
    /\ \A k \in Written : toSidecar[k].id < nextId
    /\ \A k \in Read : fromSidecar[k].event = "reply" => fromSidecar[k].id < nextId
    /\ side.pc \in Waits => side.id < nextId

Placed ==
    /\ stage = "none" <=> current = None
    /\ current = None => queued = None
    /\ queued # None => queued # current
    /\ \A m \in Proposals : m \in {current, queued} => m <= published /\ outcome[m] = "none"
    /\ main \in {"unstarted", "starting", "checking"} => current = None
    /\ \A m \in Proposals : m > published => outcome[m] = "none"

IsArrival(k) == fromSidecar[k].event = "proposal"
Arriving ==
    /\ \A k \in Read : IsArrival(k) =>
          /\ fromSidecar[k].of <= published
          /\ outcome[fromSidecar[k].of] = "none"
          /\ fromSidecar[k].of \notin {current, queued}
    /\ \A j, k \in Read :
          IsArrival(j) /\ IsArrival(k) /\ fromSidecar[j].of = fromSidecar[k].of => j = k

Asked ==
    /\ \A q, r \in pending : q.operation \in Calls /\ r.operation \in Calls => q = r
    /\ \A r \in pending :
          /\ r.operation = "doctor" => main = "checking" \/ stage = "observing"
          /\ r.operation = "dispatch" => stage = "dispatching"

HandedOnce ==
    /\ \A k \in Written :
          /\ toSidecar[k].operation = "dispatch" <=> toSidecar[k].of # None
          /\ toSidecar[k].of # None => goal[toSidecar[k].of] = "none"
    /\ \A j, k \in Written :
          toSidecar[j].of = toSidecar[k].of /\ toSidecar[j].of # None => j = k
    /\ side.pc \in Waits =>
          /\ side.of \in Proposals
          /\ \A k \in Written : toSidecar[k].of # side.of
    /\ side.pc = "waitServer" => goal[side.of] = "none"
    /\ side.pc = "waitResult" => goal[side.of] \in {"accepted", "finished"}

Untouched ==
    \A m \in Proposals :
        /\ outcome[m] \in {"none", "blocked", "dropped"}
        /\ m = current => stage # "dispatching"
        => goal[m] = "none" /\ ~Handed(m)

IsTrue(m, result) ==
    /\ result = "rejected" => goal[m] \in {"none", "refused"} /\ ~Handed(m)
    /\ result = "unconfirmed" => goal[m] \in {"accepted", "finished"}
    /\ result = "completed" => goal[m] = "finished"

Truthful == \A m \in Proposals : IsTrue(m, outcome[m])

Told ==
    \A r \in pending : r.operation = "dispatch" =>
        /\ \A k \in Written : toSidecar[k].id = r.id => toSidecar[k].of = current
        /\ side.pc \in Waits /\ side.id = r.id => side.of = current
        /\ \A k \in Read : fromSidecar[k].event = "reply" /\ fromSidecar[k].id = r.id =>
              /\ fromSidecar[k].result \in Results
              /\ ~Handed(current) /\ IsTrue(current, fromSidecar[k].result)

NotStarted == main = "unstarted" => side.pc = "off"

TruthInv ==
    /\ NotStarted /\ Types /\ Numbered /\ Placed /\ Arriving /\ Asked
    /\ HandedOnce /\ Untouched /\ Truthful /\ Told

-----------------------------------------------------------------------------
(***************************************************************************)
(* The three ways a queue changes.                                         *)
(***************************************************************************)
LEMMA Taken ==
    ASSUME NEW S, NEW s \in Seq(S), s # <<>>
    PROVE  /\ Head(s) = s[1] /\ s[1] \in S /\ Len(s) \in Nat /\ Len(s) >= 1
           /\ Tail(s) \in Seq(S) /\ Len(Tail(s)) = Len(s) - 1
           /\ \A k \in 1..Len(Tail(s)) : k + 1 \in 1..Len(s) /\ Tail(s)[k] = s[k + 1]
OBVIOUS

LEMMA Added ==
    ASSUME NEW S, NEW s \in Seq(S), NEW x \in S
    PROVE  /\ Append(s, x) \in Seq(S) /\ Len(Append(s, x)) = Len(s) + 1 /\ Len(s) \in Nat
           /\ \A k \in 1..Len(s) : Append(s, x)[k] = s[k]
           /\ Append(s, x)[Len(s) + 1] = x
OBVIOUS

LEMMA FrameTypes ==
    ASSUME Types
    PROVE  \A k \in Written : toSidecar[k] \in Frames /\ toSidecar[k].id \in Nat
<1>1. \A k \in Written : toSidecar[k] \in Frames
  BY DEF Types, OfRequests, Written
<1> QED
  BY <1>1 DEF Frames

\* The gateway takes a line, or none: what is left has moved up by that many.
Drained ==
    \E d \in {0, 1} :
        /\ fromSidecar' \in Seq(Lines)
        /\ Len(fromSidecar') = Len(fromSidecar) - d
        /\ \A k \in 1..Len(fromSidecar') :
              k + d \in Read /\ fromSidecar'[k] = fromSidecar[k + d]

LEMMA WhereFrom ==
    ASSUME Drained
    PROVE  \E d \in {0, 1} :
              /\ \A k \in Read' : k \in Int /\ k + d \in Read /\ fromSidecar'[k] = fromSidecar[k + d]
              /\ Read' \subseteq Int
BY DEF Drained, Read

LEMMA LinesMoveUp ==
    ASSUME Types,
           \/ fromSidecar' = fromSidecar
           \/ fromSidecar # <<>> /\ fromSidecar' = Tail(fromSidecar)
    PROVE  Drained
<1>1. fromSidecar \in Seq(Lines)
  BY DEF Types
<1>2. CASE fromSidecar' = fromSidecar
  <2>1. \A k \in 1..Len(fromSidecar) : k + 0 = k
    BY <1>1
  <2> QED
    BY <1>1, <1>2, <2>1 DEF Drained, Read
<1>3. CASE fromSidecar # <<>> /\ fromSidecar' = Tail(fromSidecar)
  BY <1>1, <1>3, Taken DEF Drained, Read
<1> QED
  BY <1>2, <1>3

-----------------------------------------------------------------------------
(***************************************************************************)
(* Steps of the gateway that ask for nothing: a line may be taken, callers *)
(* may be answered, the sidecar's part of the state is as it was.          *)
(***************************************************************************)
Mains == {"unstarted", "starting", "checking", "serving", "closing", "closed", "aborted"}
Early == {"unstarted", "starting", "checking"}

AsksNothing ==
    /\ Drained
    /\ UNCHANGED <<nextId, toSidecar, side, published, goal>>
    /\ pending' \subseteq pending
    /\ main' \in Mains /\ (main' \in Early => main' = main)
    /\ channel' \in {"unstarted", "open", "failed"}
    /\ lag' \in 0..MaxLag

LEMMA SidecarAsItWas ==
    ASSUME TruthInv, AsksNothing
    PROVE  /\ \A m : Handed(m)' <=> Handed(m)
           /\ \A m, result : IsTrue(m, result)' <=> IsTrue(m, result)
           /\ NotStarted' /\ Numbered' /\ HandedOnce'
<1>1. \A m : Handed(m)' <=> Handed(m)
  BY DEF AsksNothing, Handed, Written
<1>2. \A m, result : IsTrue(m, result)' <=> IsTrue(m, result)
  BY <1>1 DEF IsTrue, AsksNothing
<1>3. Numbered'
  <2>1. PICK d \in {0, 1} : \A k \in Read' : k + d \in Read /\ fromSidecar'[k] = fromSidecar[k + d]
    BY WhereFrom DEF AsksNothing
  <2> QED
    BY <2>1 DEF TruthInv, Numbered, AsksNothing, Written
<1>4. HandedOnce'
  BY DEF TruthInv, HandedOnce, AsksNothing, Written
<1>5. NotStarted'
  BY DEF TruthInv, NotStarted, AsksNothing, Early
<1> QED
  BY <1>1, <1>2, <1>3, <1>4, <1>5

\* The answers on their way are still true of the proposal at work.
LEMMA StillTold ==
    ASSUME TruthInv, AsksNothing,
           \A r \in pending' : r.operation = "dispatch" => current' = current
    PROVE  Told'
<1>1. PICK d \in {0, 1} : \A k \in Read' : k + d \in Read /\ fromSidecar'[k] = fromSidecar[k + d]
  BY WhereFrom DEF AsksNothing
<1> SUFFICES ASSUME NEW r \in pending', r.operation = "dispatch"
             PROVE  /\ \A k \in Written' : toSidecar'[k].id = r.id => toSidecar'[k].of = current'
                    /\ side'.pc \in Waits /\ side'.id = r.id => side'.of = current'
                    /\ \A k \in Read' :
                          fromSidecar'[k].event = "reply" /\ fromSidecar'[k].id = r.id =>
                             /\ fromSidecar'[k].result \in Results
                             /\ ~Handed(current)' /\ IsTrue(current, fromSidecar[k].result)'
  BY DEF Told
<1>2. r \in pending /\ current' = current /\ toSidecar' = toSidecar /\ side' = side
  BY DEF AsksNothing
<1>3. \A k \in Written' : toSidecar'[k].id = r.id => toSidecar'[k].of = current'
  BY <1>2 DEF TruthInv, Told, Written
<1>4. side'.pc \in Waits /\ side'.id = r.id => side'.of = current'
  BY <1>2 DEF TruthInv, Told
<1>5. ASSUME NEW k \in Read', fromSidecar'[k].event = "reply", fromSidecar'[k].id = r.id
      PROVE  /\ fromSidecar'[k].result \in Results
             /\ ~Handed(current)' /\ IsTrue(current, fromSidecar[k].result)'
  <2>1. /\ fromSidecar'[k].result \in Results
        /\ ~Handed(current) /\ IsTrue(current, fromSidecar'[k].result)
    BY <1>1, <1>2, <1>5 DEF TruthInv, Told
  <2>2. ~Handed(current)'
    BY <1>2, <2>1 DEF Handed, Written
  <2>3. goal' = goal
    BY DEF AsksNothing
  <2> QED
    BY <1>2, <2>1, <2>2, <2>3 DEF IsTrue
<1> QED
  BY <1>3, <1>4, <1>5

LEMMA TypesStay ==
    ASSUME TruthInv, AsksNothing, OfProcessor'
    PROVE  Types'
<1>1. OfRequests'
  BY DEF TruthInv, Types, OfRequests, AsksNothing
<1> QED
  BY <1>1 DEF TruthInv, Types, AsksNothing, Drained, Mains

\* A proposal that is on its way is in no other place.
LEMMA StillArriving ==
    ASSUME TruthInv, Drained, published' = published,
           \A m \in Proposals :
              m \notin {current, queued} /\ (\E k \in Read' : IsArrival(k)' /\ fromSidecar'[k].of = m)
                 => m \notin {current', queued'} /\ outcome'[m] = outcome[m]
    PROVE  Arriving'
<1>1. PICK d \in {0, 1} :
         /\ \A k \in Read' : k + d \in Read /\ fromSidecar'[k] = fromSidecar[k + d]
         /\ Read' \subseteq Int
  BY WhereFrom
<1>2. \A k \in Read' : IsArrival(k)' => IsArrival(k + d) /\ fromSidecar[k + d].of \in Proposals
  <2> SUFFICES ASSUME NEW k \in Read', IsArrival(k)'
               PROVE  IsArrival(k + d) /\ fromSidecar[k + d].of \in Proposals
    OBVIOUS
  <2>1. fromSidecar[k + d] \in Lines /\ fromSidecar[k + d].event = "proposal"
    BY <1>1 DEF TruthInv, Types, Read, IsArrival
  <2> QED
    BY <2>1 DEF Lines, Replies, Arrivals, IsArrival
<1>3. ASSUME NEW k \in Read', IsArrival(k)'
      PROVE  /\ fromSidecar'[k].of <= published'
             /\ outcome'[fromSidecar'[k].of] = "none"
             /\ fromSidecar'[k].of \notin {current', queued'}
  <2>1. /\ fromSidecar'[k] = fromSidecar[k + d] /\ k + d \in Read /\ IsArrival(k + d)
        /\ fromSidecar[k + d].of \in Proposals
    BY <1>1, <1>2, <1>3
  <2>2. /\ fromSidecar[k + d].of <= published
        /\ outcome[fromSidecar[k + d].of] = "none"
        /\ fromSidecar[k + d].of \notin {current, queued}
    BY <2>1 DEF TruthInv, Arriving
  <2>3. /\ fromSidecar'[k].of \notin {current', queued'}
        /\ outcome'[fromSidecar'[k].of] = outcome[fromSidecar'[k].of]
    BY <1>3, <2>1, <2>2
  <2> QED
    BY <2>1, <2>2, <2>3
<1>4. ASSUME NEW j \in Read', NEW k \in Read', IsArrival(j)', IsArrival(k)',
             fromSidecar'[j].of = fromSidecar'[k].of
      PROVE  j = k
  <2>1. j + d = k + d
    BY <1>1, <1>2, <1>4 DEF TruthInv, Arriving
  <2> QED
    BY <1>1, <2>1
<1> QED
  BY <1>3, <1>4 DEF Arriving

\* The handler of the proposal at work has come to its end.
LEMMA SettleStep ==
    ASSUME TruthInv, AsksNothing, NEW result \in Outcomes, Settle(result), stage # "none",
           IsTrue(current, result), result = "blocked" => stage # "dispatching",
           \A r \in pending' : r.operation \notin Calls
    PROVE  TruthInv'
<1>1. /\ current \in Proposals /\ queued \in Ids /\ current # queued
      /\ outcome[current] = "none" /\ current <= published
      /\ outcome' = [outcome EXCEPT ![current] = result]
      /\ current' = queued /\ queued' = None
      /\ stage' = IF queued = None THEN "none" ELSE "handling"
  BY TransportAssumption DEF TruthInv, Types, OfProcessor, Placed, Settle, Ids
<1>2. OfProcessor'
  BY <1>1 DEF TruthInv, Types, OfProcessor, Ids
<1>3. /\ outcome'[current] = result
      /\ \A m \in Proposals : m # current => outcome'[m] = outcome[m]
  BY <1>1 DEF TruthInv, Types, OfProcessor
<1>4. Placed'
  <2>1. /\ (stage' = "none" <=> current' = None)
        /\ (current' = None => queued' = None)
        /\ (queued' # None => queued' # current')
    BY <1>1
  <2>2. published' = published
    BY DEF AsksNothing
  <2>3. \A m \in Proposals : m \in {current', queued'} => m <= published' /\ outcome'[m] = "none"
    BY <1>1, <1>3, <2>2, TransportAssumption DEF TruthInv, Placed
  <2>4. main' \in Early => current' = None
    BY <1>1, TransportAssumption DEF AsksNothing, TruthInv, Placed, Early
  <2>5. \A m \in Proposals : m > published' => outcome'[m] = "none"
    <3>1. \A m \in Proposals : m > published => m # current
      BY <1>1 DEF TruthInv, Types, Proposals
    <3> QED
      BY <1>3, <2>2, <3>1 DEF TruthInv, Placed
  <2> QED
    BY <2>1, <2>3, <2>4, <2>5 DEF Placed, Early
<1>5. Arriving'
  <2>1. \A m \in Proposals : m \notin {current, queued} =>
           m \notin {current', queued'} /\ outcome'[m] = outcome[m]
    BY <1>1, <1>3, TransportAssumption
  <2> QED
    BY <2>1, StillArriving DEF AsksNothing
<1>6. Asked'
  BY DEF Asked, Calls
<1>7. Untouched'
  <2> SUFFICES ASSUME NEW m \in Proposals, outcome'[m] \in {"none", "blocked", "dropped"}
               PROVE  goal'[m] = "none" /\ ~Handed(m)'
    BY DEF Untouched
  <2>1. outcome[m] \in {"none", "blocked", "dropped"} /\ (m = current => stage # "dispatching")
    BY <1>1, <1>3 DEF Outcomes
  <2>2. goal[m] = "none" /\ ~Handed(m)
    BY <2>1 DEF TruthInv, Untouched
  <2> QED
    BY <2>2, SidecarAsItWas DEF AsksNothing
<1>8. Truthful'
  BY <1>3, SidecarAsItWas DEF Truthful, TruthInv
<1>9. Told'
  BY StillTold DEF Calls
<1> QED
  BY <1>2, <1>4, <1>5, <1>6, <1>7, <1>8, <1>9, SidecarAsItWas, TypesStay DEF TruthInv

\* The proposals at work and waiting stay as they are.
LEMMA OnwardStep ==
    ASSUME TruthInv, AsksNothing, UNCHANGED <<current, queued, outcome>>,
           stage' \in {"none", "handling", "observing", "deciding", "dispatching"},
           stage' = "none" <=> stage = "none",
           stage' = "dispatching" <=> stage = "dispatching",
           \A r \in pending' :
              /\ r.operation = "doctor" => main' = "checking" \/ stage' = "observing"
              /\ r.operation = "dispatch" => stage' = "dispatching"
    PROVE  TruthInv'
<1>1. OfProcessor'
  BY DEF TruthInv, Types, OfProcessor
<1>2. Placed'
  BY DEF TruthInv, Placed, AsksNothing, Early
<1>3. Arriving'
  BY StillArriving DEF AsksNothing
<1>4. Asked'
  BY DEF TruthInv, Asked, AsksNothing
<1>5. Untouched'
  BY SidecarAsItWas DEF TruthInv, Untouched, AsksNothing
<1>6. Truthful'
  BY SidecarAsItWas DEF TruthInv, Truthful
<1>7. Told'
  BY StillTold
<1> QED
  BY <1>1, <1>2, <1>3, <1>4, <1>5, <1>6, <1>7, SidecarAsItWas, TypesStay DEF TruthInv

\* A failed channel rejects whoever waits for an answer.
LEMMA FailStep ==
    ASSUME TruthInv, FailChannel, UNCHANGED outside,
           \/ fromSidecar' = fromSidecar
           \/ fromSidecar # <<>> /\ fromSidecar' = Tail(fromSidecar)
    PROVE  TruthInv'
<1>1. AsksNothing
  <2>1. Drained
    BY LinesMoveUp DEF TruthInv
  <2>2. 0 \in 0..MaxLag
    BY TransportAssumption
  <2> QED
    BY <2>1, <2>2 DEF AsksNothing, FailChannel, RejectCallers, outside, TruthInv, Types,
                      Mains, Early
<1>2. CASE stage = "observing"
  <2>1. Settle("blocked")
    BY <1>2 DEF FailChannel, RejectCallers
  <2> QED
    BY <1>1, <1>2, <2>1, SettleStep DEF IsTrue, Outcomes, FailChannel
<1>3. CASE stage = "dispatching"
  <2>1. Settle("unknown")
    BY <1>3 DEF FailChannel, RejectCallers
  <2> QED
    BY <1>1, <1>3, <2>1, SettleStep DEF IsTrue, Outcomes, FailChannel
<1>4. CASE stage \notin {"observing", "dispatching"}
  <2>1. UNCHANGED processor
    BY <1>4 DEF FailChannel, RejectCallers
  <2> QED
    BY <1>1, <1>4, <2>1, OnwardStep
       DEF processor, FailChannel, TruthInv, Types, OfProcessor
<1> QED
  BY <1>2, <1>3, <1>4

\* The proposal a line carries is in no other place.
LEMMA ArrivalIsNew ==
    ASSUME TruthInv, NextLine("proposal")
    PROVE  /\ Drained
           /\ Line.of \in Proposals /\ Line.of <= published
           /\ Line.of \notin {current, queued} /\ outcome[Line.of] = "none"
           /\ goal[Line.of] = "none" /\ ~Handed(Line.of)
           /\ \A k \in Read' : IsArrival(k)' => fromSidecar'[k].of # Line.of
<1>1. fromSidecar \in Seq(Lines) /\ fromSidecar # <<>> /\ fromSidecar' = Tail(fromSidecar)
  BY DEF NextLine, TruthInv, Types
<1>2. /\ Line = fromSidecar[1] /\ 1 \in Read /\ fromSidecar[1] \in Lines
      /\ \A k \in Read' : /\ k \in Int /\ k >= 1 /\ k + 1 \in Read
                          /\ fromSidecar'[k] = fromSidecar[k + 1]
  BY <1>1, Taken DEF Line, Read
<1>3. IsArrival(1)
  BY <1>2 DEF NextLine, IsArrival
<1>4. Line.of \in Proposals
  BY <1>2, <1>3 DEF IsArrival, Lines, Replies, Arrivals
<1>5. Line.of <= published /\ Line.of \notin {current, queued} /\ outcome[Line.of] = "none"
  BY <1>2, <1>3 DEF TruthInv, Arriving
<1>6. goal[Line.of] = "none" /\ ~Handed(Line.of)
  BY <1>4, <1>5 DEF TruthInv, Untouched
<1>7. ASSUME NEW k \in Read', IsArrival(k)', fromSidecar'[k].of = Line.of PROVE FALSE
  <2>1. k + 1 \in Read /\ IsArrival(k + 1) /\ fromSidecar[k + 1].of = fromSidecar[1].of
    BY <1>2, <1>7 DEF IsArrival
  <2>2. k + 1 = 1
    BY <1>2, <1>3, <2>1 DEF TruthInv, Arriving
  <2> QED
    BY <1>2, <2>2
<1> QED
  BY <1>1, <1>4, <1>5, <1>6, <1>7, LinesMoveUp DEF TruthInv

LEMMA StepReadProposal ==
    ASSUME TruthInv, ReadProposal
    PROVE  TruthInv'
<1> DEFINE m == Line.of
<1>1. AsksNothing
  BY ArrivalIsNew DEF ReadProposal, requests, outside, AsksNothing, TruthInv, Types, Mains, Early
<1>2. /\ m \in Proposals /\ m <= published /\ m \notin {current, queued, None}
      /\ outcome[m] = "none" /\ goal[m] = "none" /\ ~Handed(m)
      /\ \A k \in Read' : IsArrival(k)' => fromSidecar'[k].of # m
  BY ArrivalIsNew, TransportAssumption DEF ReadProposal
<1> HIDE DEF m
<1>3. UNCHANGED <<pending, main, published, goal>>
  BY DEF ReadProposal, requests, outside
<1>4. CASE UNCHANGED <<current, stage, queued>> /\ outcome' = [outcome EXCEPT ![m] = "dropped"]
  <2>1. /\ outcome'[m] = "dropped"
        /\ \A n \in Proposals : n # m => outcome'[n] = outcome[n]
    BY <1>2, <1>4 DEF TruthInv, Types, OfProcessor
  <2>2. OfProcessor'
    BY <1>4 DEF TruthInv, Types, OfProcessor
  <2>3. Placed'
    BY <1>2, <1>3, <1>4, <2>1 DEF TruthInv, Placed, Types, Proposals
  <2>4. Arriving'
    BY <1>1, <1>2, <1>4, <2>1, StillArriving DEF AsksNothing
  <2>5. Asked'
    BY <1>3, <1>4 DEF TruthInv, Asked
  <2>6. Untouched'
    <3> SUFFICES ASSUME NEW n \in Proposals, outcome'[n] \in {"none", "blocked", "dropped"},
                        n = current' => stage' # "dispatching"
                 PROVE  goal'[n] = "none" /\ ~Handed(n)'
      BY DEF Untouched
    <3>1. goal[n] = "none" /\ ~Handed(n)
      BY <1>2, <1>4, <2>1 DEF TruthInv, Untouched
    <3> QED
      BY <1>1, <1>3, <3>1, SidecarAsItWas
  <2>7. Truthful'
    BY <1>1, <1>2, <2>1, SidecarAsItWas DEF TruthInv, Truthful, IsTrue
  <2>8. Told'
    BY <1>1, <1>4, StillTold
  <2> QED
    BY <1>1, <2>2, <2>3, <2>4, <2>5, <2>6, <2>7, <2>8, SidecarAsItWas, TypesStay DEF TruthInv
<1>5. CASE /\ current = None /\ current' = m /\ stage' = "handling"
            /\ UNCHANGED <<queued, outcome>> /\ main \notin Early
  <2>1. OfProcessor'
    BY <1>2, <1>5 DEF TruthInv, Types, OfProcessor, Ids
  <2>2. Placed'
    BY <1>2, <1>3, <1>5 DEF TruthInv, Placed, Early
  <2>3. Arriving'
    BY <1>1, <1>2, <1>5, StillArriving DEF AsksNothing
  <2>4. stage = "none" /\ (\A r \in pending' : r.operation \notin Calls)
    BY <1>3, <1>5 DEF TruthInv, Asked, Placed, Calls, Early
  <2>5. Asked'
    BY <2>4 DEF Asked, Calls
  <2>6. Untouched'
    BY <1>1, <1>3, <1>5, <2>4, SidecarAsItWas DEF TruthInv, Untouched
  <2>7. Truthful'
    BY <1>1, <1>5, SidecarAsItWas DEF TruthInv, Truthful
  <2>8. Told'
    BY <1>1, <2>4, StillTold DEF Calls
  <2> QED
    BY <1>1, <2>1, <2>2, <2>3, <2>5, <2>6, <2>7, <2>8, SidecarAsItWas, TypesStay DEF TruthInv
<1>6. CASE /\ current # None /\ queued = None /\ queued' = m
            /\ UNCHANGED <<current, stage, outcome>>
  <2>1. OfProcessor'
    BY <1>2, <1>6 DEF TruthInv, Types, OfProcessor, Ids
  <2>2. Placed'
    BY <1>2, <1>3, <1>6 DEF TruthInv, Placed
  <2>3. Arriving'
    BY <1>1, <1>2, <1>6, StillArriving DEF AsksNothing
  <2>4. Asked'
    BY <1>3, <1>6 DEF TruthInv, Asked
  <2>5. Untouched'
    BY <1>1, <1>3, <1>6, SidecarAsItWas DEF TruthInv, Untouched
  <2>6. Truthful'
    BY <1>1, <1>6, SidecarAsItWas DEF TruthInv, Truthful
  <2>7. Told'
    BY <1>1, <1>6, StillTold
  <2> QED
    BY <1>1, <2>1, <2>2, <2>3, <2>4, <2>5, <2>6, <2>7, SidecarAsItWas, TypesStay DEF TruthInv
<1> QED
  BY <1>4, <1>5, <1>6 DEF ReadProposal, Submit, Subscribed, Early, m

LEMMA AnswerTaken ==
    ASSUME TruthInv, NEW operation, Answered(operation)
    PROVE  /\ Drained
           /\ \E r \in pending :
                 /\ r.operation = operation /\ pending' = pending \ {r}
                 /\ 1 \in Read /\ Line = fromSidecar[1] /\ Line.event = "reply" /\ Line.id = r.id
<1>1. fromSidecar \in Seq(Lines) /\ fromSidecar # <<>> /\ fromSidecar' = Tail(fromSidecar)
  BY DEF Answered, NextLine, TruthInv, Types
<1>2. Line = fromSidecar[1] /\ 1 \in Read
  BY <1>1, Taken DEF Line, Read
<1> QED
  BY <1>1, <1>2, LinesMoveUp DEF Answered, NextLine, TruthInv

LEMMA StepDoctorAnswered ==
    ASSUME TruthInv, DoctorAnswered
    PROVE  TruthInv'
<1>1. PICK r \in pending : r.operation = "doctor" /\ pending' = pending \ {r}
  BY AnswerTaken DEF DoctorAnswered
<1>2. \A q \in pending' : q.operation \notin Calls
  BY <1>1 DEF TruthInv, Asked, Calls
<1>3. \/ main = "checking" /\ main' = "serving" /\ stage' = stage
      \/ main # "checking" /\ main' = main /\ stage = "observing" /\ stage' = "deciding"
  BY <1>1 DEF DoctorAnswered, TruthInv, Asked
<1>4. AsksNothing
  BY <1>1, <1>3, AnswerTaken
     DEF DoctorAnswered, Answered, outside, AsksNothing, TruthInv, Types, Mains, Early
<1> QED
  BY <1>2, <1>3, <1>4, OnwardStep DEF DoctorAnswered, TruthInv, Types, OfProcessor, Calls

LEMMA StepDispatchAnswered ==
    ASSUME TruthInv, DispatchAnswered
    PROVE  TruthInv'
<1>1. PICK r \in pending :
         /\ r.operation = "dispatch" /\ pending' = pending \ {r}
         /\ 1 \in Read /\ Line = fromSidecar[1] /\ Line.event = "reply" /\ Line.id = r.id
  BY AnswerTaken DEF DispatchAnswered
<1>2. \A q \in pending' : q.operation \notin Calls
  BY <1>1 DEF TruthInv, Asked, Calls
<1>3. Line.result \in Results /\ IsTrue(current, Line.result) /\ stage = "dispatching"
  BY <1>1 DEF TruthInv, Told, Asked
<1>4. AsksNothing
  BY <1>1, AnswerTaken
     DEF DispatchAnswered, Answered, outside, AsksNothing, TruthInv, Types, Mains, Early
<1>5. Settle(Line.result) /\ Line.result \in Outcomes /\ Line.result # "blocked"
  BY <1>3 DEF DispatchAnswered, Results, Outcomes
<1> QED
  BY <1>2, <1>3, <1>4, <1>5, SettleStep

\* The proposal at work is not in the sidecar's hands before its handler dispatches it.
LEMMA AtWorkUntouched ==
    ASSUME TruthInv, stage \notin {"none", "dispatching"}
    PROVE  /\ current \in Proposals /\ goal[current] = "none" /\ ~Handed(current)
           /\ outcome[current] = "none"
BY TransportAssumption DEF TruthInv, Types, OfProcessor, Placed, Untouched, Ids

-----------------------------------------------------------------------------
(***************************************************************************)
(* Steps that write a request.                                             *)
(***************************************************************************)
LEMMA RequestAdds ==
    ASSUME NEW others, NEW operation, NEW of, Request(others, operation, of)
    PROVE  \E r : /\ r.id = nextId /\ r.operation = operation
                  /\ r.left = Timeout(operation) /\ pending' = others \cup {r}
<1> DEFINE r == [id |-> nextId, operation |-> operation, left |-> Timeout(operation)]
<1>1. r.id = nextId /\ r.operation = operation /\ r.left = Timeout(operation)
  OBVIOUS
<1>2. pending' = others \cup {r}
  BY DEF Request
<1> QED
  BY <1>1, <1>2

\* What the sidecar waits for, if anything, is the same.
SameWork ==
    /\ side' \in Sides
    /\ side' # side => side.pc \notin Waits /\ side'.pc \notin Waits

LEMMA RequestWrites ==
    ASSUME TruthInv, NEW others \in SUBSET pending, NEW operation \in Operations,
           NEW of \in Ids, Request(others, operation, of), SameWork
    PROVE  /\ OfRequests' /\ lag' \in 0..MaxLag
           /\ Len(toSidecar') = Len(toSidecar) + 1 /\ Len(toSidecar) \in Nat
           /\ \A k \in Written : toSidecar'[k] = toSidecar[k]
           /\ toSidecar'[Len(toSidecar) + 1] =
                 [id |-> nextId, operation |-> operation, of |-> of]
           /\ \A k \in Written' : k \in Written \/ k = Len(toSidecar) + 1
           /\ \A m \in Proposals : Handed(m)' <=> Handed(m) \/ m = of
<1> DEFINE frame == [id |-> nextId, operation |-> operation, of |-> of]
           r == [id |-> nextId, operation |-> operation, left |-> Timeout(operation)]
<1>1. nextId \in Nat /\ toSidecar \in Seq(Frames) /\ pending \subseteq Requests
  BY DEF TruthInv, Types, OfRequests
<1>2. Timeout(operation) \in Nat
  BY TransportAssumption DEF Timeout, Smaller
<1>3. frame \in Frames /\ r \in Requests
  BY <1>1, <1>2 DEF Frames, Requests
<1>4. toSidecar' = Append(toSidecar, frame) /\ pending' = others \cup {r} /\ nextId' = nextId + 1
  BY DEF Request
<1>5. /\ toSidecar' \in Seq(Frames)
      /\ Len(toSidecar') = Len(toSidecar) + 1 /\ Len(toSidecar) \in Nat
      /\ \A k \in Written : toSidecar'[k] = toSidecar[k]
      /\ toSidecar'[Len(toSidecar) + 1] = frame
  BY <1>1, <1>3, <1>4, Added DEF Written
<1>6. /\ \A k \in Written' : k \in Written \/ k = Len(toSidecar) + 1
      /\ \A k \in Written : k \in Written'
      /\ Len(toSidecar) + 1 \in Written'
  BY <1>5 DEF Written
<1>7. \A m \in Proposals : Handed(m)' <=> Handed(m) \/ m = of
  BY <1>5, <1>6 DEF Handed, SameWork
<1>8. OfRequests' /\ lag' \in 0..MaxLag
  BY <1>1, <1>3, <1>4, <1>5, TransportAssumption DEF OfRequests, Request
<1> QED
  BY <1>4, <1>5, <1>6, <1>7, <1>8

LEMMA RequestStep ==
    ASSUME TruthInv, NEW others \in SUBSET pending, NEW operation \in Operations,
           NEW of \in Ids, Request(others, operation, of),
           Drained, SameWork, UNCHANGED <<outside, current, queued, outcome>>,
           main' \in Mains, main' \in Early => current = None, NotStarted',
           channel' \in {"unstarted", "open", "failed"},
           stage' \in {"none", "handling", "observing", "deciding", "dispatching"},
           stage' = "none" <=> stage = "none",
           IF operation = "dispatch"
           THEN of = current /\ stage = "deciding" /\ stage' = "dispatching"
           ELSE of = None /\ (stage' = "dispatching" <=> stage = "dispatching"),
           Asked'
    PROVE  TruthInv'
<1> DEFINE last == Len(toSidecar) + 1
           Dispatch == operation = "dispatch"
<1>1. /\ Len(toSidecar') = last /\ Len(toSidecar) \in Nat
      /\ \A k \in Written : toSidecar'[k] = toSidecar[k]
      /\ toSidecar'[last].id = nextId /\ toSidecar'[last].of = of
      /\ toSidecar'[last].operation = operation
      /\ \A k \in Written' : k \in Written \/ k = last
      /\ \A m \in Proposals : Handed(m)' <=> Handed(m) \/ m = of
      /\ OfRequests' /\ lag' \in 0..MaxLag
      /\ last \notin Written
  <2>1. toSidecar'[last] = [id |-> nextId, operation |-> operation, of |-> of]
    BY RequestWrites
  <2>2. /\ toSidecar'[last].id = nextId /\ toSidecar'[last].of = of
        /\ toSidecar'[last].operation = operation
    BY <2>1
  <2>3. Len(toSidecar) \in Nat /\ last \notin Written
    BY RequestWrites DEF Written
  <2>4. /\ Len(toSidecar') = last
        /\ \A k \in Written : toSidecar'[k] = toSidecar[k]
        /\ \A k \in Written' : k \in Written \/ k = last
    BY RequestWrites
  <2>5. /\ \A m \in Proposals : Handed(m)' <=> Handed(m) \/ m = of
        /\ OfRequests' /\ lag' \in 0..MaxLag
    BY RequestWrites
  <2> QED
    BY <2>2, <2>3, <2>4, <2>5
<1>2. PICK r : r.id = nextId /\ r.operation = operation /\ pending' = others \cup {r}
  BY RequestAdds
<1>3. nextId \in Nat /\ nextId' = nextId + 1
  BY DEF TruthInv, Types, OfRequests, Request
<1>4. published' = published /\ goal' = goal
  BY DEF outside
<1>5. Dispatch => /\ of = current /\ current \in Proposals
                  /\ goal[current] = "none" /\ ~Handed(current) /\ outcome[current] = "none"
  BY AtWorkUntouched
<1>6. Types'
  <2>1. OfProcessor'
    BY DEF TruthInv, Types, OfProcessor
  <2> QED
    BY <1>1, <1>4, <2>1 DEF TruthInv, Types, Drained, Mains, SameWork
<1>7. Numbered'
  <2>1. \A q \in pending' : q.id < nextId'
    <3>1. \A q \in pending : q.id < nextId /\ q.id \in Nat
      BY DEF TruthInv, Numbered, Types, OfRequests, Requests
    <3>2. \A q \in pending : q.id < nextId + 1
      BY <1>3, <3>1
    <3>3. \A q \in {r} : q.id < nextId + 1
      BY <1>2, <1>3
    <3> QED
      BY <1>2, <1>3, <3>2, <3>3
  <2>2. \A k \in Written' : toSidecar'[k].id < nextId'
    <3>1. \A k \in Written : toSidecar[k].id < nextId /\ toSidecar[k].id \in Nat
      BY FrameTypes DEF TruthInv, Numbered
    <3> QED
      BY <1>1, <1>3, <3>1
  <2>3. \A k \in Read' : fromSidecar'[k].event = "reply" => fromSidecar'[k].id < nextId'
    <3>1. \A k \in Read : fromSidecar[k].event = "reply" =>
             fromSidecar[k].id < nextId /\ fromSidecar[k].id \in Nat
      BY DEF TruthInv, Numbered, Types, Lines, Replies, Arrivals, Read
    <3>2. PICK d \in {0, 1} : \A k \in Read' : k + d \in Read /\ fromSidecar'[k] = fromSidecar[k + d]
      BY WhereFrom
    <3> QED
      BY <1>3, <3>1, <3>2
  <2>4. side'.pc \in Waits => side'.id < nextId'
    BY <1>3 DEF TruthInv, Numbered, Types, Sides, SameWork
  <2> QED
    BY <2>1, <2>2, <2>3, <2>4 DEF Numbered
<1>8. Placed'
  BY <1>4 DEF TruthInv, Placed, Early
<1>9. Arriving'
  BY <1>4, StillArriving
<1>10. HandedOnce'
  <2>1. \A k \in Written' :
           /\ toSidecar'[k].operation = "dispatch" <=> toSidecar'[k].of # None
           /\ toSidecar'[k].of # None => goal'[toSidecar'[k].of] = "none"
    BY <1>1, <1>4, <1>5, TransportAssumption DEF TruthInv, HandedOnce
  <2>2. \A k \in Written : toSidecar[k].of # None => toSidecar[k].of # of
    BY <1>5 DEF Handed
  <2>3. \A j, k \in Written' :
           toSidecar'[j].of = toSidecar'[k].of /\ toSidecar'[j].of # None => j = k
    BY <1>1, <2>2 DEF TruthInv, HandedOnce
  <2>4. side'.pc \in Waits =>
           side'.of \in Proposals /\ \A k \in Written' : toSidecar'[k].of # side'.of
    <3>1. side'.pc \in Waits => side' = side
      BY DEF SameWork
    <3> QED
      BY <1>1, <1>5, <3>1, TransportAssumption DEF TruthInv, HandedOnce, Handed
  <2>5. side'.pc \in {"waitServer", "waitResult"} => side' = side
    BY DEF SameWork, Waits
  <2> QED
    BY <1>4, <2>1, <2>3, <2>4, <2>5 DEF TruthInv, HandedOnce
<1>11. Untouched'
  <2> SUFFICES ASSUME NEW m \in Proposals, outcome'[m] \in {"none", "blocked", "dropped"},
                      m = current' => stage' # "dispatching"
               PROVE  goal'[m] = "none" /\ ~Handed(m)'
    BY DEF Untouched
  <2>1. goal[m] = "none" /\ ~Handed(m)
    BY DEF TruthInv, Untouched
  <2>2. m # of
    BY TransportAssumption
  <2> QED
    BY <1>1, <1>4, <2>1, <2>2
<1>12. Truthful'
  <2> SUFFICES ASSUME NEW m \in Proposals
               PROVE  IsTrue(m, outcome[m])'
    BY DEF Truthful
  <2>1. IsTrue(m, outcome[m])
    BY DEF TruthInv, Truthful
  <2>2. CASE m = of
    BY <1>5, <2>2, TransportAssumption DEF IsTrue
  <2>3. CASE m # of
    BY <1>1, <1>4, <2>1, <2>3 DEF IsTrue
  <2> QED
    BY <2>2, <2>3
<1>13. Told'
  <2>w. side'.pc \in Waits => side' = side
    BY DEF SameWork
  <2> SUFFICES ASSUME NEW q \in pending', q.operation = "dispatch"
               PROVE  /\ \A k \in Written' : toSidecar'[k].id = q.id => toSidecar'[k].of = current'
                      /\ side'.pc \in Waits /\ side'.id = q.id => side'.of = current'
                      /\ \A k \in Read' :
                            fromSidecar'[k].event = "reply" /\ fromSidecar'[k].id = q.id =>
                               /\ fromSidecar'[k].result \in Results
                               /\ ~Handed(current)' /\ IsTrue(current, fromSidecar[k].result)'
    BY DEF Told
  <2>1. PICK d \in {0, 1} : \A k \in Read' : k + d \in Read /\ fromSidecar'[k] = fromSidecar[k + d]
    BY WhereFrom
  <2>2. CASE Dispatch
    <3>1. q.id = nextId
      BY <1>2, <2>2 DEF Asked, Calls
    <3>2. \A k \in Written : toSidecar[k].id # nextId
      BY <1>3, FrameTypes DEF TruthInv, Numbered
    <3>3. side.pc \in Waits => side.id # nextId
      BY <1>3 DEF TruthInv, Numbered
    <3>4. \A k \in Read : fromSidecar[k].event = "reply" => fromSidecar[k].id # nextId
      BY <1>3 DEF TruthInv, Numbered
    <3> QED
      BY <1>1, <2>w, <2>1, <2>2, <3>1, <3>2, <3>3, <3>4
  <2>3. CASE ~Dispatch
    <3>1. q \in pending /\ q.id # nextId /\ of = None
      BY <1>2, <1>3, <2>3 DEF TruthInv, Numbered
    <3>2. current \in Proposals /\ current' = current
      BY <3>1, TransportAssumption DEF TruthInv, Asked, Placed, Types, OfProcessor, Ids
    <3>3. Handed(current)' <=> Handed(current)
      BY <1>1, <3>1, <3>2, TransportAssumption
    <3>4. \A k \in Written' : toSidecar'[k].id = q.id => toSidecar'[k].of = current'
      BY <1>1, <3>1, <3>2 DEF TruthInv, Told
    <3>5. side'.pc \in Waits /\ side'.id = q.id => side'.of = current'
      BY <2>w, <3>1, <3>2 DEF TruthInv, Told
    <3>6. ASSUME NEW k \in Read', fromSidecar'[k].event = "reply", fromSidecar'[k].id = q.id
          PROVE  /\ fromSidecar'[k].result \in Results
                 /\ ~Handed(current)' /\ IsTrue(current, fromSidecar[k].result)'
      <4>1. /\ fromSidecar'[k].result \in Results
            /\ ~Handed(current) /\ IsTrue(current, fromSidecar'[k].result)
        BY <2>1, <3>1, <3>6 DEF TruthInv, Told
      <4> QED
        BY <1>4, <3>2, <3>3, <4>1 DEF IsTrue
    <3> QED
      BY <3>4, <3>5, <3>6
  <2> QED
    BY <2>2, <2>3
<1> QED
  BY <1>6, <1>7, <1>8, <1>9, <1>10, <1>11, <1>12, <1>13 DEF TruthInv

\* Between its requests a handler has none that is not answered.
LEMMA NothingAsked ==
    ASSUME TruthInv, stage \in {"handling", "deciding"}
    PROVE  main \notin Early /\ \A r \in pending : r.operation \notin Calls
BY DEF TruthInv, Asked, Placed, Calls, Early

LEMMA StepStart ==
    ASSUME TruthInv, Start
    PROVE  TruthInv'
<1>1. /\ current = None /\ stage = "none" /\ side.pc = "off"
      /\ main' = "starting" /\ channel' = "open" /\ UNCHANGED <<fromSidecar, outside>>
      /\ UNCHANGED <<current, stage, queued, outcome>>
      /\ Request({}, "ping", None)
  BY DEF Start, TruthInv, Placed, NotStarted, processor
<1>2. SameWork
  <2>1. side' = [side EXCEPT !.pc = "boot"] /\ side \in Sides
    BY DEF Start, TruthInv, Types
  <2> QED
    BY <1>1, <2>1 DEF SameWork, Sides, Waits
<1>3. Asked'
  <2>1. PICK r : r.operation = "ping" /\ pending' = {} \cup {r}
    BY <1>1, RequestAdds
  <2> QED
    BY <1>1, <2>1 DEF Asked, Calls
<1> QED
  BY <1>1, <1>2, <1>3, RequestStep, LinesMoveUp
     DEF TruthInv, NotStarted, Mains, Early, Operations, Ids

LEMMA StepClose ==
    ASSUME TruthInv, Close
    PROVE  TruthInv'
<1>1. /\ main = "serving" /\ UNCHANGED <<channel, fromSidecar, outside, side>>
      /\ UNCHANGED <<current, stage, queued, outcome>>
  BY DEF Close, processor
<1>2. Drained
  BY <1>1, LinesMoveUp DEF TruthInv
<1>3. CASE channel = "open"
  <2>1. main' = "closing" /\ Request(pending, "shutdown", None)
    BY <1>3 DEF Close
  <2>2. SameWork
    BY <1>1 DEF SameWork, TruthInv, Types
  <2>3. PICK r : r.operation = "shutdown" /\ pending' = pending \cup {r}
    BY <2>1, RequestAdds
  <2>4. Asked'
    BY <1>1, <2>1, <2>3 DEF TruthInv, Asked, Calls
  <2> QED
    BY <1>1, <1>2, <2>1, <2>2, <2>4, RequestStep
       DEF TruthInv, NotStarted, Types, OfProcessor, Mains, Early, Operations, Ids
<1>4. CASE channel # "open"
  <2>1. main' = "closed" /\ UNCHANGED <<pending, toSidecar, nextId, lag>>
    BY <1>4 DEF Close
  <2>2. AsksNothing
    BY <1>1, <1>2, <2>1 DEF AsksNothing, TruthInv, Types, Mains, Early, outside
  <2> QED
    BY <1>1, <2>1, <2>2, OnwardStep DEF TruthInv, Types, OfProcessor, Asked
<1> QED
  BY <1>3, <1>4

LEMMA StepObserve ==
    ASSUME TruthInv, Observe
    PROVE  TruthInv'
<1>1. /\ stage = "handling" /\ UNCHANGED <<main, channel, fromSidecar, outside, side>>
      /\ main \notin Early /\ \A r \in pending : r.operation \notin Calls
  BY NothingAsked DEF Observe
<1>2. Drained /\ SameWork
  BY <1>1, LinesMoveUp DEF TruthInv, SameWork, Types
<1>3. CASE Observes /\ channel = "open"
  <2>1. /\ Request(pending, "doctor", None) /\ stage' = "observing"
        /\ UNCHANGED <<current, queued, outcome>>
    BY <1>3 DEF Observe
  <2>2. PICK r : r.operation = "doctor" /\ pending' = pending \cup {r}
    BY <2>1, RequestAdds
  <2>3. Asked'
    BY <1>1, <2>1, <2>2 DEF Asked, Calls
  <2> QED
    BY <1>1, <1>2, <2>1, <2>3, RequestStep
       DEF TruthInv, NotStarted, Types, Mains, Early, Operations, Ids
<1>4. CASE ~(Observes /\ channel = "open")
  <2>1. UNCHANGED <<pending, toSidecar, nextId, lag>>
    BY <1>4 DEF Observe
  <2>2. AsksNothing
    BY <1>1, <1>2, <2>1 DEF AsksNothing, TruthInv, Types, Mains, outside
  <2>3. CASE Observes
    <3>1. Settle("blocked")
      BY <1>4, <2>3 DEF Observe
    <3> QED
      BY <1>1, <2>1, <2>2, <3>1, SettleStep DEF IsTrue, Outcomes
  <2>4. CASE ~Observes
    <3>1. stage' = "deciding" /\ UNCHANGED <<current, queued, outcome>>
      BY <1>4, <2>4 DEF Observe
    <3> QED
      BY <1>1, <2>1, <2>2, <3>1, OnwardStep DEF Calls
  <2> QED
    BY <2>3, <2>4
<1> QED
  BY <1>3, <1>4

LEMMA StepBlock ==
    ASSUME TruthInv, Block
    PROVE  TruthInv'
<1>1. /\ stage = "deciding" /\ UNCHANGED <<main, requests, fromSidecar, side, outside, lag>>
      /\ \A r \in pending : r.operation \notin Calls
  BY NothingAsked DEF Block
<1>2. AsksNothing
  BY <1>1, LinesMoveUp DEF AsksNothing, TruthInv, Types, Mains, outside, requests
<1> QED
  BY <1>1, <1>2, SettleStep DEF Block, IsTrue, Outcomes, requests

LEMMA StepDispatchTrajectory ==
    ASSUME TruthInv, DispatchTrajectory
    PROVE  TruthInv'
<1>1. /\ stage = "deciding" /\ UNCHANGED <<main, channel, fromSidecar, outside, side>>
      /\ main \notin Early /\ \A r \in pending : r.operation \notin Calls
  BY NothingAsked DEF DispatchTrajectory
<1>2. Drained /\ SameWork
  BY <1>1, LinesMoveUp DEF TruthInv, SameWork, Types
<1>3. CASE channel = "open"
  <2>1. /\ Request(pending, "dispatch", current) /\ stage' = "dispatching"
        /\ UNCHANGED <<current, queued, outcome>> /\ current \in Ids
    BY <1>3, AtWorkUntouched, <1>1 DEF DispatchTrajectory, Ids
  <2>2. PICK r : r.operation = "dispatch" /\ pending' = pending \cup {r}
    BY <2>1, RequestAdds
  <2>3. Asked'
    BY <1>1, <2>1, <2>2 DEF Asked, Calls
  <2> QED
    BY <1>1, <1>2, <2>1, <2>3, RequestStep
       DEF TruthInv, NotStarted, Types, Mains, Early, Operations
<1>4. CASE channel # "open"
  <2>1. UNCHANGED <<pending, toSidecar, nextId, lag>> /\ Settle("unknown")
    BY <1>4 DEF DispatchTrajectory
  <2>2. AsksNothing
    BY <1>1, <1>2, <2>1 DEF AsksNothing, TruthInv, Types, Mains, outside
  <2> QED
    BY <1>1, <2>1, <2>2, SettleStep DEF IsTrue, Outcomes
<1> QED
  BY <1>3, <1>4

LEMMA StepPingAnswered ==
    ASSUME TruthInv, PingAnswered
    PROVE  TruthInv'
<1>1. /\ main = "starting" /\ main' = "checking" /\ Request({}, "doctor", None)
      /\ UNCHANGED <<channel, processor, side, outside>>
      /\ current = None /\ stage = "none"
  BY DEF PingAnswered, TruthInv, Placed
<1>2. Drained /\ SameWork
  BY <1>1, LinesMoveUp DEF PingAnswered, NextLine, TruthInv, SameWork, Types
<1>3. Asked'
  <2>1. PICK r : r.operation = "doctor" /\ pending' = {} \cup {r}
    BY <1>1, RequestAdds
  <2> QED
    BY <1>1, <2>1 DEF Asked, Calls
<1> QED
  BY <1>1, <1>2, <1>3, RequestStep
     DEF TruthInv, NotStarted, Types, Mains, Early, Operations, Ids, processor

LEMMA StepFailure ==
    ASSUME TruthInv, LastAnswer \/ UnusableLine \/ TimerFires \/ ChildGone
    PROVE  TruthInv'
BY FailStep DEF LastAnswer, UnusableLine, TimerFires, ChildGone, NextLine

LEMMA StepGateway ==
    ASSUME TruthInv, GatewayStep \/ Close
    PROVE  TruthInv'
BY StepStart, StepClose, StepObserve, StepBlock, StepDispatchTrajectory, StepReadProposal,
   StepPingAnswered, StepDoctorAnswered, StepDispatchAnswered, StepFailure DEF GatewayStep

-----------------------------------------------------------------------------
(***************************************************************************)
(* Steps of the sidecar and of its surroundings.                           *)
(***************************************************************************)

\* A line that is new is one nobody can read, or an answer that is true of the
\* proposal its caller handles.
TrueAnswer(line) ==
    /\ line.event = "reply" /\ line.id < nextId
    /\ \A r \in pending : r.operation = "dispatch" /\ r.id = line.id =>
          /\ line.result \in Results /\ ~Handed(current)'
          /\ \A result \in Results : line.result = result => IsTrue(current, result)'

LinesGrow ==
    /\ fromSidecar' \in Seq(Lines)
    /\ \A k \in Read' :
          \/ k \in Read /\ fromSidecar'[k] = fromSidecar[k]
          \/ fromSidecar'[k].event = "unusable"
          \/ TrueAnswer(fromSidecar'[k])

\* The processor, and what the calls are, is as it was.
GatewayWaits ==
    /\ UNCHANGED <<main, channel, nextId, processor>>
    /\ OfRequests' /\ lag' \in 0..MaxLag
    /\ \A r \in pending' : \E q \in pending : q.id = r.id /\ q.operation = r.operation
    /\ \A q, r \in pending' : q.operation \in Calls /\ r.operation \in Calls => q = r

LEMMA CallsAsTheyWere ==
    ASSUME TruthInv, GatewayWaits
    PROVE  Asked' /\ UNCHANGED <<current, stage, queued, outcome>> /\ OfProcessor'
BY DEF GatewayWaits, TruthInv, Asked, processor, Types, OfProcessor

LEMMA EmitGrows ==
    ASSUME TruthInv, NEW line \in Lines, Emit(line)
    PROVE  /\ fromSidecar' \in Seq(Lines)
           /\ \A k \in Read' :
                 \/ k \in Read /\ fromSidecar'[k] = fromSidecar[k]
                 \/ k = Len(fromSidecar) + 1 /\ k \notin Read /\ fromSidecar'[k] = line
           /\ \A k \in Read : k \in Read' /\ fromSidecar'[k] = fromSidecar[k]
           /\ Len(fromSidecar) + 1 \in Read' /\ fromSidecar'[Len(fromSidecar) + 1] = line
           /\ Len(fromSidecar) + 1 \notin Read
<1>1. fromSidecar \in Seq(Lines) /\ fromSidecar' = Append(fromSidecar, line)
  BY DEF TruthInv, Types, Emit
<1>2. /\ fromSidecar' \in Seq(Lines) /\ Len(fromSidecar') = Len(fromSidecar) + 1
      /\ Len(fromSidecar) \in Nat
      /\ \A k \in 1..Len(fromSidecar) : fromSidecar'[k] = fromSidecar[k]
      /\ fromSidecar'[Len(fromSidecar) + 1] = line
  BY <1>1, Added
<1> QED
  BY <1>2 DEF Read

LEMMA SidecarStays ==
    ASSUME TruthInv, GatewayWaits, LinesGrow, UNCHANGED <<toSidecar, outside>>,
           side' \in Sides, NotStarted',
           side'.pc \in Waits => /\ side.pc \in Waits
                                 /\ side'.id = side.id /\ side'.of = side.of,
           side'.pc = "waitServer" => side.pc = "waitServer",
           side'.pc = "waitResult" =>
              side.pc = "waitResult" \/ goal[side.of] \in {"accepted", "finished"}
    PROVE  TruthInv'
<1>1. Asked' /\ UNCHANGED <<current, stage, queued, outcome>> /\ OfProcessor'
  BY CallsAsTheyWere
<1>2. published' = published /\ goal' = goal
  BY DEF outside
<1>3. \A m : Handed(m)' => Handed(m)
  BY DEF Handed, Written
<1>4. \A m, result : IsTrue(m, result) => IsTrue(m, result)'
  BY <1>2, <1>3 DEF IsTrue
<1>5. Types'
  BY <1>1, <1>2 DEF TruthInv, Types, GatewayWaits, LinesGrow
<1>6. Numbered'
  <2>1. \A r \in pending' : r.id < nextId'
    BY DEF TruthInv, Numbered, GatewayWaits
  <2>2. \A k \in Written' : toSidecar'[k].id < nextId'
    BY DEF TruthInv, Numbered, GatewayWaits, Written
  <2>3. \A k \in Read' : fromSidecar'[k].event = "reply" => fromSidecar'[k].id < nextId'
    BY DEF TruthInv, Numbered, GatewayWaits, LinesGrow, TrueAnswer
  <2>4. side'.pc \in Waits => side'.id < nextId'
    BY DEF TruthInv, Numbered, GatewayWaits
  <2> QED
    BY <2>1, <2>2, <2>3, <2>4 DEF Numbered
<1>7. Placed'
  BY <1>1, <1>2 DEF TruthInv, Placed, GatewayWaits
<1>8. Arriving'
  <2>1. \A k \in Read' : IsArrival(k)' =>
           k \in Read /\ IsArrival(k) /\ fromSidecar'[k] = fromSidecar[k]
    BY DEF LinesGrow, TrueAnswer, IsArrival
  <2>2. \A k \in Read' : IsArrival(k)' =>
           /\ fromSidecar'[k].of <= published'
           /\ outcome'[fromSidecar'[k].of] = "none"
           /\ fromSidecar'[k].of \notin {current', queued'}
    BY <1>1, <1>2, <2>1 DEF TruthInv, Arriving
  <2>3. \A j, k \in Read' :
           IsArrival(j)' /\ IsArrival(k)' /\ fromSidecar'[j].of = fromSidecar'[k].of => j = k
    BY <2>1 DEF TruthInv, Arriving
  <2> QED
    BY <2>2, <2>3 DEF Arriving
<1>9. HandedOnce'
  BY <1>2 DEF TruthInv, HandedOnce, Written, Waits
<1>10. Untouched'
  BY <1>1, <1>2, <1>3 DEF TruthInv, Untouched
<1>11. Truthful'
  BY <1>1, <1>4 DEF TruthInv, Truthful
<1>12. Told'
  <2> SUFFICES ASSUME NEW q \in pending', q.operation = "dispatch"
               PROVE  /\ \A k \in Written' : toSidecar'[k].id = q.id => toSidecar'[k].of = current'
                      /\ side'.pc \in Waits /\ side'.id = q.id => side'.of = current'
                      /\ \A k \in Read' :
                            fromSidecar'[k].event = "reply" /\ fromSidecar'[k].id = q.id =>
                               /\ fromSidecar'[k].result \in Results
                               /\ ~Handed(current)' /\ IsTrue(current, fromSidecar[k].result)'
    BY DEF Told
  <2>1. PICK r \in pending : r.id = q.id /\ r.operation = "dispatch"
    BY DEF GatewayWaits
  <2>2. \A k \in Written' : toSidecar'[k].id = q.id => toSidecar'[k].of = current'
    BY <1>1, <2>1 DEF TruthInv, Told, Written
  <2>3. side'.pc \in Waits /\ side'.id = q.id => side'.of = current'
    BY <1>1, <2>1 DEF TruthInv, Told
  <2>4. ASSUME NEW k \in Read', fromSidecar'[k].event = "reply", fromSidecar'[k].id = q.id
        PROVE  /\ fromSidecar'[k].result \in Results
               /\ ~Handed(current)' /\ IsTrue(current, fromSidecar[k].result)'
    <3>1. CASE k \in Read /\ fromSidecar'[k] = fromSidecar[k]
      <4>1. /\ fromSidecar'[k].result \in Results
            /\ ~Handed(current) /\ IsTrue(current, fromSidecar'[k].result)
        BY <2>1, <2>4, <3>1 DEF TruthInv, Told
      <4>2. ~Handed(current)'
        BY <1>1, <1>3, <4>1 DEF Handed
      <4> QED
        BY <1>1, <1>2, <4>1, <4>2 DEF IsTrue
    <3>2. CASE TrueAnswer(fromSidecar'[k])
      <4>1. /\ fromSidecar'[k].result \in Results /\ ~Handed(current)'
            /\ \A result \in Results :
                  fromSidecar'[k].result = result => IsTrue(current, result)'
        BY <2>1, <2>4, <3>2 DEF TrueAnswer
      <4> QED
        BY <4>1
    <3> QED
      BY <2>4, <3>1, <3>2 DEF LinesGrow
  <2> QED
    BY <2>2, <2>3, <2>4
<1> QED
  BY <1>1, <1>5, <1>6, <1>7, <1>8, <1>9, <1>10, <1>11, <1>12 DEF TruthInv

\* Nothing is emitted, or an unusable line, and the calls are as they were.
LEMMA QuietStep ==
    ASSUME TruthInv, UNCHANGED <<main, channel, nextId, pending, toSidecar, processor, lag>>
    PROVE  /\ GatewayWaits
           /\ fromSidecar' = fromSidecar => LinesGrow
           /\ Emit([event |-> "unusable"]) => LinesGrow
<1>1. GatewayWaits
  BY DEF GatewayWaits, TruthInv, Types, OfRequests, Asked
<1>2. fromSidecar' = fromSidecar => LinesGrow
  BY DEF LinesGrow, TruthInv, Types, Read
<1>3. ASSUME Emit([event |-> "unusable"]) PROVE LinesGrow
  <2> DEFINE line == [event |-> "unusable"]
  <2>1. line \in Lines /\ line.event = "unusable"
    BY DEF Lines
  <2> QED
    BY <1>3, <2>1, EmitGrows DEF LinesGrow
<1> QED
  BY <1>1, <1>2, <1>3

LEMMA StepBoot ==
    ASSUME TruthInv, Boot
    PROVE  TruthInv'
<1>1. side' = [side EXCEPT !.pc = "reading"] /\ side \in Sides /\ side.pc = "boot"
  BY DEF Boot, At, TruthInv, Types
<1>2. side' \in Sides /\ side'.pc = "reading"
  BY <1>1 DEF Sides
<1>3. NotStarted'
  BY <1>1 DEF Boot, Gateway, TruthInv, NotStarted
<1> QED
  BY <1>2, <1>3, QuietStep, SidecarStays DEF Boot, Gateway, requests, Waits

LEMMA StepGoalAccepted ==
    ASSUME TruthInv, GoalAccepted
    PROVE  TruthInv'
<1>1. /\ side' = [side EXCEPT !.pc = "waitResult", !.left = ResultLimit] /\ side \in Sides
      /\ side.pc = "waitGoal" /\ goal[side.of] \in {"accepted", "finished"}
  BY DEF GoalAccepted, At, Await, TruthInv, Types
<1>2. /\ side' \in Sides /\ side'.pc = "waitResult"
      /\ side'.id = side.id /\ side'.of = side.of
  BY <1>1, TransportAssumption DEF Sides, Waits
<1>3. NotStarted'
  BY <1>1 DEF GoalAccepted, Gateway, TruthInv, NotStarted
<1> QED
  BY <1>1, <1>2, <1>3, QuietStep, SidecarStays DEF GoalAccepted, Gateway, requests, Waits

LEMMA StepFault ==
    ASSUME TruthInv, Hang \/ EmitUnusable \/ Exit
    PROVE  TruthInv'
<1>1. /\ side' \in Sides /\ side.pc # "off"
      /\ side'.pc \in {side.pc, "exited"} /\ side'.id = side.id /\ side'.of = side.of
  <2>1. side \in Sides
    BY DEF TruthInv, Types
  <2>2. CASE Hang
    BY <2>1, <2>2 DEF Hang, Sides, Faults, Waits
  <2>3. CASE EmitUnusable
    BY <2>1, <2>3 DEF EmitUnusable, Sides, Faults, Waits
  <2>4. CASE Exit
    BY <2>1, <2>4 DEF Exit, Sides
  <2> QED
    BY <2>2, <2>3, <2>4
<1>2. UNCHANGED <<Gateway, outside>>
  BY DEF Hang, EmitUnusable, Exit
<1>3. NotStarted'
  BY <1>1, <1>2 DEF Gateway, TruthInv, NotStarted
<1>4. GatewayWaits /\ LinesGrow
  BY <1>2, QuietStep DEF Gateway, requests, Hang, EmitUnusable, Exit
<1> QED
  BY <1>1, <1>2, <1>3, <1>4, SidecarStays DEF Gateway, requests, Waits

LEMMA StepTick ==
    ASSUME TruthInv, Tick
    PROVE  TruthInv'
<1>1. /\ UNCHANGED <<main, channel, nextId, toSidecar, fromSidecar, processor, outside>>
      /\ pending' = {[r EXCEPT !.left = @ - 1] : r \in pending}
      /\ \A r \in pending : r.left > 0
  BY DEF Tick
<1>2. pending \subseteq Requests /\ lag \in 0..MaxLag /\ side \in Sides
  BY DEF TruthInv, Types, OfRequests
<1>3. \A r \in pending :
         /\ [r EXCEPT !.left = @ - 1] \in Requests
         /\ [r EXCEPT !.left = @ - 1].id = r.id
         /\ [r EXCEPT !.left = @ - 1].operation = r.operation
  BY <1>1, <1>2 DEF Requests
<1>4. lag' \in 0..MaxLag
  BY <1>2, TransportAssumption DEF Tick
<1>5. GatewayWaits
  <2>1. OfRequests'
    BY <1>1, <1>3 DEF OfRequests, TruthInv, Types
  <2>2. \A r \in pending' : \E q \in pending : q.id = r.id /\ q.operation = r.operation
    BY <1>1, <1>3
  <2>3. ASSUME NEW q \in pending', NEW r \in pending', q.operation \in Calls, r.operation \in Calls
        PROVE  q = r
    <3>1. PICK p \in pending : q = [p EXCEPT !.left = @ - 1]
      BY <1>1
    <3>2. PICK s \in pending : r = [s EXCEPT !.left = @ - 1]
      BY <1>1
    <3>3. p.operation \in Calls /\ s.operation \in Calls
      BY <1>3, <2>3, <3>1, <3>2
    <3>4. p = s
      BY <3>3 DEF TruthInv, Asked
    <3> QED
      BY <3>1, <3>2, <3>4
  <2> QED
    BY <1>1, <1>4, <2>1, <2>2, <2>3 DEF GatewayWaits
<1>6. /\ side' \in Sides /\ side'.pc = side.pc /\ side'.id = side.id /\ side'.of = side.of
  <2>1. CASE Waiting
    <3>1. side' = [side EXCEPT !.left = @ - 1] /\ side.left > 0
      BY <2>1 DEF Tick
    <3> QED
      BY <1>2, <3>1 DEF Sides
  <2>2. CASE ~Waiting
    BY <1>2, <2>2 DEF Tick
  <2> QED
    BY <2>1, <2>2
<1>7. LinesGrow /\ NotStarted'
  BY <1>1, <1>6 DEF LinesGrow, TruthInv, Types, NotStarted, Read
<1> QED
  BY <1>1, <1>5, <1>6, <1>7, SidecarStays, <1>1 DEF Waits

\* The dispatch at work is answered as its goal stands.
LEMMA FinishStep ==
    ASSUME TruthInv, NEW result \in Results, Finish(result), side.pc \in Waits,
           result = "rejected" => goal[side.of] \in {"none", "refused"},
           result = "unconfirmed" => goal[side.of] \in {"accepted", "finished"},
           result = "completed" => goal[side.of] = "finished"
    PROVE  TruthInv'
<1> DEFINE line == [event |-> "reply", id |-> side.id, result |-> result]
<1>1. /\ Emit(line) /\ UNCHANGED <<Gateway, outside>> /\ side \in Sides
      /\ side' = [side EXCEPT !.pc = "reading", !.left = 0, !.id = 0, !.of = None]
  BY DEF Finish, Reply, TruthInv, Types
<1>2. side' \in Sides /\ side'.pc = "reading"
  BY <1>1 DEF Sides, Ids
<1>3. line \in Lines /\ line.event = "reply" /\ line.id = side.id /\ line.result = result
  BY <1>1 DEF Lines, Replies, Sides
<1> HIDE DEF line
<1>4. side'.pc \notin Waits /\ toSidecar' = toSidecar /\ goal' = goal /\ current' = current
  BY <1>1, <1>2 DEF Waits, Gateway, requests, outside, processor
<1>5. TrueAnswer(line)
  <2>1. line.event = "reply" /\ line.id < nextId
    BY <1>3 DEF TruthInv, Numbered
  <2>2. ASSUME NEW r \in pending, r.operation = "dispatch", r.id = line.id
        PROVE  /\ line.result \in Results /\ ~Handed(current)'
               /\ \A given \in Results : line.result = given => IsTrue(current, given)'
    <3>1. side.of = current
      BY <1>3, <2>2 DEF TruthInv, Told
    <3>2. ~Handed(current)'
      BY <1>4, <3>1 DEF Handed, Written, TruthInv, HandedOnce
    <3> QED
      BY <1>3, <1>4, <3>1, <3>2 DEF IsTrue
  <2> QED
    BY <2>1, <2>2 DEF TrueAnswer
<1>6. LinesGrow
  BY <1>1, <1>3, <1>5, EmitGrows DEF LinesGrow
<1>7. NotStarted'
  BY <1>1 DEF Gateway, TruthInv, NotStarted, Waits
<1>8. GatewayWaits
  BY <1>1, QuietStep DEF Gateway, requests
<1> QED
  BY <1>1, <1>2, <1>4, <1>6, <1>7, <1>8, SidecarStays DEF Waits

LEMMA StepFinish ==
    ASSUME TruthInv,
           ServerMissing \/ GoalRefused \/ GoalUnanswered \/ ResultArrives \/ ResultMissing
    PROVE  TruthInv'
<1>1. CASE ServerMissing
  <2>1. side.pc = "waitServer" /\ goal[side.of] = "none" /\ Finish("rejected")
    BY <1>1 DEF ServerMissing, At, TruthInv, HandedOnce
  <2> QED
    BY <2>1, FinishStep DEF Results, Waits
<1>2. CASE GoalRefused
  BY <1>2, FinishStep DEF GoalRefused, At, Results, Waits
<1>3. CASE GoalUnanswered
  BY <1>3, FinishStep DEF GoalUnanswered, NoHandle, At, Results, Waits
<1>4. CASE ResultArrives
  BY <1>4, FinishStep DEF ResultArrives, At, Results, Waits
<1>5. CASE ResultMissing
  <2>1. side.pc = "waitResult" /\ goal[side.of] \in {"accepted", "finished"}
        /\ Finish("unconfirmed")
    BY <1>5 DEF ResultMissing, At, TruthInv, HandedOnce
  <2> QED
    BY <2>1, FinishStep DEF Results, Waits
<1> QED
  BY <1>1, <1>2, <1>3, <1>4, <1>5

\* The sidecar takes the first frame: the others move up.
LEMMA FrameTaken ==
    ASSUME TruthInv, Serve
    PROVE  /\ toSidecar # <<>> /\ toSidecar' \in Seq(Frames)
           /\ Head(toSidecar) = toSidecar[1] /\ 1 \in Written /\ toSidecar[1] \in Frames
           /\ \A k \in Written' : /\ k \in Int /\ k + 1 \in Written /\ k + 1 # 1
                                  /\ toSidecar'[k] = toSidecar[k + 1]
           /\ \A k \in Written : k = 1 \/ (k \in Int /\ k - 1 \in Written' /\ toSidecar'[k - 1] = toSidecar[k])
<1>1. toSidecar # <<>> /\ toSidecar \in Seq(Frames) /\ toSidecar' = Tail(toSidecar)
  BY DEF Serve, TruthInv, Types, OfRequests
<1>2. /\ Head(toSidecar) = toSidecar[1] /\ toSidecar[1] \in Frames /\ Len(toSidecar) \in Nat
      /\ Len(toSidecar) >= 1 /\ toSidecar' \in Seq(Frames)
      /\ Len(toSidecar') = Len(toSidecar) - 1
      /\ \A k \in 1..Len(toSidecar') : toSidecar'[k] = toSidecar[k + 1]
  BY <1>1, Taken
<1> QED
  BY <1>1, <1>2 DEF Written

LEMMA StepServe ==
    ASSUME TruthInv, Serve
    PROVE  TruthInv'
<1> DEFINE request == toSidecar[1]
<1>1. /\ request \in Frames /\ 1 \in Written /\ toSidecar' \in Seq(Frames)
      /\ \A k \in Written' : /\ k \in Int /\ k + 1 \in Written /\ k + 1 # 1
                             /\ toSidecar'[k] = toSidecar[k + 1]
      /\ \A k \in Written :
            k = 1 \/ (k \in Int /\ k - 1 \in Written' /\ toSidecar'[k - 1] = toSidecar[k])
  BY FrameTaken
<1>2. /\ UNCHANGED <<main, channel, nextId, pending, processor, outside, lag>>
      /\ side \in Sides /\ side.pc = "reading"
  BY DEF Serve, At, TruthInv, Types
<1>3. /\ UNCHANGED <<current, stage, queued, outcome, published, goal>> /\ Asked'
      /\ OfProcessor' /\ OfRequests'
  BY <1>1, <1>2 DEF processor, outside, TruthInv, Asked, Types, OfProcessor, OfRequests
<1>4. \/ /\ request.operation = "dispatch" /\ request.of \in Proposals
         /\ side' = [side EXCEPT !.pc = "waitServer", !.id = request.id,
                                 !.of = request.of, !.left = DiscoveryLimit]
         /\ fromSidecar' = fromSidecar
      \/ /\ request.operation # "dispatch" /\ request.of = None
         /\ Reply(request.id, "ok")
         /\ side' = [side EXCEPT
                       !.pc = IF request.operation = "shutdown" THEN "exited" ELSE @]
  BY <1>1, FrameTaken DEF Serve, TruthInv, HandedOnce, Frames, Ids
<1>5. \/ /\ request.operation = "dispatch" /\ request.of \in Proposals
         /\ side'.pc = "waitServer" /\ side'.id = request.id /\ side'.of = request.of
         /\ side' \in Sides /\ fromSidecar' = fromSidecar
      \/ /\ request.operation # "dispatch" /\ request.of = None
         /\ side'.pc \in {"reading", "exited"} /\ side' \in Sides
         /\ Reply(request.id, "ok")
  <2>1. request.id \in Nat /\ DiscoveryLimit \in Nat
    BY <1>1, TransportAssumption DEF Frames
  <2> QED
    BY <1>2, <1>4, <2>1 DEF Sides, Waits, Ids
<1> HIDE DEF request
<1>6. /\ fromSidecar' \in Seq(Lines)
      /\ \A k \in Read' :
            \/ k \in Read /\ fromSidecar'[k] = fromSidecar[k]
            \/ /\ request.operation # "dispatch" /\ request.of = None
               /\ fromSidecar'[k].event = "reply" /\ fromSidecar'[k].id = request.id
  <2>1. CASE fromSidecar' = fromSidecar
    BY <2>1 DEF TruthInv, Types, Read
  <2>2. CASE request.operation # "dispatch" /\ request.of = None /\ Reply(request.id, "ok")
    <3> DEFINE line == [event |-> "reply", id |-> request.id, result |-> "ok"]
    <3>1. line \in Lines /\ line.event = "reply" /\ line.id = request.id /\ Emit(line)
      BY <1>1, <2>2 DEF Lines, Replies, Frames, Reply
    <3> HIDE DEF line
    <3> QED
      BY <2>2, <3>1, EmitGrows
  <2> QED
    BY <1>5, <2>1, <2>2
<1>7. \A m \in Proposals : Handed(m)' => Handed(m)
  <2> SUFFICES ASSUME NEW m \in Proposals, Handed(m)' PROVE Handed(m)
    OBVIOUS
  <2>1. CASE \E k \in Written' : toSidecar'[k].of = m
    BY <1>1, <2>1 DEF Handed
  <2>2. CASE side'.pc \in Waits /\ side'.of = m
    BY <1>1, <1>5, <2>2 DEF Handed, Waits, request
  <2> QED
    BY <2>1, <2>2 DEF Handed
<1>8. Types'
  BY <1>2, <1>3, <1>5, <1>6 DEF TruthInv, Types, outside
<1>9. Numbered'
  <2>1. \A r \in pending' : r.id < nextId'
    BY <1>2 DEF TruthInv, Numbered
  <2>2. \A k \in Written' : toSidecar'[k].id < nextId'
    BY <1>1, <1>2 DEF TruthInv, Numbered
  <2>3. request.id < nextId
    BY <1>1 DEF TruthInv, Numbered, request
  <2>4. \A k \in Read' : fromSidecar'[k].event = "reply" => fromSidecar'[k].id < nextId'
    BY <1>2, <1>6, <2>3 DEF TruthInv, Numbered
  <2>5. side'.pc \in Waits => side'.id < nextId'
    BY <1>2, <1>5, <2>3 DEF Waits
  <2> QED
    BY <2>1, <2>2, <2>4, <2>5 DEF Numbered
<1>10. Placed'
  BY <1>2, <1>3 DEF TruthInv, Placed
<1>11. Arriving'
  <2>1. \A k \in Read' : IsArrival(k)' =>
           k \in Read /\ IsArrival(k) /\ fromSidecar'[k] = fromSidecar[k]
    BY <1>6 DEF IsArrival
  <2>2. \A k \in Read' : IsArrival(k)' =>
           /\ fromSidecar'[k].of <= published'
           /\ outcome'[fromSidecar'[k].of] = "none"
           /\ fromSidecar'[k].of \notin {current', queued'}
    BY <1>3, <2>1 DEF TruthInv, Arriving
  <2>3. \A j, k \in Read' :
           IsArrival(j)' /\ IsArrival(k)' /\ fromSidecar'[j].of = fromSidecar'[k].of => j = k
    BY <2>1 DEF TruthInv, Arriving
  <2> QED
    BY <2>2, <2>3 DEF Arriving
<1>12. HandedOnce'
  <2>1. \A k \in Written' :
           /\ toSidecar'[k].operation = "dispatch" <=> toSidecar'[k].of # None
           /\ toSidecar'[k].of # None => goal'[toSidecar'[k].of] = "none"
    BY <1>1, <1>3 DEF TruthInv, HandedOnce
  <2>2. ASSUME NEW j \in Written', NEW k \in Written',
               toSidecar'[j].of = toSidecar'[k].of, toSidecar'[j].of # None
        PROVE  j = k
    <3>1. /\ j + 1 \in Written /\ k + 1 \in Written
          /\ toSidecar[j + 1].of = toSidecar[k + 1].of /\ toSidecar[j + 1].of # None
      BY <1>1, <2>2
    <3>2. j + 1 = k + 1
      BY <3>1 DEF TruthInv, HandedOnce
    <3> QED
      BY <1>1, <3>2
  <2>3. side'.pc \in Waits =>
           /\ side'.of = request.of /\ request.of \in Proposals /\ side'.pc = "waitServer"
    BY <1>5 DEF Waits
  <2>4. request.of \in Proposals =>
           /\ goal[request.of] = "none"
           /\ \A k \in Written' : toSidecar'[k].of # request.of
    BY <1>1, TransportAssumption DEF TruthInv, HandedOnce, request
  <2> QED
    BY <1>3, <1>5, <2>1, <2>2, <2>3, <2>4 DEF HandedOnce
<1>13. Untouched'
  BY <1>3, <1>7 DEF TruthInv, Untouched
<1>14. \A m \in Proposals : \A result : IsTrue(m, result) => IsTrue(m, result)'
  BY <1>3, <1>7 DEF IsTrue
<1>15. Truthful'
  BY <1>3, <1>14 DEF TruthInv, Truthful
<1>16. Told'
  <2> SUFFICES ASSUME NEW q \in pending', q.operation = "dispatch"
               PROVE  /\ \A k \in Written' : toSidecar'[k].id = q.id => toSidecar'[k].of = current'
                      /\ side'.pc \in Waits /\ side'.id = q.id => side'.of = current'
                      /\ \A k \in Read' :
                            fromSidecar'[k].event = "reply" /\ fromSidecar'[k].id = q.id =>
                               /\ fromSidecar'[k].result \in Results
                               /\ ~Handed(current)' /\ IsTrue(current, fromSidecar[k].result)'
    BY DEF Told
  <2>1. q \in pending /\ current' = current /\ current \in Proposals
    BY <1>2, <1>3, TransportAssumption DEF TruthInv, Asked, Placed, Types, OfProcessor, Ids
  <2>2. request.id = q.id => request.of = current
    BY <1>1, <2>1 DEF TruthInv, Told, request
  <2>3. \A k \in Written' : toSidecar'[k].id = q.id => toSidecar'[k].of = current'
    BY <1>1, <2>1 DEF TruthInv, Told
  <2>4. side'.pc \in Waits /\ side'.id = q.id => side'.of = current'
    BY <1>5, <2>1, <2>2 DEF Waits
  <2>5. ASSUME NEW k \in Read', fromSidecar'[k].event = "reply", fromSidecar'[k].id = q.id
        PROVE  /\ fromSidecar'[k].result \in Results
               /\ ~Handed(current)' /\ IsTrue(current, fromSidecar[k].result)'
    <3>1. k \in Read /\ fromSidecar'[k] = fromSidecar[k]
      BY <1>6, <2>1, <2>2, <2>5, TransportAssumption
    <3>2. /\ fromSidecar'[k].result \in Results
          /\ ~Handed(current) /\ IsTrue(current, fromSidecar'[k].result)
      BY <2>1, <2>5, <3>1 DEF TruthInv, Told
    <3>3. ~Handed(current)'
      BY <1>7, <2>1, <3>2
    <3> QED
      BY <1>3, <2>1, <3>2, <3>3 DEF IsTrue
  <2> QED
    BY <2>3, <2>4, <2>5
<1>17. NotStarted'
  BY <1>2 DEF TruthInv, NotStarted
<1> QED
  BY <1>3, <1>8, <1>9, <1>10, <1>11, <1>12, <1>13, <1>15, <1>16, <1>17 DEF TruthInv

\* The goal of a proposal changes in a way that contradicts nothing told.
LEMMA GoalStep ==
    ASSUME TruthInv, NEW m \in Proposals,
           NEW v \in {"sent", "accepted", "refused", "finished"}, goal' = [goal EXCEPT ![m] = v],
           UNCHANGED <<Gateway, fromSidecar, published>>,
           side' \in Sides, side'.of = side.of, side'.id = side.id,
           side'.pc = side.pc \/ (side.pc = "waitServer" /\ side'.pc = "waitGoal"),
           goal[m] = "none" => side.pc \in Waits /\ side.of = m /\ side'.pc = "waitGoal",
           goal[m] # "refused",
           goal[m] \in {"accepted", "finished"} => v = "finished"
    PROVE  TruthInv'
<1>1. /\ goal'[m] = v /\ \A n \in Proposals : n # m => goal'[n] = goal[n]
      /\ goal' \in [Proposals -> {"none", "sent", "accepted", "refused", "finished"}]
  BY DEF TruthInv, Types
<1>2. UNCHANGED <<current, stage, queued, outcome, main, channel, nextId, pending, toSidecar,
                  lag>>
  BY DEF Gateway, requests, processor
<1>3. (side'.pc \in Waits <=> side.pc \in Waits) /\ \A n : Handed(n)' <=> Handed(n)
  BY <1>2 DEF Handed, Written, Waits
<1>4. Types' /\ Numbered' /\ Placed' /\ Arriving' /\ Asked' /\ NotStarted'
  <2>1. Types'
    BY <1>1, <1>2 DEF TruthInv, Types, OfRequests, OfProcessor
  <2>2. Numbered' /\ Placed'
    BY <1>2, <1>3 DEF TruthInv, Numbered, Placed, Written, Read
  <2>3. Arriving'
    BY <1>2 DEF TruthInv, Arriving, Read, IsArrival
  <2>4. Asked'
    BY <1>2 DEF TruthInv, Asked
  <2>5. NotStarted'
    BY <1>2 DEF TruthInv, NotStarted
  <2> QED
    BY <2>1, <2>2, <2>3, <2>4, <2>5
<1>5. goal[m] = "none" => Handed(m)
  BY DEF Handed
<1>6. HandedOnce'
  <2>1. \A k \in Written : toSidecar[k].of # None =>
           toSidecar[k].of # m /\ toSidecar[k].of \in Proposals
    BY FrameTypes DEF TruthInv, HandedOnce, Frames, Ids
  <2>2. side.pc \in Waits => side.of \in Proposals
    BY DEF TruthInv, HandedOnce
  <2> QED
    BY <1>1, <1>2, <1>3, <2>1, <2>2 DEF TruthInv, HandedOnce, Written, Waits
<1>7. Untouched'
  BY <1>1, <1>2, <1>3, <1>5 DEF TruthInv, Untouched
<1>8. \A n \in Proposals, result \in Results : IsTrue(n, result) => IsTrue(n, result)'
  <2> SUFFICES ASSUME NEW n \in Proposals, NEW result, IsTrue(n, result)
               PROVE  IsTrue(n, result)'
    OBVIOUS
  <2>1. CASE n # m
    BY <1>1, <1>3, <2>1 DEF IsTrue
  <2>2. CASE n = m
    <3>1. ~(result = "rejected")
      BY <1>5, <2>2 DEF IsTrue
    <3> QED
      BY <1>1, <2>2, <3>1 DEF IsTrue
  <2> QED
    BY <2>1, <2>2
<1>9. Truthful'
  <2> SUFFICES ASSUME NEW n \in Proposals PROVE IsTrue(n, outcome[n])'
    BY DEF Truthful
  <2>1. IsTrue(n, outcome[n])
    BY DEF TruthInv, Truthful
  <2>2. CASE outcome[n] \in Results
    BY <1>2, <1>8, <2>1, <2>2 DEF IsTrue
  <2>3. CASE outcome[n] \notin Results
    BY <1>2, <2>3 DEF IsTrue, Results
  <2> QED
    BY <2>2, <2>3
<1>10. Told'
  <2> SUFFICES ASSUME NEW q \in pending', q.operation = "dispatch"
               PROVE  /\ \A k \in Written' : toSidecar'[k].id = q.id => toSidecar'[k].of = current'
                      /\ side'.pc \in Waits /\ side'.id = q.id => side'.of = current'
                      /\ \A k \in Read' :
                            fromSidecar'[k].event = "reply" /\ fromSidecar'[k].id = q.id =>
                               /\ fromSidecar'[k].result \in Results
                               /\ ~Handed(current)' /\ IsTrue(current, fromSidecar[k].result)'
    BY DEF Told
  <2>1. q \in pending /\ current' = current /\ current \in Proposals
    BY <1>2, TransportAssumption DEF TruthInv, Asked, Placed, Types, OfProcessor, Ids
  <2>2. \A k \in Written' : toSidecar'[k].id = q.id => toSidecar'[k].of = current'
    BY <1>2, <2>1 DEF TruthInv, Told, Written
  <2>3. side'.pc \in Waits /\ side'.id = q.id => side'.of = current'
    BY <1>3, <2>1 DEF TruthInv, Told
  <2>4. ASSUME NEW k \in Read', fromSidecar'[k].event = "reply", fromSidecar'[k].id = q.id
        PROVE  /\ fromSidecar'[k].result \in Results
               /\ ~Handed(current)' /\ IsTrue(current, fromSidecar[k].result)'
    <3>1. /\ fromSidecar[k].result \in Results
          /\ ~Handed(current) /\ IsTrue(current, fromSidecar[k].result)
      BY <2>1, <2>4 DEF TruthInv, Told, Read
    <3>2. ~Handed(current)'
      BY <1>3, <2>1, <3>1
    <3>3. current # m \/ goal[m] # "none"
      BY <1>5, <3>1
    <3> QED
      BY <1>1, <2>1, <3>1, <3>2, <3>3 DEF IsTrue
  <2> QED
    BY <2>2, <2>3, <2>4
<1> QED
  BY <1>4, <1>6, <1>7, <1>9, <1>10 DEF TruthInv

LEMMA StepSendGoal ==
    ASSUME TruthInv, SendGoal
    PROVE  TruthInv'
<1>1. /\ side.pc = "waitServer" /\ side \in Sides /\ side.of \in Proposals
      /\ goal[side.of] = "none" /\ goal' = [goal EXCEPT ![side.of] = "sent"]
      /\ side' = [side EXCEPT !.pc = "waitGoal", !.left = GoalLimit]
  BY DEF SendGoal, At, Await, TruthInv, Types, HandedOnce, Waits
<1>2. /\ side' \in Sides /\ side'.pc = "waitGoal" /\ side'.of = side.of /\ side'.id = side.id
  BY <1>1, TransportAssumption DEF Sides, Waits
<1> QED
  BY <1>1, <1>2, GoalStep DEF SendGoal, Waits

LEMMA StepController ==
    ASSUME TruthInv, NEW m \in Proposals, Controller(m)
    PROVE  TruthInv'
<1>1. UNCHANGED <<Gateway, fromSidecar, side, published>> /\ side \in Sides
  BY DEF Controller, TruthInv, Types
<1>2. CASE goal[m] = "sent" /\ goal' = [goal EXCEPT ![m] = "accepted"]
  BY <1>1, <1>2, GoalStep
<1>3. CASE goal[m] = "sent" /\ goal' = [goal EXCEPT ![m] = "refused"]
  BY <1>1, <1>3, GoalStep
<1>4. CASE goal[m] = "accepted" /\ goal' = [goal EXCEPT ![m] = "finished"]
  BY <1>1, <1>4, GoalStep
<1> QED
  BY <1>2, <1>3, <1>4 DEF Controller

LEMMA StepPublish ==
    ASSUME TruthInv, Publish
    PROVE  TruthInv'
<1> DEFINE m == published + 1
           line == [event |-> "proposal", of |-> m]
<1>1. /\ published \in Nat /\ published < Published /\ Published \in Nat
      /\ published' = m /\ m \in Proposals /\ m > published
      /\ UNCHANGED <<Gateway, side, goal>> /\ Emit(line)
  <2>1. published \in 0..Published /\ Published \in Nat
    BY TransportAssumption DEF TruthInv, Types
  <2>2. published < Published /\ published' = m
    BY DEF Publish
  <2>3. m \in Proposals /\ m > published /\ published \in Nat
    BY <2>1, <2>2 DEF Proposals
  <2> QED
    BY <2>1, <2>2, <2>3 DEF Publish
<1>2. line \in Lines /\ line.event = "proposal" /\ line.of = m
  BY <1>1 DEF Lines, Arrivals
<1>3. UNCHANGED <<current, stage, queued, outcome, main, channel, nextId, pending, toSidecar,
                  lag>>
  BY <1>1 DEF Gateway, requests, processor
<1>4. /\ fromSidecar' \in Seq(Lines)
      /\ \A k \in Read' :
            \/ k \in Read /\ fromSidecar'[k] = fromSidecar[k]
            \/ k = Len(fromSidecar) + 1 /\ k \notin Read /\ fromSidecar'[k] = line
  BY <1>1, <1>2, EmitGrows
<1>5. outcome[m] = "none" /\ m \notin {current, queued}
  BY <1>1, TransportAssumption DEF TruthInv, Placed, Types
<1> HIDE DEF m, line
<1>6. \A n \in Proposals : n <= published => n # m /\ n <= m
  BY <1>1 DEF Proposals, m
<1>7. Types'
  <2>1. published' \in 0..Published
    BY <1>1 DEF m
  <2> QED
    BY <1>1, <1>3, <1>4, <2>1 DEF TruthInv, Types, OfProcessor, OfRequests
<1>8. Numbered'
  BY <1>1, <1>2, <1>3, <1>4 DEF TruthInv, Numbered, Written
<1>9. Placed'
  <2>1. \A n \in Proposals : n \in {current', queued'} => n <= published' /\ outcome'[n] = "none"
    BY <1>1, <1>3, <1>6 DEF TruthInv, Placed
  <2>2. \A n \in Proposals : n > published' => outcome'[n] = "none"
    <3>1. \A n \in Proposals : n > m => n > published
      BY <1>1 DEF m, Proposals
    <3> QED
      BY <1>1, <1>3, <3>1 DEF TruthInv, Placed
  <2> QED
    BY <1>3, <2>1, <2>2 DEF TruthInv, Placed
<1>10. Arriving'
  <2>1. \A k \in Read : IsArrival(k) => fromSidecar[k].of \in Proposals
    <3>1. \A k \in Read : fromSidecar[k] \in Lines
      BY DEF TruthInv, Types, Read
    <3> QED
      BY <3>1 DEF IsArrival, Lines, Arrivals, Replies
  <2>2. \A k \in Read : IsArrival(k) => fromSidecar[k].of # m /\ fromSidecar[k].of <= m
    BY <1>6, <2>1 DEF TruthInv, Arriving
  <2>3. ASSUME NEW k \in Read', IsArrival(k)'
        PROVE  /\ fromSidecar'[k].of <= published'
               /\ outcome'[fromSidecar'[k].of] = "none"
               /\ fromSidecar'[k].of \notin {current', queued'}
    <3>1. CASE k \in Read /\ fromSidecar'[k] = fromSidecar[k]
      BY <1>1, <1>3, <2>2, <2>3, <3>1 DEF TruthInv, Arriving, IsArrival
    <3>2. CASE fromSidecar'[k] = line
      <4>1. m <= m
        BY <1>1 DEF Proposals
      <4> QED
        BY <1>1, <1>2, <1>3, <1>5, <3>2, <4>1
    <3> QED
      BY <1>4, <3>1, <3>2
  <2>4. \A j, k \in Read' :
           IsArrival(j)' /\ IsArrival(k)' /\ fromSidecar'[j].of = fromSidecar'[k].of => j = k
    BY <1>2, <1>4, <2>2 DEF TruthInv, Arriving, IsArrival
  <2> QED
    BY <2>3, <2>4 DEF Arriving
<1>11. Asked'
  BY <1>3 DEF TruthInv, Asked
<1>12. \A n : Handed(n)' <=> Handed(n)
  BY <1>1, <1>3 DEF Handed, Written
<1>13. HandedOnce'
  BY <1>1, <1>3 DEF TruthInv, HandedOnce, Written
<1>14. Untouched' /\ Truthful'
  BY <1>1, <1>3, <1>12 DEF TruthInv, Untouched, Truthful, IsTrue
<1>15. Told'
  <2>1. \A k \in Read' : fromSidecar'[k].event = "reply" =>
           k \in Read /\ fromSidecar'[k] = fromSidecar[k]
    BY <1>2, <1>4
  <2> SUFFICES ASSUME NEW q \in pending', q.operation = "dispatch"
               PROVE  /\ \A k \in Written' : toSidecar'[k].id = q.id => toSidecar'[k].of = current'
                      /\ side'.pc \in Waits /\ side'.id = q.id => side'.of = current'
                      /\ \A k \in Read' :
                            fromSidecar'[k].event = "reply" /\ fromSidecar'[k].id = q.id =>
                               /\ fromSidecar'[k].result \in Results
                               /\ ~Handed(current)' /\ IsTrue(current, fromSidecar[k].result)'
    BY DEF Told
  <2>2. q \in pending /\ current' = current
    BY <1>3
  <2>3. \A k \in Written' : toSidecar'[k].id = q.id => toSidecar'[k].of = current'
    BY <1>3, <2>2 DEF TruthInv, Told, Written
  <2>4. side'.pc \in Waits /\ side'.id = q.id => side'.of = current'
    BY <1>1, <2>2 DEF TruthInv, Told
  <2>5. ASSUME NEW k \in Read', fromSidecar'[k].event = "reply", fromSidecar'[k].id = q.id
        PROVE  /\ fromSidecar'[k].result \in Results
               /\ ~Handed(current)' /\ IsTrue(current, fromSidecar[k].result)'
    <3>1. /\ fromSidecar'[k].result \in Results
          /\ ~Handed(current) /\ IsTrue(current, fromSidecar'[k].result)
      BY <2>1, <2>2, <2>5 DEF TruthInv, Told
    <3>2. ~Handed(current)'
      BY <1>1, <1>3, <3>1 DEF Handed, Written
    <3> QED
      BY <1>1, <2>2, <3>1, <3>2 DEF IsTrue
  <2> QED
    BY <2>3, <2>4, <2>5
<1>16. NotStarted'
  BY <1>1, <1>3 DEF TruthInv, NotStarted
<1> QED
  BY <1>7, <1>8, <1>9, <1>10, <1>11, <1>13, <1>14, <1>15, <1>16 DEF TruthInv

LEMMA TruthInit == Init => TruthInv
<1> SUFFICES ASSUME Init PROVE TruthInv
  OBVIOUS
<1> USE DEF Init
<1>1. Types
  <2>1. side \in Sides
    BY DEF Sides, Waits, Ids, Faults
  <2>2. published \in 0..Published /\ lag \in 0..MaxLag
    BY TransportAssumption
  <2> QED
    BY <2>1, <2>2 DEF Types, OfRequests, OfProcessor, Ids
<1>2. Written = {} /\ Read = {}
  BY DEF Written, Read
<1>3. Numbered /\ Placed /\ Arriving /\ Asked /\ NotStarted
  BY <1>2, TransportAssumption DEF Numbered, Placed, Arriving, Asked, NotStarted, Waits
<1>4. HandedOnce /\ Untouched /\ Truthful /\ Told
  BY <1>2 DEF HandedOnce, Untouched, Truthful, Told, IsTrue, Handed, Waits
<1> QED
  BY <1>1, <1>3, <1>4 DEF TruthInv

LEMMA TruthStep == TruthInv /\ [Next]_vars => TruthInv'
<1> SUFFICES ASSUME TruthInv, [Next]_vars PROVE TruthInv'
  OBVIOUS
<1>1. CASE GatewayStep \/ Close
  BY <1>1, StepGateway
<1>2. CASE SidecarStep
  BY <1>2, StepBoot, StepServe, StepSendGoal, StepGoalAccepted, StepFinish DEF SidecarStep
<1>3. CASE \E m \in Proposals : Controller(m)
  BY <1>3, StepController
<1>4. CASE Publish \/ Hang \/ EmitUnusable \/ Exit \/ Tick
  BY <1>4, StepPublish, StepFault, StepTick
<1>5. CASE UNCHANGED vars
  <2>1. GatewayWaits /\ LinesGrow /\ UNCHANGED <<side, toSidecar, outside>>
    BY <1>5, QuietStep DEF vars, requests
  <2>2. side' \in Sides /\ NotStarted'
    BY <1>5 DEF TruthInv, Types, NotStarted, vars
  <2> QED
    BY <2>1, <2>2, SidecarStays
<1> QED
  BY <1>1, <1>2, <1>3, <1>4, <1>5 DEF Next

\* The invariant holds of every behaviour, whatever fails.
THEOREM TruthInvariant == Spec => []TruthInv
BY TruthInit, TruthStep, PTL DEF Spec

(***************************************************************************)
(* What the gateway was told of a dispatch is so, and stays so, whatever   *)
(* the sidecar, the controller and the clock do.                           *)
(***************************************************************************)
THEOREM OutcomesAreTrue == Spec => []OutcomeTruthful
<1>1. TruthInv => OutcomeTruthful
  BY DEF TruthInv, Untouched, Truthful, IsTrue, Placed, Handed, Written, OutcomeTruthful
<1> QED
  BY <1>1, TruthInvariant, PTL

-----------------------------------------------------------------------------
(***************************************************************************)
(* The number of requests.                                                 *)
(***************************************************************************)
Few ==
    /\ \A q, r \in pending : q.operation = r.operation => q = r
    /\ \A r \in pending : r.operation = "ping" => main = "starting"
    /\ \A r \in pending : r.operation = "shutdown" => main = "closing"
    /\ main = "starting" => \A r \in pending : r.operation = "ping"
    /\ main = "unstarted" => pending = {}

LEMMA FewRemain ==
    ASSUME Few, pending' \subseteq pending,
           main' = main \/ (main = "checking" /\ main' = "serving")
    PROVE  Few'
BY DEF Few

LEMMA FewFail ==
    ASSUME TruthInv, FailChannel
    PROVE  Few'
<1>1. pending' = {}
  BY DEF FailChannel
<1> QED
  BY <1>1 DEF Few

LEMMA FewRequest ==
    ASSUME TruthInv, Few, Start \/ Close \/ Observe \/ DispatchTrajectory \/ PingAnswered
    PROVE  Few'
<1>1. CASE Start
  <2>1. Request({}, "ping", None) /\ main' = "starting"
    BY <1>1 DEF Start
  <2>2. PICK r : r.operation = "ping" /\ pending' = {} \cup {r}
    BY <2>1, RequestAdds
  <2> QED
    BY <2>1, <2>2 DEF Few
<1>2. CASE PingAnswered
  <2>1. Request({}, "doctor", None) /\ main' = "checking"
    BY <1>2 DEF PingAnswered
  <2>2. PICK r : r.operation = "doctor" /\ pending' = {} \cup {r}
    BY <2>1, RequestAdds
  <2> QED
    BY <2>1, <2>2 DEF Few
<1>3. CASE Close
  <2>1. CASE main' = "closed" /\ pending' = pending
    BY <1>3, <2>1 DEF Few, Close
  <2>2. CASE main' = "closing" /\ Request(pending, "shutdown", None)
    <3>1. PICK r : r.operation = "shutdown" /\ pending' = pending \cup {r}
      BY <2>2, RequestAdds
    <3>2. \A q \in pending : q.operation \notin {"ping", "shutdown"}
      BY <1>3 DEF Few, Close
    <3> QED
      BY <2>2, <3>1, <3>2 DEF Few
  <2> QED
    BY <1>3, <2>1, <2>2 DEF Close
<1>4. CASE Observe \/ DispatchTrajectory
  <2>1. main \notin Early /\ main' = main /\ \A r \in pending : r.operation \notin Calls
    BY <1>4, NothingAsked DEF Observe, DispatchTrajectory
  <2>2. CASE pending' = pending
    BY <2>1, <2>2, FewRemain
  <2>3. ASSUME NEW operation \in Calls, NEW of, Request(pending, operation, of)
        PROVE  Few'
    <3>1. PICK r : r.operation = operation /\ pending' = pending \cup {r}
      BY <2>3, RequestAdds
    <3>2. operation \notin {"ping", "shutdown"} /\ \A q \in pending : q.operation # operation
      BY <2>1, <2>3 DEF Calls
    <3> QED
      BY <2>1, <3>1, <3>2 DEF Few, Early
  <2> QED
    BY <1>4, <2>2, <2>3 DEF Observe, DispatchTrajectory, Calls
<1> QED
  BY <1>1, <1>2, <1>3, <1>4

LEMMA FewTick ==
    ASSUME TruthInv, Few, Tick
    PROVE  Few'
<1>1. pending' = {[r EXCEPT !.left = @ - 1] : r \in pending} /\ main' = main
  BY DEF Tick
<1> DEFINE Later(r) == [r EXCEPT !.left = @ - 1]
<1>2. \A r \in pending : Later(r).operation = r.operation
  BY DEF TruthInv, Types, OfRequests, Requests
<1>3. \A q \in pending' : \E r \in pending : q = Later(r) /\ q.operation = r.operation
  BY <1>1, <1>2
<1> HIDE DEF Later
<1>4. \A q, r \in pending' : q.operation = r.operation => q = r
  BY <1>3 DEF Few
<1>5. pending = {} => pending' = {}
  BY <1>1
<1> QED
  BY <1>1, <1>3, <1>4, <1>5 DEF Few

LEMMA FewStep == TruthInv /\ Few /\ [Next]_vars => Few'
<1> SUFFICES ASSUME TruthInv, Few, [Next]_vars PROVE Few'
  OBVIOUS
<1>1. CASE Start \/ Close \/ Observe \/ DispatchTrajectory \/ PingAnswered
  BY <1>1, FewRequest
<1>2. CASE LastAnswer \/ UnusableLine \/ TimerFires \/ ChildGone
  BY <1>2, FewFail DEF LastAnswer, UnusableLine, TimerFires, ChildGone
<1>3. CASE DoctorAnswered \/ DispatchAnswered
  <2>1. pending' \subseteq pending
    BY <1>3 DEF DoctorAnswered, DispatchAnswered, Answered
  <2>2. main' = main \/ (main = "checking" /\ main' = "serving")
    BY <1>3 DEF DoctorAnswered, DispatchAnswered
  <2> QED
    BY <2>1, <2>2, FewRemain
<1>4. CASE Block \/ ReadProposal \/ Publish \/ Hang \/ EmitUnusable \/ Exit \/ UNCHANGED vars
           \/ \E m \in Proposals : Controller(m)
  <2>1. pending' = pending /\ main' = main
    BY <1>4 DEF Block, ReadProposal, Publish, Hang, EmitUnusable, Exit, Controller, vars,
                Gateway, requests
  <2> QED
    BY <2>1, FewRemain
<1>5. CASE SidecarStep
  <2>1. pending' = pending /\ main' = main
    BY <1>5 DEF SidecarStep, Boot, Serve, ServerMissing, SendGoal, GoalRefused, GoalAccepted,
                GoalUnanswered, ResultArrives, ResultMissing, Finish, Gateway, requests
  <2> QED
    BY <2>1, FewRemain
<1>6. CASE Tick
  BY <1>6, FewTick
<1> QED
  BY <1>1, <1>2, <1>3, <1>4, <1>5, <1>6 DEF Next, GatewayStep

LEMMA AtMostTwo ==
    ASSUME TruthInv, Few
    PROVE  Cardinality(pending) <= 2
<1> DEFINE Call == {r \in pending : r.operation \in Calls}
           Other == {r \in pending : r.operation \notin Calls}
<1>1. \A q, r \in Call : q = r
  BY DEF TruthInv, Asked
<1>2. \A q, r \in Other : q = r
  <2>1. \A r \in Other : r.operation \in {"ping", "shutdown"}
    BY DEF TruthInv, Types, OfRequests, Requests, Operations, Calls
  <2> QED
    BY <2>1 DEF Few
<1>3. pending = Call \cup Other
  OBVIOUS
<1> HIDE DEF Call, Other
<1>4. \E a, b : pending \subseteq {a, b}
  <2>1. \E a : Call \subseteq {a}
    BY <1>1
  <2>2. \E b : Other \subseteq {b}
    BY <1>2
  <2> QED
    BY <1>3, <2>1, <2>2
<1>5. PICK a, b : pending \subseteq {a, b}
  BY <1>4
<1>6. IsFiniteSet({a, b}) /\ Cardinality({a, b}) <= 2
  <2>1. IsFiniteSet({a}) /\ Cardinality({a}) = 1
    BY FS_Singleton
  <2>2. {a, b} = {a} \cup {b}
    OBVIOUS
  <2>3. /\ IsFiniteSet({a} \cup {b})
        /\ Cardinality({a} \cup {b}) =
              IF b \in {a} THEN Cardinality({a}) ELSE Cardinality({a}) + 1
    BY <2>1, FS_AddElement
  <2> QED
    BY <2>1, <2>2, <2>3
<1>7. Cardinality(pending) <= Cardinality({a, b}) /\ IsFiniteSet(pending)
  BY <1>5, <1>6, FS_Subset
<1>8. Cardinality(pending) \in Nat /\ Cardinality({a, b}) \in Nat
  BY <1>6, <1>7, FS_CardinalityType
<1> QED
  BY <1>6, <1>7, <1>8

(***************************************************************************)
(* Every variable keeps its type, and there are never more than two        *)
(* requests without an answer: a ping alone, or one of the handler and the *)
(* command next to the shutdown.  MAXIMUM_PENDING_REQUESTS of sidecar.ts   *)
(* is therefore never reached.                                             *)
(***************************************************************************)
THEOREM TypeCorrect == Spec => []TypeOK
<1>1. Init => TruthInv /\ Few
  BY TruthInit DEF Init, Few
<1>2. TruthInv /\ Few /\ [Next]_vars => (TruthInv /\ Few)'
  BY TruthStep, FewStep
<1>3. TruthInv /\ Few => TypeOK
  <2> SUFFICES ASSUME TruthInv, Few PROVE TypeOK
    OBVIOUS
  <2>1. \A r \in pending : r.id < nextId /\ r.left \in Nat
    BY DEF TruthInv, Numbered, Types, OfRequests, Requests
  <2> QED
    BY <2>1, AtMostTwo DEF TruthInv, Types, OfProcessor, Ids, Sides, TypeOK
<1> QED
  BY <1>1, <1>2, <1>3, PTL DEF Spec

-----------------------------------------------------------------------------
(***************************************************************************)
(* The channel to a sidecar without a fault.                               *)
(***************************************************************************)
Healthy == side.fault = "none" /\ side.pc # "exited"
InService == Healthy /\ main \in {"starting", "checking", "serving"}

IsReply(k) == fromSidecar[k].event = "reply"
NoReply == \A k \in Read : ~IsReply(k)
OneReply(id) ==
    \E k \in Read : /\ IsReply(k) /\ fromSidecar[k].id = id
                    /\ \A j \in Read : IsReply(j) => j = k

\* No request is out.
Quiet == pending = {} /\ toSidecar = <<>> /\ side.pc = "reading" /\ NoReply

\* The request is in the sidecar's stdin.
OnItsWay(r) ==
    /\ Len(toSidecar) = 1
    /\ toSidecar[1].id = r.id /\ toSidecar[1].operation = r.operation
    /\ NoReply
    /\ \/ side.pc = "reading"
       \/ side.pc = "boot" /\ main = "starting"
    /\ main = "serving" => r.left + lag >= Timeout(r.operation)

\* What a dispatch may still take after its present limit.
Rest(pc) ==
    IF pc = "waitServer" THEN GoalLimit + ResultLimit + Slack
    ELSE IF pc = "waitGoal" THEN ResultLimit + Slack
    ELSE Slack

\* The sidecar carries the request out.
AtWork(r) ==
    /\ toSidecar = <<>> /\ NoReply
    /\ side.pc \in Waits /\ side.id = r.id /\ r.operation = "dispatch"
    /\ main = "serving" => r.left + lag >= side.left + Rest(side.pc)

\* The answer is in its stdout.
Replied(r) ==
    /\ toSidecar = <<>> /\ side.pc = "reading" /\ OneReply(r.id)
    /\ main = "serving" =>
          r.left + lag >= IF r.operation = "dispatch" THEN Slack ELSE DiscoveryLimit

Operation ==
    IF main = "starting" THEN {"ping"} ELSE IF main = "checking" THEN {"doctor"} ELSE Calls

OneAtATime ==
    \/ main = "serving" /\ Quiet
    \/ \E r \in pending :
          /\ pending = {r} /\ r.operation \in Operation
          /\ OnItsWay(r) \/ AtWork(r) \/ Replied(r)

Usable == side.fault = "none" => \A k \in Read : fromSidecar[k].event # "unusable"
Untried ==
    main = "unstarted" =>
        pending = {} /\ toSidecar = <<>> /\ fromSidecar = <<>> /\ side.pc = "off"

HealthInv ==
    /\ TruthInv /\ Usable /\ Untried
    /\ InService => channel = "open" /\ OneAtATime

LEMMA Limits ==
    /\ DiscoveryLimit \in Nat /\ ShutdownLimit \in Nat /\ GoalLimit \in Nat
    /\ ResultLimit \in Nat /\ Slack \in Nat /\ MaxLag \in Nat
    /\ MaxLag < Slack /\ MaxLag < DiscoveryLimit
    /\ \A operation \in Calls : Timeout(operation) \in Nat /\ Timeout(operation) > MaxLag
    /\ Timeout("doctor") = DiscoveryLimit
    /\ Timeout("dispatch") = DiscoveryLimit + GoalLimit + ResultLimit + Slack
BY TransportAssumption DEF Timeout, Calls

\* The requests of a channel in service, as numbers.
LEMMA Quantities ==
    ASSUME TruthInv
    PROVE  /\ \A r \in pending : r.left \in Nat
           /\ lag \in Nat /\ lag <= MaxLag /\ side.left \in Nat
           /\ \A pc : Rest(pc) \in Nat /\ Rest(pc) > MaxLag
BY Limits DEF TruthInv, Types, OfRequests, Requests, Sides, Rest

\* A step that neither takes nor writes a line, and changes nothing of the channel.
LEMMA ChannelStays ==
    ASSUME HealthInv, TruthInv',
           UNCHANGED <<main, channel, pending, toSidecar, fromSidecar, side, lag>>
    PROVE  HealthInv'
<1>1. Usable' /\ Untried'
  BY DEF HealthInv, Usable, Untried, Read
<1>2. (NoReply' <=> NoReply) /\ \A id : OneReply(id)' <=> OneReply(id)
  BY DEF NoReply, OneReply, IsReply, Read
<1>3. ASSUME InService' PROVE channel' = "open" /\ OneAtATime'
  <2>1. channel = "open" /\ OneAtATime
    BY <1>3 DEF HealthInv, InService, Healthy
  <2>2. CASE main = "serving" /\ Quiet
    BY <1>2, <2>1, <2>2 DEF Quiet, OneAtATime
  <2>3. CASE ~(main = "serving" /\ Quiet)
    <3>1. PICK r \in pending : /\ pending = {r} /\ r.operation \in Operation
                               /\ OnItsWay(r) \/ AtWork(r) \/ Replied(r)
      BY <2>1, <2>3 DEF OneAtATime
    <3>2. (OnItsWay(r) \/ AtWork(r) \/ Replied(r))'
      BY <1>2, <3>1 DEF OnItsWay, AtWork, Replied
    <3> QED
      BY <2>1, <3>1, <3>2 DEF OneAtATime, Operation
  <2> QED
    BY <2>2, <2>3
<1> QED
  BY <1>1, <1>3 DEF HealthInv

\* A channel out of service, or with a sidecar at fault, is promised nothing.
LEMMA OutOfService ==
    ASSUME TruthInv', Usable', main' # "unstarted", ~InService'
    PROVE  HealthInv'
BY DEF HealthInv, Untried

\* Whatever ends the channel finds it out of service.
LEMMA FailureIsLate ==
    ASSUME HealthInv, TruthInv', FailChannel,
           \/ fromSidecar' = fromSidecar
           \/ fromSidecar # <<>> /\ fromSidecar' = Tail(fromSidecar),
           ~(InService /\ main = "serving"), main # "unstarted"
    PROVE  HealthInv'
<1>1. UNCHANGED side /\ main' \notin {"starting", "checking", "unstarted"}
      /\ (main' = "serving" => main = "serving")
  BY DEF FailChannel, RejectCallers, TruthInv, Types, HealthInv
<1>2. Usable'
  <2>1. PICK d \in {0, 1} : \A k \in Read' : k + d \in Read /\ fromSidecar'[k] = fromSidecar[k + d]
    BY LinesMoveUp, WhereFrom DEF HealthInv, TruthInv
  <2> QED
    BY <1>1, <2>1 DEF HealthInv, Usable
<1> QED
  BY <1>1, <1>2, OutOfService DEF InService, Healthy

\* The line at the head.
LEMMA HeadLine ==
    ASSUME TruthInv, NEW event, NextLine(event)
    PROVE  /\ fromSidecar # <<>> /\ fromSidecar' = Tail(fromSidecar)
           /\ 1 \in Read /\ Line = fromSidecar[1] /\ fromSidecar[1].event = event
           /\ \A k \in Read' : k \in Int /\ k + 1 \in Read /\ k + 1 # 1
                               /\ fromSidecar'[k] = fromSidecar[k + 1]
           /\ \A k \in Read : k = 1 \/ (k \in Int /\ k - 1 \in Read' /\ fromSidecar'[k - 1] = fromSidecar[k])
<1>1. fromSidecar \in Seq(Lines) /\ fromSidecar # <<>> /\ fromSidecar' = Tail(fromSidecar)
  BY DEF TruthInv, Types, NextLine
<1>2. /\ Head(fromSidecar) = fromSidecar[1] /\ Len(fromSidecar) \in Nat /\ Len(fromSidecar) >= 1
      /\ Len(fromSidecar') = Len(fromSidecar) - 1
      /\ \A k \in 1..Len(fromSidecar') : fromSidecar'[k] = fromSidecar[k + 1]
  BY <1>1, Taken
<1>3. /\ 1 \in Read
      /\ \A k \in Read' : k \in Int /\ k + 1 \in Read /\ k + 1 # 1
                          /\ fromSidecar'[k] = fromSidecar[k + 1]
      /\ \A k \in Read : k = 1 \/ (k \in Int /\ k - 1 \in Read' /\ fromSidecar'[k - 1] = fromSidecar[k])
  BY <1>2 DEF Read
<1> QED
  BY <1>1, <1>2, <1>3 DEF NextLine, Line

\* With a reply at the head, the request in service is answered, and by it.
LEMMA HeadAnswers ==
    ASSUME HealthInv, NextLine("reply"), InService
    PROVE  /\ \E r \in pending : /\ pending = {r} /\ r.operation \in Operation
                                 /\ Replied(r) /\ Line.id = r.id
           /\ NoReply' /\ toSidecar = <<>> /\ side.pc = "reading"
<1>1. /\ 1 \in Read /\ IsReply(1) /\ Line = fromSidecar[1]
      /\ \A k \in Read' : k + 1 \in Read /\ k + 1 # 1 /\ fromSidecar'[k] = fromSidecar[k + 1]
  BY HeadLine DEF HealthInv, IsReply
<1>2. ~NoReply
  BY <1>1 DEF NoReply
<1>3. PICK r \in pending : pending = {r} /\ r.operation \in Operation /\ Replied(r)
  BY <1>2 DEF HealthInv, OneAtATime, Quiet, OnItsWay, AtWork
<1>4. Line.id = r.id /\ \A j \in Read : IsReply(j) => j = 1
  BY <1>1, <1>3 DEF Replied, OneReply
<1>5. NoReply'
  BY <1>1, <1>4 DEF NoReply, IsReply
<1> QED
  BY <1>3, <1>4, <1>5 DEF Replied

LEMMA TakenUsable ==
    ASSUME HealthInv, NEW event, NextLine(event), side' = side
    PROVE  Usable'
BY HeadLine DEF HealthInv, Usable

\* The gateway writes a request to a sidecar that has nothing else to do.
LEMMA RequestWritten ==
    ASSUME TruthInv, NEW operation, NEW of, Request({}, operation, of), toSidecar = <<>>,
           NoReply', operation \in Operation',
           side'.pc = "reading" \/ (side'.pc = "boot" /\ main' = "starting")
    PROVE  OneAtATime'
<1> DEFINE frame == [id |-> nextId, operation |-> operation, of |-> of]
<1>1. PICK r : /\ r.id = nextId /\ r.operation = operation /\ r.left = Timeout(operation)
               /\ pending' = {} \cup {r}
  BY RequestAdds
<1>2. toSidecar' = <<frame>> /\ lag' = 0 /\ pending' = {r}
  BY <1>1 DEF Request
<1>3. Len(toSidecar') = 1 /\ toSidecar'[1].id = nextId /\ toSidecar'[1].operation = operation
  BY <1>2
<1>4. main' = "serving" => r.left + lag' >= Timeout(r.operation)
  <2>1. main' = "serving" => Timeout(operation) \in Nat
    BY Limits DEF Operation
  <2> QED
    BY <1>1, <1>2, <2>1
<1>5. OnItsWay(r)'
  BY <1>1, <1>3, <1>4 DEF OnItsWay
<1> QED
  BY <1>1, <1>2, <1>5 DEF OneAtATime

LEMMA HealthyStart ==
    ASSUME HealthInv, TruthInv', Start
    PROVE  HealthInv'
<1>1. /\ pending = {} /\ toSidecar = <<>> /\ fromSidecar = <<>>
      /\ side' = [side EXCEPT !.pc = "boot"] /\ side \in Sides
      /\ main' = "starting" /\ channel' = "open" /\ fromSidecar' = fromSidecar
      /\ Request({}, "ping", None)
  BY DEF Start, HealthInv, Untried, TruthInv, Types
<1>2. side'.pc = "boot"
  BY <1>1 DEF Sides
<1>3. Read' = {}
  BY <1>1 DEF Read
<1>4. OneAtATime'
  BY <1>1, <1>2, <1>3, RequestWritten DEF HealthInv, NoReply, Operation
<1> QED
  BY <1>1, <1>3, <1>4 DEF HealthInv, Usable, Untried

LEMMA HealthyClose ==
    ASSUME HealthInv, TruthInv', Close
    PROVE  HealthInv'
BY OutOfService DEF Close, InService, HealthInv, Usable, Read

\* A handler that asks finds the channel quiet.
LEMMA QuietForHandler ==
    ASSUME HealthInv, stage \in {"handling", "deciding"}, InService
    PROVE  main = "serving" /\ Quiet /\ channel = "open"
<1>1. main = "serving" /\ \A r \in pending : r.operation \notin Calls
  BY NothingAsked DEF HealthInv, InService, Early
<1> QED
  BY <1>1 DEF HealthInv, OneAtATime, Operation

LEMMA HealthyHandler ==
    ASSUME HealthInv, TruthInv', Observe \/ Block \/ DispatchTrajectory
    PROVE  HealthInv'
<1>1. /\ stage \in {"handling", "deciding"}
      /\ UNCHANGED <<main, channel, fromSidecar, side>>
  BY DEF Observe, Block, DispatchTrajectory, requests
<1>2. CASE UNCHANGED <<pending, toSidecar, lag>>
  BY <1>1, <1>2, ChannelStays
<1>3. ASSUME NEW operation \in Calls, NEW of, Request(pending, operation, of)
      PROVE  HealthInv'
  <2>1. Usable' /\ Untried'
    BY <1>1, NothingAsked DEF HealthInv, Usable, Untried, Read, Early
  <2>2. ASSUME InService' PROVE channel' = "open" /\ OneAtATime'
    <3>1. main = "serving" /\ Quiet /\ channel = "open"
      BY <1>1, <2>2, QuietForHandler DEF InService, Healthy
    <3>2. NoReply' /\ operation \in Operation'
      BY <1>1, <3>1 DEF Quiet, NoReply, IsReply, Read, Operation
    <3> QED
      BY <1>1, <1>3, <3>1, <3>2, RequestWritten DEF Quiet, HealthInv
  <2> QED
    BY <2>1, <2>2 DEF HealthInv
<1> QED
  BY <1>2, <1>3 DEF Observe, Block, DispatchTrajectory, requests, Calls

LEMMA HealthyReadProposal ==
    ASSUME HealthInv, TruthInv', ReadProposal
    PROVE  HealthInv'
<1>1. /\ UNCHANGED <<main, channel, pending, toSidecar, side, lag>>
      /\ fromSidecar # <<>> /\ fromSidecar[1].event = "proposal"
      /\ \A k \in Read' : k \in Int /\ k + 1 \in Read /\ fromSidecar'[k] = fromSidecar[k + 1]
      /\ \A k \in Read :
            k = 1 \/ (k \in Int /\ k - 1 \in Read' /\ fromSidecar'[k - 1] = fromSidecar[k])
  BY HeadLine DEF ReadProposal, requests, HealthInv
<1>2. Usable' /\ Untried'
  BY <1>1 DEF HealthInv, Usable, Untried
<1>3. NoReply => NoReply'
  BY <1>1 DEF NoReply, IsReply
<1>4. ASSUME NEW id, OneReply(id) PROVE OneReply(id)'
  <2>1. PICK k \in Read : /\ IsReply(k) /\ fromSidecar[k].id = id
                          /\ \A j \in Read : IsReply(j) => j = k
    BY <1>4 DEF OneReply
  <2>2. k \in Int /\ k - 1 \in Read' /\ fromSidecar'[k - 1] = fromSidecar[k]
    BY <1>1, <2>1 DEF IsReply
  <2>3. \A j \in Read' : IsReply(j)' => j = k - 1
    <3> SUFFICES ASSUME NEW j \in Read', IsReply(j)' PROVE j = k - 1
      OBVIOUS
    <3>1. j \in Int /\ j + 1 = k
      BY <1>1, <2>1 DEF IsReply
    <3> QED
      BY <2>2, <3>1
  <2> QED
    BY <2>1, <2>2, <2>3 DEF OneReply, IsReply
<1>5. ASSUME InService' PROVE channel' = "open" /\ OneAtATime'
  <2>1. channel = "open" /\ OneAtATime
    BY <1>1, <1>5 DEF HealthInv, InService, Healthy
  <2>2. CASE main = "serving" /\ Quiet
    BY <1>1, <1>3, <2>1, <2>2 DEF Quiet, OneAtATime
  <2>3. CASE ~(main = "serving" /\ Quiet)
    <3>1. PICK r \in pending : /\ pending = {r} /\ r.operation \in Operation
                               /\ OnItsWay(r) \/ AtWork(r) \/ Replied(r)
      BY <2>1, <2>3 DEF OneAtATime
    <3>2. (OnItsWay(r) \/ AtWork(r) \/ Replied(r))'
      BY <1>1, <1>3, <1>4, <3>1 DEF OnItsWay, AtWork, Replied
    <3> QED
      BY <1>1, <2>1, <3>1, <3>2 DEF OneAtATime, Operation
  <2> QED
    BY <2>2, <2>3
<1> QED
  BY <1>2, <1>5 DEF HealthInv

LEMMA HealthyPingAnswered ==
    ASSUME HealthInv, TruthInv', PingAnswered
    PROVE  HealthInv'
<1>1. /\ main = "starting" /\ main' = "checking" /\ channel = "open"
      /\ UNCHANGED <<channel, side>> /\ NextLine("reply") /\ Request({}, "doctor", None)
  BY DEF PingAnswered
<1>2. Usable'
  BY <1>1, TakenUsable
<1>3. ASSUME InService' PROVE OneAtATime'
  <2>1. NoReply' /\ toSidecar = <<>> /\ side.pc = "reading"
    BY <1>1, <1>3, HeadAnswers DEF InService, Healthy
  <2> QED
    BY <1>1, <2>1, RequestWritten DEF HealthInv, Operation
<1> QED
  BY <1>1, <1>2, <1>3 DEF HealthInv, Untried

LEMMA HealthyCallAnswered ==
    ASSUME HealthInv, TruthInv', DoctorAnswered \/ DispatchAnswered
    PROVE  HealthInv'
<1>1. NextLine("reply") /\ UNCHANGED <<channel, toSidecar, side>>
  BY DEF DoctorAnswered, DispatchAnswered, Answered
<1>2. PICK r \in pending : /\ r.operation \in Calls /\ pending' = pending \ {r}
                           /\ r.operation = "dispatch" => DispatchAnswered
                           /\ r.operation = "doctor" => DoctorAnswered
  BY DEF DoctorAnswered, DispatchAnswered, Answered, Calls
<1>3. main' = main \/ (main = "checking" /\ main' = "serving")
  BY DEF DoctorAnswered, DispatchAnswered
<1>4. main # "checking" \/ main' = "serving"
  <2>1. CASE DoctorAnswered
    BY <2>1 DEF DoctorAnswered
  <2>2. CASE DispatchAnswered
    <3>1. stage = "dispatching"
      BY <2>2 DEF DispatchAnswered, Answered, HealthInv, TruthInv, Asked
    <3> QED
      BY <3>1 DEF HealthInv, TruthInv, Placed
  <2> QED
    BY <2>1, <2>2
<1>5. Usable' /\ Untried'
  BY <1>1, <1>3, TakenUsable, HeadLine DEF HealthInv, Untried
<1>6. ASSUME InService' PROVE channel' = "open" /\ OneAtATime'
  <2>1. InService
    BY <1>1, <1>3, <1>6 DEF InService, Healthy
  <2>2. /\ \E q \in pending : pending = {q} /\ q.operation \in Operation
        /\ NoReply' /\ toSidecar = <<>> /\ side.pc = "reading"
    BY <1>1, <2>1, HeadAnswers
  <2>3. pending' = {} /\ r.operation \in Operation
    BY <1>2, <2>2
  <2>4. main' = "serving"
    BY <1>2, <1>3, <1>4, <1>6, <2>3 DEF Operation, Calls, InService
  <2>5. channel = "open"
    BY <2>1 DEF HealthInv
  <2> QED
    BY <1>1, <2>2, <2>3, <2>4, <2>5 DEF OneAtATime, Quiet
<1> QED
  BY <1>5, <1>6 DEF HealthInv

\* A reply nobody waits for, an unusable line, a limit that is reached and a
\* child that is gone: none of them meets a channel in service.
LEMMA HealthyFailure ==
    ASSUME HealthInv, TruthInv', LastAnswer \/ UnusableLine \/ TimerFires \/ ChildGone
    PROVE  HealthInv'
<1>1. FailChannel /\ \/ fromSidecar' = fromSidecar
                     \/ fromSidecar # <<>> /\ fromSidecar' = Tail(fromSidecar)
  BY DEF LastAnswer, UnusableLine, TimerFires, ChildGone, NextLine
<1>2. main # "unstarted"
  BY DEF HealthInv, Untried, LastAnswer, UnusableLine, TimerFires, ChildGone, NextLine
<1>3. ASSUME InService, main = "serving" PROVE FALSE
  <2>1. CASE LastAnswer
    <3>1. PICK r \in pending : pending = {r} /\ r.operation \in Operation /\ Line.id = r.id
      BY <1>3, <2>1, HeadAnswers DEF LastAnswer
    <3> QED
      BY <1>3, <2>1, <3>1 DEF LastAnswer, Operation, Calls
  <2>2. CASE UnusableLine
    BY <1>3, <2>2, HeadLine DEF UnusableLine, HealthInv, Usable, InService, Healthy
  <2>3. CASE TimerFires
    <3>1. PICK r \in pending : /\ pending = {r} /\ r.operation \in Calls /\ r.left = 0
                               /\ OnItsWay(r) \/ AtWork(r) \/ Replied(r)
      BY <1>3, <2>3 DEF TimerFires, HealthInv, OneAtATime, Quiet, Operation
    <3>2. /\ lag \in Nat /\ lag <= MaxLag /\ MaxLag \in Nat /\ side.left \in Nat
          /\ Rest(side.pc) \in Nat /\ Rest(side.pc) > MaxLag
      BY Quantities, Limits DEF HealthInv
    <3>3. CASE OnItsWay(r)
      <4>1. Timeout(r.operation) \in Nat /\ Timeout(r.operation) > MaxLag
        BY <3>1, Limits
      <4>2. 0 + lag >= Timeout(r.operation)
        BY <1>3, <3>1, <3>3 DEF OnItsWay
      <4> QED
        BY <3>2, <4>1, <4>2
    <3>4. CASE AtWork(r)
      <4>1. 0 + lag >= side.left + Rest(side.pc)
        BY <1>3, <3>1, <3>4 DEF AtWork
      <4> QED
        BY <3>2, <4>1
    <3>5. CASE Replied(r)
      <4>1. 0 + lag >= Slack \/ 0 + lag >= DiscoveryLimit
        BY <1>3, <3>1, <3>5 DEF Replied
      <4> QED
        BY <3>2, <4>1, Limits
    <3> QED
      BY <3>1, <3>3, <3>4, <3>5
  <2>4. CASE ChildGone
    BY <1>3, <2>4 DEF ChildGone, InService, Healthy
  <2> QED
    BY <2>1, <2>2, <2>3, <2>4
<1> QED
  BY <1>1, <1>2, <1>3, FailureIsLate

\* A step of the sidecar or its surroundings that carries the request further.
LEMMA CarriedFurther ==
    ASSUME HealthInv, TruthInv', Usable', UNCHANGED <<main, channel, pending>>,
           main # "unstarted", Healthy' => Healthy,
           Quiet /\ Healthy => Quiet',
           \A r \in pending :
              /\ pending = {r} /\ InService /\ r.operation \in Operation
              /\ OnItsWay(r) \/ AtWork(r) \/ Replied(r)
              => (OnItsWay(r) \/ AtWork(r) \/ Replied(r))'
    PROVE  HealthInv'
<1>1. ASSUME InService' PROVE channel' = "open" /\ OneAtATime'
  <2>1. InService
    BY <1>1 DEF InService
  <2>2. channel = "open" /\ OneAtATime
    BY <2>1 DEF HealthInv
  <2>3. CASE main = "serving" /\ Quiet
    BY <2>1, <2>2, <2>3 DEF OneAtATime, InService
  <2>4. CASE ~(main = "serving" /\ Quiet)
    <3>1. PICK r \in pending : /\ pending = {r} /\ r.operation \in Operation
                               /\ OnItsWay(r) \/ AtWork(r) \/ Replied(r)
      BY <2>2, <2>4 DEF OneAtATime
    <3>2. (OnItsWay(r) \/ AtWork(r) \/ Replied(r))'
      BY <2>1, <3>1
    <3>3. pending' = {r} /\ r \in pending' /\ r.operation \in Operation'
      BY <3>1 DEF Operation
    <3> QED
      BY <2>2, <3>2, <3>3 DEF OneAtATime
  <2> QED
    BY <2>3, <2>4
<1> QED
  BY <1>1 DEF HealthInv, Untried

LEMMA Begun ==
    ASSUME HealthInv, side.pc # "off"
    PROVE  main # "unstarted"
BY DEF HealthInv, Untried

LEMMA HealthyBoot ==
    ASSUME HealthInv, TruthInv', Boot
    PROVE  HealthInv'
<1>1. /\ UNCHANGED <<main, channel, pending, toSidecar, fromSidecar, lag>>
      /\ side.pc = "boot" /\ side \in Sides /\ side' = [side EXCEPT !.pc = "reading"]
  BY DEF Boot, At, Gateway, requests, HealthInv, TruthInv, Types
<1>2. side'.pc = "reading" /\ side'.fault = side.fault
  BY <1>1 DEF Sides
<1>3. Usable' /\ (NoReply => NoReply')
  BY <1>1, <1>2 DEF HealthInv, Usable, Read, NoReply, IsReply
<1>4. ASSUME NEW r \in pending, OnItsWay(r) \/ AtWork(r) \/ Replied(r)
      PROVE  (OnItsWay(r) \/ AtWork(r) \/ Replied(r))'
  BY <1>1, <1>2, <1>3, <1>4 DEF OnItsWay, AtWork, Replied, Waits
<1>5. (Healthy' => Healthy) /\ ~Quiet /\ main # "unstarted"
  BY <1>1, <1>2, Begun DEF Healthy, Quiet
<1> QED
  BY <1>1, <1>3, <1>4, <1>5, CarriedFurther

\* The sidecar adds a line to its stdout, a reply or not.
LEMMA LineAdded ==
    ASSUME HealthInv, NEW line \in Lines, Emit(line),
           side'.fault = "none" => side.fault = "none" /\ line.event # "unusable"
    PROVE  /\ Usable'
           /\ line.event # "reply" /\ NoReply => NoReply'
           /\ \A id : line.event # "reply" /\ OneReply(id) => OneReply(id)'
           /\ \A id : line.event = "reply" /\ line.id = id /\ NoReply => OneReply(id)'
<1>1. /\ \A k \in Read' :
            \/ k \in Read /\ fromSidecar'[k] = fromSidecar[k]
            \/ k = Len(fromSidecar) + 1 /\ k \notin Read /\ fromSidecar'[k] = line
      /\ \A k \in Read : k \in Read' /\ fromSidecar'[k] = fromSidecar[k]
      /\ Len(fromSidecar) + 1 \in Read' /\ fromSidecar'[Len(fromSidecar) + 1] = line
  BY EmitGrows DEF HealthInv
<1>2. Usable'
  BY <1>1 DEF HealthInv, Usable
<1>3. line.event # "reply" /\ NoReply => NoReply'
  BY <1>1 DEF NoReply, IsReply
<1>4. ASSUME NEW id, line.event # "reply", OneReply(id) PROVE OneReply(id)'
  <2>1. PICK k \in Read : /\ IsReply(k) /\ fromSidecar[k].id = id
                          /\ \A j \in Read : IsReply(j) => j = k
    BY <1>4 DEF OneReply
  <2>2. k \in Read' /\ fromSidecar'[k] = fromSidecar[k]
    BY <1>1
  <2>3. \A j \in Read' : IsReply(j)' => j = k
    BY <1>1, <1>4, <2>1 DEF IsReply
  <2> QED
    BY <2>1, <2>2, <2>3 DEF OneReply, IsReply
<1>5. ASSUME NEW id, line.event = "reply", line.id = id, NoReply PROVE OneReply(id)'
  <2>1. \A j \in Read' : IsReply(j)' => j = Len(fromSidecar) + 1
    BY <1>1, <1>5 DEF NoReply, IsReply
  <2> QED
    BY <1>1, <1>5, <2>1 DEF OneReply, IsReply
<1> QED
  BY <1>2, <1>3, <1>4, <1>5

LEMMA HealthyPublish ==
    ASSUME HealthInv, TruthInv', Publish
    PROVE  HealthInv'
<1> DEFINE line == [event |-> "proposal", of |-> published']
<1>1. /\ UNCHANGED <<main, channel, pending, toSidecar, side, lag>>
      /\ side.pc # "off" /\ Emit(line)
  BY DEF Publish, Gateway, requests, Waits
<1>2. line \in Lines /\ line.event = "proposal"
  BY TransportAssumption DEF Publish, HealthInv, TruthInv, Types, Lines, Arrivals, Proposals
<1> HIDE DEF line
<1>3. Usable' /\ (NoReply => NoReply') /\ \A id : OneReply(id) => OneReply(id)'
  BY <1>1, <1>2, LineAdded
<1>4. ASSUME NEW r \in pending, OnItsWay(r) \/ AtWork(r) \/ Replied(r)
      PROVE  (OnItsWay(r) \/ AtWork(r) \/ Replied(r))'
  BY <1>1, <1>3, <1>4 DEF OnItsWay, AtWork, Replied
<1>5. (Healthy' => Healthy) /\ (Quiet => Quiet') /\ main # "unstarted"
  BY <1>1, <1>3, Begun DEF Healthy, Quiet
<1> QED
  BY <1>1, <1>3, <1>4, <1>5, CarriedFurther

\* A sidecar at fault, or one that is gone.
LEMMA HealthyFault ==
    ASSUME HealthInv, TruthInv', Hang \/ EmitUnusable \/ Exit
    PROVE  HealthInv'
<1>1. side \in Sides /\ side.pc # "off" /\ main' = main
  BY DEF HealthInv, TruthInv, Types, Hang, EmitUnusable, Exit, Gateway, Waits
<1>2. CASE Hang
  <2>1. side'.fault = "hung"
    BY <1>1, <1>2 DEF Hang, Sides
  <2> QED
    BY <1>1, <2>1, Begun, OutOfService DEF Usable, InService, Healthy
<1>3. CASE EmitUnusable
  <2>1. side'.fault = "unusable"
    BY <1>1, <1>3 DEF EmitUnusable, Sides
  <2> QED
    BY <1>1, <2>1, Begun, OutOfService DEF Usable, InService, Healthy
<1>4. CASE Exit
  <2>1. side'.pc = "exited" /\ side'.fault = side.fault /\ fromSidecar' = fromSidecar
    BY <1>1, <1>4 DEF Exit, Sides
  <2>2. Usable'
    BY <2>1 DEF HealthInv, Usable, Read
  <2> QED
    BY <1>1, <2>1, <2>2, Begun, OutOfService DEF InService, Healthy
<1> QED
  BY <1>2, <1>3, <1>4

\* The dispatch at work comes to its next limit.
LEMMA HealthyAwait ==
    ASSUME HealthInv, TruthInv', SendGoal \/ GoalAccepted
    PROVE  HealthInv'
<1>1. /\ UNCHANGED <<main, channel, pending, toSidecar, fromSidecar, lag>> /\ side \in Sides
      /\ \/ /\ side.pc = "waitServer"
            /\ side' = [side EXCEPT !.pc = "waitGoal", !.left = GoalLimit]
         \/ /\ side.pc = "waitGoal"
            /\ side' = [side EXCEPT !.pc = "waitResult", !.left = ResultLimit]
  BY DEF SendGoal, GoalAccepted, At, Await, Gateway, requests, HealthInv, TruthInv, Types
<1>2. /\ side'.id = side.id /\ side'.fault = side.fault
      /\ side.pc \in Waits /\ side'.pc \in Waits
      /\ side'.left + Rest(side'.pc) <= side.left + Rest(side.pc)
  <2>1. \/ side.pc = "waitServer" /\ side'.pc = "waitGoal" /\ side'.left = GoalLimit
        \/ side.pc = "waitGoal" /\ side'.pc = "waitResult" /\ side'.left = ResultLimit
    BY <1>1 DEF Sides
  <2>2. side.left \in Nat
    BY <1>1 DEF Sides
  <2>3. side'.left + Rest(side'.pc) <= side.left + Rest(side.pc)
    BY <2>1, <2>2, Limits DEF Rest
  <2> QED
    BY <1>1, <2>1, <2>3 DEF Sides, Waits
<1>3. Usable' /\ (NoReply => NoReply')
  BY <1>1, <1>2 DEF HealthInv, Usable, Read, NoReply, IsReply
<1>4. (Healthy' => Healthy) /\ ~Quiet /\ main # "unstarted"
  BY <1>1, <1>2, Begun DEF Healthy, Quiet, Waits
<1>5. ASSUME NEW r \in pending, pending = {r}, OnItsWay(r) \/ AtWork(r) \/ Replied(r)
      PROVE  AtWork(r)'
  <2>1. AtWork(r)
    BY <1>1, <1>5 DEF OnItsWay, Replied
  <2>2. /\ r.left \in Nat /\ lag \in Nat /\ side.left \in Nat /\ Rest(side.pc) \in Nat
        /\ side'.left \in Nat /\ Rest(side'.pc) \in Nat
    BY Quantities DEF HealthInv, TruthInv, Types, Sides
  <2>3. main' = "serving" => r.left + lag' >= side'.left + Rest(side'.pc)
    BY <1>1, <1>2, <2>1, <2>2 DEF AtWork
  <2> QED
    BY <1>1, <1>2, <1>3, <2>1, <2>3 DEF AtWork
<1> QED
  BY <1>1, <1>3, <1>4, <1>5, CarriedFurther

\* The dispatch at work is answered.
LEMMA HealthyFinish ==
    ASSUME HealthInv, TruthInv', NEW result \in Results, Finish(result), side.pc \in Waits
    PROVE  HealthInv'
<1> DEFINE line == [event |-> "reply", id |-> side.id, result |-> result]
<1>1. /\ Emit(line) /\ UNCHANGED <<main, channel, pending, toSidecar, lag>> /\ side \in Sides
      /\ side' = [side EXCEPT !.pc = "reading", !.left = 0, !.id = 0, !.of = None]
  BY DEF Finish, Reply, Gateway, requests, HealthInv, TruthInv, Types
<1>2. side'.pc = "reading" /\ side'.fault = side.fault
  BY <1>1 DEF Sides
<1>3. line \in Lines /\ line.event = "reply" /\ line.id = side.id
  BY <1>1 DEF Lines, Replies, Sides
<1> HIDE DEF line
<1>4. Usable' /\ \A id : id = side.id /\ NoReply => OneReply(id)'
  BY <1>1, <1>2, <1>3, LineAdded
<1>5. (Healthy' => Healthy) /\ ~Quiet /\ main # "unstarted"
  BY <1>1, <1>2, Begun DEF Healthy, Quiet, Waits
<1>6. ASSUME NEW r \in pending, pending = {r}, OnItsWay(r) \/ AtWork(r) \/ Replied(r)
      PROVE  Replied(r)'
  <2>1. AtWork(r)
    BY <1>6 DEF OnItsWay, Replied, Waits
  <2>2. /\ r.left \in Nat /\ lag \in Nat /\ side.left \in Nat
        /\ Rest(side.pc) \in Nat /\ Rest(side.pc) >= Slack /\ Slack \in Nat
    BY Quantities, Limits DEF HealthInv, Rest
  <2>3. main' = "serving" => r.left + lag' >= Slack
    BY <1>1, <2>1, <2>2 DEF AtWork
  <2> QED
    BY <1>1, <1>2, <1>4, <2>1, <2>3 DEF AtWork, Replied
<1> QED
  BY <1>1, <1>4, <1>5, <1>6, CarriedFurther

LEMMA HealthyAnswer ==
    ASSUME HealthInv, TruthInv',
           ServerMissing \/ GoalRefused \/ GoalUnanswered \/ ResultArrives \/ ResultMissing
    PROVE  HealthInv'
<1>1. side.pc \in Waits /\ \E result \in Results : Finish(result)
  BY DEF ServerMissing, GoalRefused, GoalUnanswered, ResultArrives, ResultMissing, NoHandle,
         At, Waits, Results
<1> QED
  BY <1>1, HealthyFinish

\* The sidecar takes the request from its stdin.
LEMMA HealthyServe ==
    ASSUME HealthInv, TruthInv', Serve
    PROVE  HealthInv'
<1> DEFINE request == toSidecar[1]
<1>1. /\ request \in Frames /\ Head(toSidecar) = request /\ toSidecar # <<>>
      /\ \A k \in Written' : k \in Int /\ k + 1 \in Written /\ k + 1 # 1
  BY FrameTaken DEF HealthInv
<1>2. /\ UNCHANGED <<main, channel, pending, lag>> /\ side \in Sides /\ side.pc = "reading"
      /\ toSidecar' = Tail(toSidecar)
  BY DEF Serve, At, HealthInv, TruthInv, Types
<1>3. Len(toSidecar) = 1 => toSidecar' = <<>>
  <2>1. toSidecar \in Seq(Frames)
    BY DEF HealthInv, TruthInv, Types, OfRequests
  <2> QED
    BY <1>1, <1>2, <2>1
<1>4. ~Quiet /\ main # "unstarted"
  BY <1>1, <1>2, Begun DEF Quiet
<1>5. ASSUME NEW r \in pending, OnItsWay(r) \/ AtWork(r) \/ Replied(r)
      PROVE  OnItsWay(r) /\ request.id = r.id /\ request.operation = r.operation
             /\ toSidecar' = <<>> /\ NoReply
             /\ (main = "serving" => r.left + lag >= Timeout(r.operation))
  BY <1>1, <1>2, <1>3, <1>5 DEF OnItsWay, AtWork, Replied, Waits
<1>6. CASE /\ request.operation = "dispatch" /\ fromSidecar' = fromSidecar
           /\ side' = [side EXCEPT !.pc = "waitServer", !.id = request.id,
                                   !.of = request.of, !.left = DiscoveryLimit]
  <2>1. /\ side'.pc = "waitServer" /\ side'.id = request.id /\ side'.left = DiscoveryLimit
        /\ side'.fault = side.fault
    BY <1>2, <1>6 DEF Sides
  <2>2. Usable' /\ (NoReply => NoReply') /\ (Healthy' => Healthy)
    BY <1>2, <1>6, <2>1 DEF HealthInv, Usable, Read, NoReply, IsReply, Healthy
  <2>3. ASSUME NEW r \in pending, OnItsWay(r) \/ AtWork(r) \/ Replied(r)
        PROVE  AtWork(r)'
    <3>1. side'.left + Rest(side'.pc) = Timeout(r.operation)
      BY <1>5, <1>6, <2>1, <2>3, Limits DEF Rest
    <3>2. main' = "serving" => r.left + lag' >= side'.left + Rest(side'.pc)
      BY <1>2, <1>5, <2>3, <3>1
    <3> QED
      BY <1>5, <1>6, <2>1, <2>2, <2>3, <3>2 DEF AtWork, Waits
  <2> QED
    BY <1>2, <1>4, <2>2, <2>3, CarriedFurther
<1>7. CASE /\ request.operation # "dispatch" /\ Reply(request.id, "ok")
           /\ side' = [side EXCEPT
                 !.pc = IF request.operation = "shutdown" THEN "exited" ELSE @]
  <2> DEFINE line == [event |-> "reply", id |-> request.id, result |-> "ok"]
  <2>1. /\ side'.fault = side.fault
        /\ side'.pc = IF request.operation = "shutdown" THEN "exited" ELSE "reading"
    BY <1>2, <1>7 DEF Sides
  <2>2. line \in Lines /\ line.event = "reply" /\ line.id = request.id /\ Emit(line)
    BY <1>1, <1>7 DEF Lines, Replies, Frames, Reply
  <2> HIDE DEF line
  <2>3. Usable' /\ \A id : id = request.id /\ NoReply => OneReply(id)'
    BY <2>1, <2>2, LineAdded
  <2>4. Healthy' => Healthy
    BY <1>2, <2>1 DEF Healthy
  <2>5. ASSUME NEW r \in pending, InService, r.operation \in Operation,
               OnItsWay(r) \/ AtWork(r) \/ Replied(r)
        PROVE  Replied(r)'
    <3>1. r.operation \in {"ping", "doctor", "dispatch"}
      BY <2>5 DEF Operation, Calls
    <3>2. side'.pc = "reading"
      BY <1>5, <2>1, <2>5, <3>1
    <3>3. main = "serving" => r.operation = "doctor"
      BY <1>5, <1>7, <2>5 DEF Operation, Calls
    <3>4. main' = "serving" => r.left + lag' >= DiscoveryLimit
      BY <1>2, <1>5, <2>5, <3>3, Limits
    <3> QED
      BY <1>2, <1>5, <1>7, <2>3, <2>5, <3>2, <3>4 DEF Replied
  <2> QED
    BY <1>2, <1>4, <2>3, <2>4, <2>5, CarriedFurther
<1> QED
  BY <1>1, <1>6, <1>7 DEF Serve

\* A unit of time passes.  What is in transit counts it in lag, and what the
\* sidecar has at work is that much nearer to its limit.
LEMMA HealthyTick ==
    ASSUME HealthInv, TruthInv', Tick
    PROVE  HealthInv'
<1>1. /\ UNCHANGED <<main, channel, toSidecar, fromSidecar>> /\ side \in Sides
      /\ pending' = {[r EXCEPT !.left = @ - 1] : r \in pending}
      /\ side' = IF Waiting THEN [side EXCEPT !.left = @ - 1] ELSE side
      /\ lag' = IF InTransit THEN lag + 1 ELSE lag
      /\ Waiting => side.left > 0
      /\ \A r \in pending : r.left > 0
  BY DEF Tick, HealthInv, TruthInv, Types
<1>2. side'.pc = side.pc /\ side'.id = side.id /\ side'.fault = side.fault
      /\ side'.left = IF Waiting THEN side.left - 1 ELSE side.left
  BY <1>1 DEF Sides
<1>3. Usable' /\ (NoReply => NoReply') /\ \A id : OneReply(id) => OneReply(id)'
  BY <1>1, <1>2 DEF HealthInv, Usable, Read, NoReply, OneReply, IsReply
<1>4. main # "unstarted" /\ Untried'
  BY <1>1, <1>2, Begun DEF Tick, HealthInv, Untried, Waiting, Waits
<1>5. ASSUME InService' PROVE channel' = "open" /\ OneAtATime'
  <2>1. InService /\ channel = "open" /\ OneAtATime
    BY <1>1, <1>2, <1>5 DEF HealthInv, InService, Healthy
  <2>2. CASE main = "serving" /\ Quiet
    BY <1>1, <1>2, <1>3, <2>1, <2>2 DEF Quiet, OneAtATime
  <2>3. CASE ~(main = "serving" /\ Quiet)
    <3>1. PICK r \in pending : /\ pending = {r} /\ r.operation \in Operation
                               /\ OnItsWay(r) \/ AtWork(r) \/ Replied(r)
      BY <2>1, <2>3 DEF OneAtATime
    <3>2. PICK q : /\ q \in pending' /\ pending' = {q} /\ q.id = r.id
                   /\ q.operation = r.operation /\ q.left = r.left - 1
      <4>1. r \in Requests
        BY DEF HealthInv, TruthInv, Types, OfRequests
      <4> DEFINE later == [r EXCEPT !.left = @ - 1]
      <4>2. pending' = {later}
        BY <1>1, <3>1
      <4>3. later.id = r.id /\ later.operation = r.operation /\ later.left = r.left - 1
        BY <4>1 DEF Requests
      <4> HIDE DEF later
      <4> QED
        BY <4>2, <4>3
    <3>3. r.left \in Nat /\ lag \in Nat /\ side.left \in Nat
      BY Quantities DEF HealthInv
    <3>4. ASSUME OnItsWay(r) PROVE OnItsWay(q)'
      <4>1. main' = "serving" => q.left + lag' >= Timeout(q.operation)
        <5>1. toSidecar # <<>> /\ (main = "serving" => side.pc = "reading")
          <6>1. Len(toSidecar) = 1 /\ (main = "serving" => side.pc = "reading")
            BY <3>4 DEF OnItsWay
          <6>2. Len(<<>>) = 0
            OBVIOUS
          <6> QED
            BY <6>1, <6>2
        <5>2. side.fault # "hung"
          BY <2>1 DEF InService, Healthy
        <5>3. main = "serving" => InTransit
          BY <5>1, <5>2 DEF InTransit, At, Hung
        <5>4. main = "serving" => r.left + lag >= Timeout(r.operation)
          BY <3>4 DEF OnItsWay
        <5>5. main = "serving" => Timeout(r.operation) \in Nat
          BY <3>1, Limits DEF Operation
        <5> QED
          BY <1>1, <3>2, <3>3, <5>3, <5>4, <5>5
      <4> QED
        BY <1>1, <1>2, <1>3, <3>2, <3>4, <4>1 DEF OnItsWay
    <3>5. ASSUME AtWork(r) PROVE AtWork(q)'
      <4>1. Waiting /\ side'.left = side.left - 1 /\ lag' >= lag /\ lag' \in Nat
        BY <1>1, <1>2, <2>1, <3>3, <3>5 DEF AtWork, Waiting, Hung, InService, Healthy
      <4>2. Rest(side.pc) \in Nat
        BY Quantities DEF HealthInv
      <4>3. main' = "serving" => q.left + lag' >= side'.left + Rest(side'.pc)
        BY <1>1, <1>2, <3>2, <3>3, <3>5, <4>1, <4>2 DEF AtWork
      <4> QED
        BY <1>1, <1>2, <1>3, <3>2, <3>5, <4>3 DEF AtWork
    <3>6. ASSUME Replied(r) PROVE Replied(q)'
      <4>1. InTransit
        <5>1. \E k \in Read : IsReply(k)
          BY <3>6 DEF Replied, OneReply
        <5>2. fromSidecar # <<>>
          BY <5>1 DEF Read
        <5> QED
          BY <5>2 DEF InTransit
      <4>2. main' = "serving" =>
               q.left + lag' >= IF q.operation = "dispatch" THEN Slack ELSE DiscoveryLimit
        <5>1. main' = main /\ q.left + lag' = r.left + lag
          BY <1>1, <3>2, <3>3, <4>1
        <5>2. main = "serving" =>
                 r.left + lag >= IF r.operation = "dispatch" THEN Slack ELSE DiscoveryLimit
          BY <3>6 DEF Replied
        <5> QED
          BY <3>2, <5>1, <5>2
      <4> QED
        BY <1>1, <1>2, <1>3, <3>2, <3>6, <4>2 DEF Replied
    <3>7. (OnItsWay(q) \/ AtWork(q) \/ Replied(q))'
      BY <3>1, <3>4, <3>5, <3>6
    <3>8. q.operation \in Operation'
      BY <1>1, <3>1, <3>2 DEF Operation
    <3> QED
      BY <1>1, <2>1, <3>2, <3>7, <3>8 DEF OneAtATime
  <2> QED
    BY <2>2, <2>3
<1> QED
  BY <1>3, <1>4, <1>5 DEF HealthInv

LEMMA HealthInit == Init => HealthInv
<1> SUFFICES ASSUME Init PROVE HealthInv
  OBVIOUS
<1>1. TruthInv
  BY TruthInit
<1>2. Usable /\ Untried /\ ~InService
  BY DEF Init, Usable, Untried, InService, Read
<1> QED
  BY <1>1, <1>2 DEF HealthInv

LEMMA HealthStep == HealthInv /\ [Next]_vars => HealthInv'
<1> SUFFICES ASSUME HealthInv, [Next]_vars PROVE HealthInv'
  OBVIOUS
<1>1. TruthInv'
  BY TruthStep DEF HealthInv
<1>2. CASE GatewayStep \/ Close
  BY <1>1, <1>2, HealthyStart, HealthyClose, HealthyHandler, HealthyReadProposal,
     HealthyPingAnswered, HealthyCallAnswered, HealthyFailure DEF GatewayStep
<1>3. CASE SidecarStep
  BY <1>1, <1>3, HealthyBoot, HealthyServe, HealthyAwait, HealthyAnswer DEF SidecarStep
<1>4. CASE \E m \in Proposals : Controller(m)
  <2>1. UNCHANGED <<main, channel, pending, toSidecar, fromSidecar, side, lag>>
    BY <1>4 DEF Controller, Gateway, requests
  <2> QED
    BY <1>1, <2>1, ChannelStays
<1>5. CASE Publish \/ Hang \/ EmitUnusable \/ Exit \/ Tick
  BY <1>1, <1>5, HealthyPublish, HealthyFault, HealthyTick
<1>6. CASE UNCHANGED vars
  BY <1>1, <1>6, ChannelStays DEF vars, requests
<1> QED
  BY <1>2, <1>3, <1>4, <1>5, <1>6 DEF Next

\* While the sidecar has no fault, its channel is open and the one request that
\* is out has time enough left for what remains to be done about it.
THEOREM HealthInvariant == Spec => []HealthInv
BY HealthInit, HealthStep, PTL DEF Spec

(***************************************************************************)
(* A channel in service fails only with its sidecar.  The timeout of a     *)
(* dispatch (sidecar.ts) covers the sidecar's own limits and the slack,    *)
(* and the answer to a request is the only one that is read.               *)
(***************************************************************************)
THEOREM ServiceIsKept == Spec => []HealthyChannelStays
<1>1. HealthInv => HealthyChannelStays
  BY DEF HealthInv, InService, Healthy, HealthyChannelStays
<1> QED
  BY <1>1, HealthInvariant, PTL

=============================================================================
