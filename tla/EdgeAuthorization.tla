------------------------- MODULE EdgeAuthorization -------------------------
(***************************************************************************)
(* Signed authority that a robot uses without a network                    *)
(* (src/packages/edge-authorization/snapshot.ts).  The authority signs     *)
(* snapshots that bind one action in one setting, with an expiry and the   *)
(* revocation epoch they were signed under; signEdgeAuthorization is its   *)
(* only part in the repository.  On the robot an                           *)
(* EdgeAuthorizedDispatchBoundary holds at most one prepared snapshot and  *)
(* verifies it in the same step that hands the action to the dispatcher.   *)
(* The refresh task that carries snapshots and epochs to the robot is not  *)
(* in the repository: it may be late, repeat and reorder what it carries.  *)
(*                                                                         *)
(* A binding stands for the six fields verifyEdgeAuthorization compares:   *)
(* the action, and a setting that stands for the release, its content,     *)
(* the configuration, the device and the controller.                       *)
(***************************************************************************)
EXTENDS Integers, FiniteSets, Sequences

CONSTANTS
    Boundaries,    \* boundary objects, those of restarted processes too
    Actions,       \* actions, told apart by their hashes
    Settings,      \* what the other five binding fields say
    Keys,          \* signing keys of the authority
    TrustedKeys,   \* those whose public half the robot holds
    BindingOf,     \* the binding a boundary was made with
    Lifetimes,     \* the lifetimes the authority signs
    MaxLifetime,   \* maximumLifetimeMs
    MaxSkew,       \* maximumClockSkewMs
    MaxClock,      \* bound: the authority's clock
    Offsets,       \* how far the robot's clock may be off, and be set
    MaxEpoch,      \* bound: revocations
    MaxIssued,     \* bound: snapshots signed
    None           \* no snapshot, no dispatch

Bindings == [action : Actions, setting : Settings]

ASSUME BindingAssumption == BindingOf \in [Boundaries -> Bindings]
ASSUME KeyAssumption == TrustedKeys \subseteq Keys
ASSUME LifetimeAssumption == Lifetimes \subseteq Nat \ {0} /\ MaxLifetime \in Nat
ASSUME ClockAssumption ==
    MaxSkew \in Nat /\ MaxClock \in Nat /\ Offsets \subseteq Int /\ 0 \in Offsets
ASSUME BoundAssumption == MaxEpoch \in Nat /\ MaxIssued \in Nat

\* A snapshot; intact says that its signature covers what it says.
Snapshots == [key : Keys, binding : Bindings, issuedAt : Int, expiresAt : Int,
              epoch : Nat, intact : BOOLEAN]

ASSUME NoneAssumption == None \notin Snapshots /\ None \notin Actions

VARIABLES
    clock,      \* the authority's clock, taken for the true time
    offset,     \* the robot's clock reads clock + offset
    epoch,      \* the authority's revocation epoch
    raisedAt,   \* history: when each epoch began
    issued,     \* the snapshots signed so far
    known,      \* what minimumRevocationEpoch() answers on the robot
    consumed,   \* consumed
    prepared,   \* prepared
    evidence,   \* authorizationEvidence: the snapshot it names
    offered,    \* the caller's own action object of the call under way
    handed,     \* the action given to the dispatcher
    judgedAt,   \* history: robot clock and known epoch when it was given
    writes      \* history: the actions the dispatcher has consumed

vars == <<clock, offset, epoch, raisedAt, issued, known, consumed, prepared,
          evidence, offered, handed, judgedAt, writes>>
authorityVars == <<clock, epoch, raisedAt, issued>>
robotVars == <<consumed, prepared, evidence, offered, handed, judgedAt, writes>>

Now == clock + offset

Init ==
    /\ clock = 0 /\ offset = 0
    /\ epoch = 0 /\ raisedAt = [e \in 0..MaxEpoch |-> 0] /\ issued = {}
    /\ known = 0
    /\ consumed = [b \in Boundaries |-> FALSE]
    /\ prepared = [b \in Boundaries |-> None]
    /\ evidence = [b \in Boundaries |-> None]
    /\ offered = [b \in Boundaries |-> None]
    /\ handed = [b \in Boundaries |-> None]
    /\ judgedAt = [b \in Boundaries |-> [now |-> 0, known |-> 0]]
    /\ writes = [b \in Boundaries |-> << >>]

-----------------------------------------------------------------------------
(* The authority and what carries its word.                                *)

\* signEdgeAuthorization: any lifetime above zero is signed.
Signed(key, binding, lifetime) ==
    [key |-> key, binding |-> binding, issuedAt |-> clock,
     expiresAt |-> clock + lifetime, epoch |-> epoch, intact |-> TRUE]

Issue(key, binding, lifetime) ==
    /\ Cardinality(issued) < MaxIssued
    /\ issued' = issued \cup {Signed(key, binding, lifetime)}
    /\ UNCHANGED <<clock, offset, epoch, raisedAt, known, robotVars>>

\* The authority revokes: what it signs from now on carries the next epoch.
Revoke ==
    /\ epoch < MaxEpoch
    /\ epoch' = epoch + 1
    /\ raisedAt' = [raisedAt EXCEPT ![epoch + 1] = clock]
    /\ UNCHANGED <<clock, offset, issued, known, robotVars>>

\* The robot hears of an epoch, at any later time.
Learn(e) ==
    /\ known < e /\ e <= epoch
    /\ known' = e
    /\ UNCHANGED <<authorityVars, offset, robotVars>>

Tick ==
    /\ clock < MaxClock
    /\ clock' = clock + 1
    /\ UNCHANGED <<offset, epoch, raisedAt, issued, known, robotVars>>

\* The robot's clock drifts or is set.
SetRobotClock(o) ==
    /\ o # offset
    /\ offset' = o
    /\ UNCHANGED <<authorityVars, known, robotVars>>

-----------------------------------------------------------------------------
(* The robot.                                                              *)

\* Slip: only the times are looked at, as the authority wrote them.
VerdictByExpiry(s, binding, now, minimum) ==
    IF s = None \/ s.key \notin TrustedKeys \/ ~s.intact THEN "invalid"
    ELSE IF s.expiresAt <= now THEN "expired"
    ELSE IF s.epoch < minimum THEN "revoked"
    ELSE IF s.binding # binding THEN "binding_mismatch"
    ELSE "allowed"

\* verifyEdgeAuthorization, in the order of its checks.
Verdict(s, binding, now, minimum) ==
    IF s = None THEN "invalid"
    ELSE IF s.key \notin TrustedKeys THEN "unknown_key"
    ELSE IF ~s.intact THEN "invalid"
    ELSE IF s.expiresAt - s.issuedAt \notin 1..MaxLifetime THEN "invalid"
    ELSE IF s.issuedAt > now + MaxSkew THEN "not_yet_valid"
    ELSE IF s.expiresAt <= now THEN "expired"
    ELSE IF s.epoch < minimum THEN "revoked"
    ELSE IF s.binding # binding THEN "binding_mismatch"
    ELSE "allowed"

\* A snapshot as it arrives: one that was signed, or one damaged on its way.
Arrivals == issued \cup {[s EXCEPT !.intact = FALSE] : s \in issued}

\* prepare: refused once the boundary is used; a later snapshot replaces an
\* earlier one, and an older one a newer.
Prepare(b, s) ==
    /\ ~consumed[b]
    /\ s \in Arrivals
    /\ prepared' = [prepared EXCEPT ![b] = s]
    /\ UNCHANGED <<authorityVars, offset, known, consumed, evidence, offered, handed, judgedAt, writes>>

\* dispatch with another action than the boundary's: the boundary is used up.
DispatchOther(b, a) ==
    /\ ~consumed[b] /\ a # BindingOf[b].action
    /\ consumed' = [consumed EXCEPT ![b] = TRUE]
    /\ UNCHANGED <<authorityVars, offset, known, prepared, evidence, offered, handed, judgedAt, writes>>

\* dispatch refused by the verification: the boundary and the snapshot are used up.
DispatchRefused(b) ==
    /\ ~consumed[b]
    /\ Verdict(prepared[b], BindingOf[b], Now, known) # "allowed"
    /\ consumed' = [consumed EXCEPT ![b] = TRUE]
    /\ prepared' = [prepared EXCEPT ![b] = None]
    /\ UNCHANGED <<authorityVars, offset, known, evidence, offered, handed, judgedAt, writes>>

\* Slip: the boundary is marked used when the dispatcher has answered.
DispatchAllowedMarkedLate(b) ==
    LET s == prepared[b] IN
    /\ ~consumed[b]
    /\ Verdict(s, BindingOf[b], Now, known) = "allowed"
    /\ evidence' = [evidence EXCEPT ![b] = s]
    /\ offered' = [offered EXCEPT ![b] = BindingOf[b].action]
    /\ handed' = [handed EXCEPT ![b] = BindingOf[b].action]
    /\ judgedAt' = [judgedAt EXCEPT ![b] = [now |-> Now, known |-> known]]
    /\ UNCHANGED <<authorityVars, offset, known, consumed, prepared, writes>>

\* dispatch: consumed is set first, and everything up to the call of the
\* dispatcher happens in one turn of the event loop.
DispatchAllowed(b) ==
    LET s == prepared[b] IN
    /\ ~consumed[b]
    /\ Verdict(s, BindingOf[b], Now, known) = "allowed"
    /\ consumed' = [consumed EXCEPT ![b] = TRUE]
    /\ prepared' = [prepared EXCEPT ![b] = None]
    /\ evidence' = [evidence EXCEPT ![b] = s]
    /\ offered' = [offered EXCEPT ![b] = BindingOf[b].action]
    /\ handed' = [handed EXCEPT ![b] = BindingOf[b].action]
    /\ judgedAt' = [judgedAt EXCEPT ![b] = [now |-> Now, known |-> known]]
    /\ UNCHANGED <<authorityVars, offset, known, writes>>

\* The caller changes its own action object while the dispatcher works.
EditOffered(b, a) ==
    /\ handed[b] # None /\ a # offered[b]
    /\ offered' = [offered EXCEPT ![b] = a]
    /\ UNCHANGED <<authorityVars, offset, known, consumed, prepared, evidence, handed, judgedAt, writes>>

\* Slip: the caller's object is passed on instead of a detached copy.
WrittenActionShared(b) == offered[b]

\* preparedAction is a detached copy of what was hashed.
WrittenAction(b) == handed[b]

\* The dispatcher consumes the action, some time after it was called; its
\* promise is then settled, with no effect on the boundary.
Write(b) ==
    /\ handed[b] # None
    /\ writes' = [writes EXCEPT ![b] = Append(@, WrittenAction(b))]
    /\ handed' = [handed EXCEPT ![b] = None]
    /\ UNCHANGED <<authorityVars, offset, known, consumed, prepared, evidence, offered, judgedAt>>

\* The dispatcher fails and writes nothing.
DispatcherFails(b) ==
    /\ handed[b] # None
    /\ handed' = [handed EXCEPT ![b] = None]
    /\ UNCHANGED <<authorityVars, offset, known, consumed, prepared, evidence, offered, judgedAt, writes>>

-----------------------------------------------------------------------------
BoundaryStep(b) ==
    \/ \E s \in Arrivals : Prepare(b, s)
    \/ \E a \in Actions : DispatchOther(b, a)
    \/ DispatchRefused(b)
    \/ DispatchAllowed(b)
    \/ \E a \in Actions : EditOffered(b, a)
    \/ Write(b)
    \/ DispatcherFails(b)

Next ==
    \/ \E key \in Keys, binding \in Bindings, lifetime \in Lifetimes : Issue(key, binding, lifetime)
    \/ Revoke
    \/ \E e \in 1..MaxEpoch : Learn(e)
    \/ Tick
    \/ \E o \in Offsets : SetRobotClock(o)
    \/ \E b \in Boundaries : BoundaryStep(b)

Spec == Init /\ [][Next]_vars

-----------------------------------------------------------------------------
TypeOK ==
    /\ clock \in Nat /\ offset \in Int
    /\ epoch \in 0..MaxEpoch /\ raisedAt \in [0..MaxEpoch -> Nat]
    /\ issued \subseteq Snapshots /\ known \in 0..epoch
    /\ consumed \in [Boundaries -> BOOLEAN]
    /\ prepared \in [Boundaries -> Snapshots \cup {None}]
    /\ evidence \in [Boundaries -> Snapshots \cup {None}]
    /\ offered \in [Boundaries -> Actions \cup {None}]
    /\ handed \in [Boundaries -> Actions \cup {None}]
    /\ judgedAt \in [Boundaries -> [now : Int, known : Nat]]
    /\ writes \in [Boundaries -> Seq(Actions)]

(***************************************************************************)
(* A boundary writes at most once, however its calls of dispatch overlap   *)
(* with each other and with a slow or failing dispatcher.                  *)
(***************************************************************************)
OneWritePerBoundary == \A b \in Boundaries : Len(writes[b]) <= 1

(***************************************************************************)
(* What is written is the action the authority signed for this setting,    *)
(* in a snapshot that is the one the evidence names, although snapshots    *)
(* are damaged on their way and the caller edits its action while the      *)
(* dispatcher works.                                                       *)
(***************************************************************************)
WrittenAsAuthorized ==
    \A b \in Boundaries : writes[b] # << >> =>
        /\ evidence[b] \in issued
        /\ evidence[b].binding.setting = BindingOf[b].setting
        /\ \A i \in 1..Len(writes[b]) : writes[b][i] = evidence[b].binding.action

(***************************************************************************)
(* Revocation reaches a robot that hears nothing: a snapshot signed before *)
(* an epoch was raised hands over no action once the robot's clock is a    *)
(* full lifetime past that moment, whatever lifetime it was signed with    *)
(* and in whatever order the refresh task prepares snapshots; and none at  *)
(* all once the robot knew of the epoch.                                   *)
(***************************************************************************)
RevocationTakesEffect ==
    \A b \in Boundaries : evidence[b] # None =>
        /\ judgedAt[b].known <= evidence[b].epoch
        /\ \A e \in (evidence[b].epoch + 1)..epoch :
               judgedAt[b].now < raisedAt[e] + MaxLifetime

=============================================================================
