---------------------- MODULE EdgeAuthorizationProofs ----------------------
(***************************************************************************)
(* The properties of EdgeAuthorization for any number of boundaries,       *)
(* snapshots and revocations, any lifetimes and any error of the robot's   *)
(* clock.                                                                  *)
(***************************************************************************)
EXTENDS EdgeAuthorization, TLAPS

\* The authority signs with its own clock and its current epoch, so a
\* snapshot is no younger than the epochs raised since.
AuthorityInv ==
    \A s \in issued :
        /\ s.intact /\ s.issuedAt <= clock /\ s.epoch <= epoch
        /\ \A e \in (s.epoch + 1)..epoch : s.issuedAt <= raisedAt[e]

\* A prepared snapshot whose signature holds was signed by the authority.
PreparedInv ==
    \A b \in Boundaries :
        prepared[b] # None /\ prepared[b].intact => prepared[b] \in issued

\* An unused boundary has done nothing yet.
UnusedInv ==
    \A b \in Boundaries : ~consumed[b] =>
        handed[b] = None /\ evidence[b] = None /\ writes[b] = << >>

\* What the dispatcher holds is the boundary's action, and not yet written.
HandedInv ==
    \A b \in Boundaries : handed[b] # None =>
        handed[b] = BindingOf[b].action /\ evidence[b] # None /\ writes[b] = << >>

\* The evidence names a signed snapshot for the boundary's binding, judged
\* within a lifetime of its signing and by no newer epoch.
EvidenceInv ==
    \A b \in Boundaries : evidence[b] # None =>
        /\ evidence[b] \in issued
        /\ evidence[b].binding = BindingOf[b]
        /\ judgedAt[b].known <= evidence[b].epoch
        /\ judgedAt[b].now < evidence[b].issuedAt + MaxLifetime

WritesInv ==
    \A b \in Boundaries :
        writes[b] = << >> \/ (writes[b] = <<BindingOf[b].action>> /\ evidence[b] # None)

RobotInv == UnusedInv /\ HandedInv /\ EvidenceInv /\ WritesInv
IInv == TypeOK /\ AuthorityInv /\ PreparedInv /\ RobotInv

-----------------------------------------------------------------------------
LEMMA InitHolds == Init => IInv
<1> USE BindingAssumption, KeyAssumption, LifetimeAssumption, ClockAssumption, BoundAssumption, NoneAssumption
<1> SUFFICES ASSUME Init PROVE IInv
    OBVIOUS
<1>1. TypeOK
    BY DEF Init, TypeOK
<1>2. AuthorityInv /\ PreparedInv /\ RobotInv
    BY DEF Init, AuthorityInv, PreparedInv, RobotInv, UnusedInv, HandedInv, EvidenceInv, WritesInv
<1> QED
    BY <1>1, <1>2 DEF IInv

LEMMA IssueHolds ==
    ASSUME NEW key \in Keys, NEW binding \in Bindings, NEW lifetime \in Lifetimes,
           IInv, Issue(key, binding, lifetime)
    PROVE  IInv'
<1> USE LifetimeAssumption, BoundAssumption
<1>1. Signed(key, binding, lifetime) \in Snapshots
    BY DEF IInv, TypeOK, Signed, Snapshots
<1>2. TypeOK'
    BY <1>1 DEF IInv, TypeOK, Issue, robotVars
<1>3. AuthorityInv'
    BY DEF IInv, TypeOK, AuthorityInv, Issue, Signed, Snapshots
<1>4. PreparedInv' /\ RobotInv'
    BY DEF IInv, PreparedInv, RobotInv, UnusedInv, HandedInv, EvidenceInv, WritesInv, Issue, robotVars
<1> QED
    BY <1>2, <1>3, <1>4 DEF IInv

LEMMA RevokeHolds == IInv /\ Revoke => IInv'
<1> USE BoundAssumption
<1> SUFFICES ASSUME IInv, Revoke PROVE IInv'
    OBVIOUS
<1>1. TypeOK'
    BY DEF IInv, TypeOK, Revoke, robotVars
<1>2. AuthorityInv'
    BY DEF IInv, TypeOK, AuthorityInv, Revoke, Snapshots
<1>3. PreparedInv' /\ RobotInv'
    BY DEF IInv, PreparedInv, RobotInv, UnusedInv, HandedInv, EvidenceInv, WritesInv, Revoke, robotVars
<1> QED
    BY <1>1, <1>2, <1>3 DEF IInv

LEMMA ClocksHold ==
    ASSUME IInv, Tick \/ (\E e \in 1..MaxEpoch : Learn(e)) \/ (\E o \in Offsets : SetRobotClock(o))
    PROVE  IInv'
<1> USE BoundAssumption, ClockAssumption
<1>1. TypeOK'
    <2>1. CASE Tick
        <3>1. clock' \in Nat
            BY <2>1 DEF IInv, TypeOK, Tick
        <3>2. UNCHANGED <<offset, epoch, raisedAt, issued, known, robotVars>>
            BY <2>1 DEF Tick
        <3> QED
            BY <3>1, <3>2 DEF IInv, TypeOK, robotVars
    <2>2. CASE (\E e \in 1..MaxEpoch : Learn(e)) \/ (\E o \in Offsets : SetRobotClock(o))
        BY <2>2 DEF IInv, TypeOK, Learn, SetRobotClock, robotVars, authorityVars
    <2> QED
        BY <2>1, <2>2
<1>2. AuthorityInv'
    <2>1. /\ issued' = issued /\ epoch' = epoch /\ raisedAt' = raisedAt
          /\ clock' = clock \/ clock' = clock + 1
        BY DEF Tick, Learn, SetRobotClock, authorityVars
    <2>2. clock \in Nat /\ \A s \in issued : s.issuedAt \in Int
        BY DEF IInv, TypeOK, Snapshots
    <2> QED
        BY <2>1, <2>2 DEF IInv, AuthorityInv
<1>3. PreparedInv' /\ RobotInv'
    BY DEF IInv, PreparedInv, RobotInv, UnusedInv, HandedInv, EvidenceInv, WritesInv,
           Tick, Learn, SetRobotClock, robotVars, authorityVars
<1> QED
    BY <1>1, <1>2, <1>3 DEF IInv

LEMMA PrepareHolds ==
    ASSUME NEW b \in Boundaries, NEW s \in Arrivals, IInv, Prepare(b, s)
    PROVE  IInv'
<1> USE LifetimeAssumption, NoneAssumption
<1>1. s \in Snapshots /\ (s.intact => s \in issued)
    <2>1. CASE s \in issued
        BY <2>1 DEF IInv, TypeOK
    <2>2. CASE s \notin issued
        <3>1. PICK t \in issued : s = [t EXCEPT !.intact = FALSE]
            BY <2>2 DEF Arrivals
        <3>2. t \in Snapshots
            BY DEF IInv, TypeOK
        <3> QED
            BY <3>1, <3>2 DEF Snapshots
    <2> QED
        BY <2>1, <2>2
<1>2. TypeOK'
    BY <1>1 DEF IInv, TypeOK, Prepare, authorityVars
<1>3. PreparedInv'
    BY <1>1 DEF IInv, TypeOK, PreparedInv, Prepare, authorityVars
<1>4. AuthorityInv' /\ RobotInv'
    BY DEF IInv, AuthorityInv, RobotInv, UnusedInv, HandedInv, EvidenceInv, WritesInv, Prepare, authorityVars
<1> QED
    BY <1>2, <1>3, <1>4 DEF IInv

LEMMA RefusalHolds ==
    ASSUME NEW b \in Boundaries, IInv, DispatchRefused(b) \/ \E a \in Actions : DispatchOther(b, a)
    PROVE  IInv'
<1>1. TypeOK'
    BY DEF IInv, TypeOK, DispatchRefused, DispatchOther, authorityVars
<1>2. AuthorityInv' /\ PreparedInv'
    BY DEF IInv, TypeOK, AuthorityInv, PreparedInv, DispatchRefused, DispatchOther, authorityVars
<1>3. RobotInv'
    <2>1. /\ consumed' = [consumed EXCEPT ![b] = TRUE]
          /\ UNCHANGED <<issued, evidence, handed, judgedAt, writes>>
        BY DEF DispatchRefused, DispatchOther, authorityVars
    <2> QED
        BY <2>1 DEF IInv, TypeOK, RobotInv, UnusedInv, HandedInv, EvidenceInv, WritesInv
<1> QED
    BY <1>1, <1>2, <1>3 DEF IInv

\* What an allowing verdict says of the snapshot.
LEMMA AllowedMeans ==
    ASSUME NEW s \in Snapshots \cup {None}, NEW binding, NEW now \in Int, NEW minimum \in Nat,
           Verdict(s, binding, now, minimum) = "allowed"
    PROVE  /\ s # None /\ s.intact /\ s.binding = binding /\ minimum <= s.epoch
           /\ now < s.issuedAt + MaxLifetime
<1> USE LifetimeAssumption, ClockAssumption
<1>1. s # None /\ s.intact /\ s.binding = binding
    BY DEF Verdict
<1>2. /\ s.expiresAt - s.issuedAt \in 1..MaxLifetime
      /\ ~(s.expiresAt <= now) /\ ~(s.epoch < minimum)
    BY <1>1 DEF Verdict
<1>3. s.expiresAt \in Int /\ s.issuedAt \in Int /\ s.epoch \in Nat
    BY <1>1 DEF Snapshots
<1> QED
    BY <1>1, <1>2, <1>3

LEMMA AllowedHolds ==
    ASSUME NEW b \in Boundaries, IInv, DispatchAllowed(b)
    PROVE  IInv'
<1> USE BindingAssumption, NoneAssumption
<1> DEFINE s == prepared[b]
<1>1. /\ s # None /\ s.intact /\ s.binding = BindingOf[b] /\ known <= s.epoch
      /\ Now < s.issuedAt + MaxLifetime
    <2>1. s \in Snapshots \cup {None} /\ Now \in Int /\ known \in Nat
        BY BoundAssumption DEF IInv, TypeOK, Now
    <2> QED
        BY <2>1, AllowedMeans DEF DispatchAllowed
<1>2. s \in issued /\ s \in Snapshots
    BY <1>1 DEF IInv, PreparedInv, TypeOK
<1>3. BindingOf[b].action \in Actions
    BY DEF Bindings
<1>4. TypeOK'
    BY <1>2, <1>3, BoundAssumption DEF IInv, TypeOK, DispatchAllowed, authorityVars, Now
<1>5. AuthorityInv' /\ PreparedInv'
    BY DEF IInv, TypeOK, AuthorityInv, PreparedInv, DispatchAllowed, authorityVars
<1>6. UnusedInv' /\ HandedInv' /\ WritesInv'
    BY <1>1 DEF IInv, TypeOK, RobotInv, UnusedInv, HandedInv, WritesInv, DispatchAllowed, authorityVars
<1>7. EvidenceInv'
    BY <1>1, <1>2 DEF IInv, TypeOK, RobotInv, EvidenceInv, DispatchAllowed, authorityVars
<1> QED
    BY <1>4, <1>5, <1>6, <1>7 DEF IInv, RobotInv

LEMMA DispatcherHolds ==
    ASSUME NEW b \in Boundaries, IInv,
           Write(b) \/ DispatcherFails(b) \/ \E a \in Actions : EditOffered(b, a)
    PROVE  IInv'
<1> USE BindingAssumption, NoneAssumption
<1>1. AuthorityInv' /\ PreparedInv'
    BY DEF IInv, AuthorityInv, PreparedInv, Write, DispatcherFails, EditOffered, authorityVars
<1>2. CASE Write(b)
    <2>1. /\ handed[b] = BindingOf[b].action /\ evidence[b] # None /\ writes[b] = << >>
          /\ consumed[b]
        BY <1>2 DEF IInv, RobotInv, HandedInv, UnusedInv, Write
    <2>2. BindingOf[b].action \in Actions
        BY DEF Bindings
    <2>3. Append(writes[b], handed[b]) = <<BindingOf[b].action>>
        BY <2>1
    <2>4. /\ writes' = [writes EXCEPT ![b] = <<BindingOf[b].action>>]
          /\ handed' = [handed EXCEPT ![b] = None]
        BY <1>2, <2>3 DEF Write, WrittenAction
    <2>5. TypeOK'
        <3>1. <<BindingOf[b].action>> \in Seq(Actions)
            BY <2>2
        <3>2. writes' \in [Boundaries -> Seq(Actions)]
            BY <2>4, <3>1 DEF IInv, TypeOK
        <3>3. handed' \in [Boundaries -> Actions \cup {None}]
            BY <2>4 DEF IInv, TypeOK
        <3> QED
            BY <1>2, <3>2, <3>3 DEF IInv, TypeOK, Write, authorityVars
    <2>6. UNCHANGED <<issued, consumed, evidence, judgedAt>>
        BY <1>2 DEF Write, authorityVars
    <2>7. UnusedInv' /\ HandedInv' /\ EvidenceInv'
        BY <2>1, <2>4, <2>6 DEF IInv, TypeOK, RobotInv, UnusedInv, HandedInv, EvidenceInv
    <2>8. WritesInv'
        BY <2>1, <2>4, <2>6 DEF IInv, TypeOK, RobotInv, WritesInv
    <2> QED
        BY <1>1, <2>5, <2>7, <2>8 DEF IInv, RobotInv
<1>3. CASE ~Write(b)
    <2>1. TypeOK'
        <3>1. /\ handed' = handed \/ handed' = [handed EXCEPT ![b] = None]
              /\ offered' = offered \/ \E a \in Actions : offered' = [offered EXCEPT ![b] = a]
              /\ UNCHANGED <<authorityVars, offset, known, consumed, prepared, evidence, judgedAt, writes>>
            BY <1>3 DEF DispatcherFails, EditOffered
        <3>2. handed' \in [Boundaries -> Actions \cup {None}]
            BY <3>1 DEF IInv, TypeOK
        <3>3. offered' \in [Boundaries -> Actions \cup {None}]
            BY <3>1 DEF IInv, TypeOK
        <3> QED
            BY <3>1, <3>2, <3>3 DEF IInv, TypeOK, authorityVars
    <2>2. /\ handed' = handed \/ handed' = [handed EXCEPT ![b] = None]
          /\ UNCHANGED <<issued, consumed, evidence, judgedAt, writes>>
        BY <1>3 DEF DispatcherFails, EditOffered, authorityVars
    <2>3. UnusedInv' /\ HandedInv' /\ EvidenceInv' /\ WritesInv'
        BY <2>2 DEF IInv, TypeOK, RobotInv, UnusedInv, HandedInv, EvidenceInv, WritesInv
    <2> QED
        BY <1>1, <2>1, <2>3 DEF IInv, RobotInv
<1> QED
    BY <1>2, <1>3

LEMMA Preserved == IInv /\ [Next]_vars => IInv'
<1> SUFFICES ASSUME IInv, [Next]_vars PROVE IInv'
    OBVIOUS
<1>1. CASE UNCHANGED vars
    BY <1>1 DEF vars, IInv, TypeOK, AuthorityInv, PreparedInv, RobotInv, UnusedInv, HandedInv,
                EvidenceInv, WritesInv
<1>2. ASSUME NEW b \in Boundaries, BoundaryStep(b) PROVE IInv'
    BY <1>2, PrepareHolds, RefusalHolds, AllowedHolds, DispatcherHolds DEF BoundaryStep
<1> QED
    BY <1>1, <1>2, IssueHolds, RevokeHolds, ClocksHold DEF Next

-----------------------------------------------------------------------------
\* The inductive invariant holds in every behaviour.
THEOREM Invariance == Spec => []IInv
    BY InitHolds, Preserved, PTL DEF Spec

\* Every variable keeps its type.
THEOREM TypeCorrect == Spec => []TypeOK
<1>1. IInv => TypeOK
    BY DEF IInv
<1> QED
    BY <1>1, Invariance, PTL

\* A boundary writes at most once, for any dispatcher and any calls.
THEOREM WritesAtMostOnce == Spec => []OneWritePerBoundary
<1>1. Len(<< >>) = 0 /\ \A b \in Boundaries : Len(<<BindingOf[b].action>>) = 1
    OBVIOUS
<1>2. IInv => OneWritePerBoundary
    <2> SUFFICES ASSUME IInv, NEW b \in Boundaries PROVE Len(writes[b]) <= 1
        BY DEF OneWritePerBoundary
    <2>1. writes[b] = << >> \/ writes[b] = <<BindingOf[b].action>>
        BY DEF IInv, RobotInv, WritesInv
    <2>2. CASE writes[b] = << >>
        BY <1>1, <2>2
    <2>3. CASE writes[b] = <<BindingOf[b].action>>
        BY <1>1, <2>3
    <2> QED
        BY <2>1, <2>2, <2>3
<1> QED
    BY <1>2, Invariance, PTL

\* What is written is what the authority signed.
THEOREM WritesWhatWasSigned == Spec => []WrittenAsAuthorized
<1>1. IInv => WrittenAsAuthorized
    <2> SUFFICES ASSUME IInv, NEW b \in Boundaries, writes[b] # << >>
                 PROVE  /\ evidence[b] \in issued
                        /\ evidence[b].binding.setting = BindingOf[b].setting
                        /\ \A i \in 1..Len(writes[b]) : writes[b][i] = evidence[b].binding.action
        BY DEF WrittenAsAuthorized
    <2>1. evidence[b] \in issued /\ evidence[b].binding = BindingOf[b]
        BY DEF IInv, RobotInv, WritesInv, EvidenceInv
    <2>2. writes[b] = <<BindingOf[b].action>>
        BY DEF IInv, RobotInv, WritesInv
    <2> QED
        BY <2>1, <2>2
<1> QED
    BY <1>1, Invariance, PTL

\* A revocation takes effect within a lifetime, heard of or not.
THEOREM RevocationIsBounded == Spec => []RevocationTakesEffect
<1>1. IInv => RevocationTakesEffect
    <2> SUFFICES ASSUME IInv, NEW b \in Boundaries, evidence[b] # None,
                        NEW e \in (evidence[b].epoch + 1)..epoch
                 PROVE  judgedAt[b].now < raisedAt[e] + MaxLifetime
        BY DEF IInv, RobotInv, EvidenceInv, RevocationTakesEffect
    <2>1. evidence[b] \in issued /\ judgedAt[b].now < evidence[b].issuedAt + MaxLifetime
        BY DEF IInv, RobotInv, EvidenceInv
    <2>2. evidence[b].issuedAt <= raisedAt[e]
        BY <2>1 DEF IInv, AuthorityInv
    <2>3. /\ evidence[b].issuedAt \in Int /\ evidence[b].epoch \in Nat /\ judgedAt[b].now \in Int
          /\ raisedAt[e] \in Nat
        BY <2>1, BoundAssumption DEF IInv, TypeOK, Snapshots
    <2> QED
        BY <2>1, <2>2, <2>3, LifetimeAssumption
<1> QED
    BY <1>1, Invariance, PTL

=============================================================================
