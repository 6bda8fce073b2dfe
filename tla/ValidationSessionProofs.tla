----------------------- MODULE ValidationSessionProofs -----------------------
(***************************************************************************)
(* That the session lock keeps two validation commands apart, and that a   *)
(* session survives what is refused, killed or fails, for any number of    *)
(* commands and cases.                                                     *)
(***************************************************************************)
EXTENDS ValidationSession, FiniteSetTheorems, TLAPS

-----------------------------------------------------------------------------
(* The inductive invariant.                                                *)

\* From the opening of the lock to its release.
InsidePlaces ==
    {"writeLock", "enter", "stage", "assess", "write", "install", "check", "release"}
Places == InsidePlaces \cup {"new", "claimDead", "open", "notOwn", "putBack", "over"}
Inside(c) == pc[c] \in InsidePlaces

Types ==
    /\ pc \in [Processes -> Places] /\ pc[0] = "over"
    /\ held \in [Processes -> Processes \cup {None}]
    /\ lock \in Processes \cup {None}
    /\ written \subseteq Processes
    /\ raced \in BOOLEAN

\* Who has not started has left no lock anywhere.
NewLeftNothing ==
    \A p \in Processes : pc[p] = "new" =>
        p # lock /\ p \notin written /\ \A d \in Processes : held[d] # p

\* The lock of somebody who failed before it had content, and is gone or going.
Wreck(p, c) == p \in Processes \ written /\ (p = c \/ pc[p] = "over")

AtMostOneInside == \A c, d \in Processes : Inside(c) /\ Inside(d) => c = d

\* Who is inside holds the lock, or a wreck was put back in its place.
InsideLocked == \A c \in Processes : Inside(c) => lock = c \/ Wreck(lock, c)

\* Who takes away a dead lock is alone in it, and the lock is that one or a wreck.
DeadLockHeld ==
    \A c \in Processes : pc[c] = "claimDead" =>
        /\ lock \in Processes /\ pc[lock] = "over"
        /\ lock = held[c] \/ lock \notin written
        /\ \A d \in Processes : ~Inside(d) /\ (pc[d] = "claimDead" => d = c)

\* Nothing but a wreck is put back.
OnlyWrecksReturn ==
    \A c \in Processes : pc[c] \in {"notOwn", "putBack"} => Wreck(held[c], c)

Apart == AtMostOneInside /\ InsideLocked /\ DeadLockHeld /\ OnlyWrecksReturn

LockInv == Types /\ NewLeftNothing /\ (~raced => Apart)

USE DEF Goto

-----------------------------------------------------------------------------
(* The steps that leave the lock alone.                                    *)

\* A command that is inside and stays there disturbs nothing.
LEMMA StaysInside ==
    ASSUME LockInv, NEW c \in Commands, Inside(c),
           NEW q \in InsidePlaces, Goto(c, q),
           UNCHANGED <<lock, written, held, raced>>
    PROVE  LockInv'
<1>1. c \in Processes /\ pc[c] # "new" /\ q # "new" /\ q # "over" /\ pc[c] # "over"
  BY DEF Commands, Processes, Inside, InsidePlaces
<1>2. Types'
  BY <1>1 DEF LockInv, Types, Places
<1>3. NewLeftNothing'
  BY <1>1 DEF LockInv, Types, NewLeftNothing
<1>4. ASSUME ~raced' PROVE Apart'
  <2>1. Apart
    BY <1>4 DEF LockInv
  <2>2. \A d \in Processes : Inside(d)' <=> Inside(d)
    BY <1>1 DEF LockInv, Types, Inside
  <2>3. \A d \in Processes : d # c => pc'[d] = pc[d]
    BY DEF LockInv, Types
  <2>4. pc'[c] = q
    BY <1>1 DEF LockInv, Types
  <2>5. q \notin {"claimDead", "notOwn", "putBack"}
    BY DEF InsidePlaces
  <2>6. \A p, d \in Processes : Wreck(p, d) => Wreck(p, d)'
    BY <1>1, <2>3 DEF Wreck
  <2>7. AtMostOneInside'
    BY <2>1, <2>2 DEF Apart, AtMostOneInside
  <2>8. InsideLocked'
    BY <2>1, <2>2, <2>6 DEF Apart, InsideLocked, Wreck
  <2>9. DeadLockHeld'
    BY <1>1, <2>1, <2>2, <2>3, <2>4, <2>5 DEF Apart, DeadLockHeld
  <2>10. OnlyWrecksReturn'
    BY <1>1, <2>1, <2>3, <2>4, <2>5, <2>6 DEF Apart, OnlyWrecksReturn, Wreck
  <2> QED
    BY <2>7, <2>8, <2>9, <2>10 DEF Apart
<1> QED
  BY <1>2, <1>3, <1>4 DEF LockInv

\* What a step says of one command it leaves for the others as it was.
LEMMA Others ==
    ASSUME LockInv, NEW c \in Commands, NEW q, Goto(c, q)
    PROVE  /\ c \in Processes /\ c # 0 /\ pc'[c] = q
           /\ \A d \in Processes : d # c => pc'[d] = pc[d] /\ (Inside(d)' <=> Inside(d))
BY SessionAssumption DEF LockInv, Types, Commands, Processes, Inside

\* A wreck is still one after a step of a command that is not its owner, or that
\* ends, unless the owner writes.
LEMMA WrecksStay ==
    ASSUME LockInv, NEW c \in Commands, NEW q, Goto(c, q), pc[c] # "over",
           written' \subseteq written,
           NEW p \in Processes, NEW d \in Processes, Wreck(p, d)
    PROVE  Wreck(p, d)'
BY Others DEF Wreck

\* A command may end anywhere.
LEMMA Ends ==
    ASSUME LockInv, NEW c \in Commands, Over(c), pc[c] # "over",
           UNCHANGED <<lock, written, raced>>
    PROVE  LockInv'
<1>1. /\ c \in Processes /\ pc'[c] = "over" /\ ~Inside(c)' /\ held'[c] = None
      /\ \A d \in Processes : d # c =>
            pc'[d] = pc[d] /\ (Inside(d)' <=> Inside(d)) /\ held'[d] = held[d]
  BY Others DEF Over, Inside, InsidePlaces, LockInv, Types
<1>2. Types'
  BY <1>1 DEF LockInv, Types, Places, Over
<1>3. NewLeftNothing'
  BY <1>1, SessionAssumption DEF LockInv, NewLeftNothing
<1>4. ASSUME ~raced' PROVE Apart'
  <2>1. Apart
    BY <1>4 DEF LockInv
  <2>2. \A p, d \in Processes : Wreck(p, d) => Wreck(p, d)'
    BY <1>1 DEF Wreck
  <2>3. AtMostOneInside'
    BY <1>1, <2>1 DEF Apart, AtMostOneInside
  <2>4. InsideLocked'
    BY <1>1, <2>1, <2>2 DEF Apart, InsideLocked, Wreck
  <2>5. DeadLockHeld'
    BY <1>1, <2>1 DEF Apart, DeadLockHeld
  <2>6. OnlyWrecksReturn'
    BY <1>1, <2>1, <2>2 DEF Apart, OnlyWrecksReturn, Wreck
  <2> QED
    BY <2>3, <2>4, <2>5, <2>6 DEF Apart
<1> QED
  BY <1>2, <1>3, <1>4 DEF LockInv

\* A command that is outside may go on to the lock, or to putting a lock back.
LEMMA StaysOutside ==
    ASSUME LockInv, NEW c \in Commands,
           NEW q, Goto(c, q), UNCHANGED <<lock, written, held, raced>>,
           \/ pc[c] = "new" /\ q = "open"
           \/ pc[c] = "notOwn" /\ q = "putBack"
    PROVE  LockInv'
<1>1. /\ c \in Processes /\ pc'[c] = q /\ ~Inside(c)'
      /\ \A d \in Processes : d # c => pc'[d] = pc[d] /\ (Inside(d)' <=> Inside(d))
  BY Others DEF Inside, InsidePlaces
<1>2. Types'
  BY <1>1 DEF LockInv, Types, Places
<1>3. NewLeftNothing'
  BY <1>1 DEF LockInv, NewLeftNothing
<1>4. ASSUME ~raced' PROVE Apart'
  <2>1. Apart
    BY <1>4 DEF LockInv
  <2>2. \A p, d \in Processes : Wreck(p, d) => Wreck(p, d)'
    BY <1>1 DEF Wreck
  <2>3. AtMostOneInside'
    BY <1>1, <2>1 DEF Apart, AtMostOneInside
  <2>4. InsideLocked'
    BY <1>1, <2>1, <2>2 DEF Apart, InsideLocked, Wreck
  <2>5. DeadLockHeld'
    BY <1>1, <2>1 DEF Apart, DeadLockHeld
  <2>6. OnlyWrecksReturn'
    BY <1>1, <2>1, <2>2 DEF Apart, OnlyWrecksReturn, Wreck
  <2> QED
    BY <2>3, <2>4, <2>5, <2>6 DEF Apart
<1> QED
  BY <1>2, <1>3, <1>4 DEF LockInv

-----------------------------------------------------------------------------
(* The steps on the lock.                                                  *)

LEMMA Reading ==
    ASSUME LockInv, NEW c \in Commands, ReadDeadLock(c)
    PROVE  LockInv'
<1>1. /\ c \in Processes /\ pc[c] = "new" /\ pc'[c] = "claimDead" /\ ~Inside(c)'
      /\ \A d \in Processes : d # c =>
            pc'[d] = pc[d] /\ (Inside(d)' <=> Inside(d)) /\ held'[d] = held[d]
      /\ held'[c] = lock
  BY Others DEF ReadDeadLock, New, Inside, InsidePlaces, LockInv, Types
<1>2. lock \in Processes /\ lock \in written /\ pc[lock] = "over" /\ lock # c
  BY <1>1 DEF ReadDeadLock, Alive, LockInv, Types, NewLeftNothing
<1>3. Types'
  BY <1>1, <1>2 DEF LockInv, Types, Places, ReadDeadLock
<1>4. NewLeftNothing'
  BY <1>1 DEF LockInv, NewLeftNothing, ReadDeadLock
<1>5. ASSUME ~raced' PROVE Apart'
  <2>1. /\ Apart
        /\ \A d \in Commands : ~(pc[d] = "claimDead" /\ held[d] = lock)
    BY <1>5 DEF LockInv, ReadDeadLock
  <2>2. \A d \in Processes : ~Inside(d)
    BY <1>2, <2>1 DEF Apart, InsideLocked, Wreck, Inside, InsidePlaces
  <2>3. \A d \in Processes : pc[d] # "claimDead"
    BY <1>2, <2>1 DEF Apart, DeadLockHeld, Processes, LockInv, Types
  <2>4. \A p, d \in Processes : Wreck(p, d) => Wreck(p, d)'
    BY <1>1 DEF Wreck, ReadDeadLock
  <2>5. AtMostOneInside' /\ InsideLocked'
    BY <1>1, <2>2 DEF AtMostOneInside, InsideLocked
  <2>6. DeadLockHeld'
    BY <1>1, <1>2, <2>2, <2>3 DEF DeadLockHeld, ReadDeadLock
  <2>7. OnlyWrecksReturn'
    BY <1>1, <2>1, <2>4 DEF Apart, OnlyWrecksReturn, Wreck
  <2> QED
    BY <2>5, <2>6, <2>7 DEF Apart
<1> QED
  BY <1>3, <1>4, <1>5 DEF LockInv

\* A lock that its claimer expects: there is none then, and nobody is inside.
LEMMA ClaimingExpected ==
    ASSUME LockInv, NEW c \in Commands, pc[c] \in {"claimDead", "release"},
           NEW expected, ClaimExpected(c, expected),
           NEW q \in {"open", "over"}, Goto(c, q),
           held' = [held EXCEPT ![c] = None], raced' = raced
    PROVE  LockInv'
<1>1. /\ c \in Processes /\ pc'[c] = q /\ ~Inside(c)'
      /\ \A d \in Processes : d # c =>
            pc'[d] = pc[d] /\ (Inside(d)' <=> Inside(d)) /\ held'[d] = held[d]
  BY Others DEF Inside, InsidePlaces, LockInv, Types
<1>2. lock' = None /\ written' \subseteq written
  BY DEF ClaimExpected
<1>3. Types'
  BY <1>1, <1>2 DEF LockInv, Types, Places
<1>4. NewLeftNothing'
  BY <1>1, <1>2, SessionAssumption DEF LockInv, NewLeftNothing
<1>5. ASSUME ~raced' PROVE Apart'
  <2>1. Apart
    BY <1>5 DEF LockInv
  <2>2. \A d \in Processes : ~Inside(d)' /\ pc'[d] # "claimDead"
    BY <1>1, <2>1 DEF Apart, AtMostOneInside, DeadLockHeld, Inside, InsidePlaces
  <2>3. \A p, d \in Processes : Wreck(p, d) => Wreck(p, d)'
    BY <1>1, <1>2, WrecksStay
  <2>4. AtMostOneInside' /\ InsideLocked' /\ DeadLockHeld'
    BY <2>2 DEF AtMostOneInside, InsideLocked, DeadLockHeld
  <2>5. OnlyWrecksReturn'
    BY <1>1, <2>1, <2>3 DEF Apart, OnlyWrecksReturn, Wreck
  <2> QED
    BY <2>4, <2>5 DEF Apart
<1> QED
  BY <1>3, <1>4, <1>5 DEF LockInv

\* A lock that its claimer does not expect is a wreck.
LEMMA ClaimingOther ==
    ASSUME LockInv, NEW c \in Commands, raced' = raced,
           NEW expected, ClaimOther(c, expected),
           \/ pc[c] = "claimDead" /\ expected = held[c]
           \/ pc[c] = "release" /\ expected = c
    PROVE  LockInv'
<1>1. CASE lock = None
  BY <1>1, Ends DEF ClaimOther
<1>2. CASE lock # None
  <2>1. /\ c \in Processes /\ c # 0 /\ pc'[c] = "notOwn" /\ ~Inside(c)'
        /\ \A d \in Processes : d # c =>
              pc'[d] = pc[d] /\ (Inside(d)' <=> Inside(d)) /\ held'[d] = held[d]
        /\ held'[c] = lock /\ lock' = None /\ written' = written
    BY <1>2, Others DEF ClaimOther, Inside, InsidePlaces, LockInv, Types
  <2>2. lock \in Processes
    BY <1>2 DEF LockInv, Types
  <2>3. Types'
    <3>1. pc' \in [Processes -> Places] /\ pc'[0] = "over"
      BY <1>2, <2>1 DEF LockInv, Types, Places, ClaimOther, Processes
    <3>2. held' \in [Processes -> Processes \cup {None}]
      BY <1>2, <2>2 DEF LockInv, Types, ClaimOther
    <3> QED
      BY <2>1, <3>1, <3>2 DEF LockInv, Types
  <2>4. NewLeftNothing'
    BY <2>1, SessionAssumption DEF LockInv, NewLeftNothing
  <2>5. ASSUME ~raced' PROVE Apart'
    <3>1. Apart
      BY <2>5 DEF LockInv
    <3>2. Wreck(lock, c)
      BY <2>1, <2>2, <3>1
         DEF Apart, InsideLocked, DeadLockHeld, ClaimOther, Wreck, Inside, InsidePlaces
    <3>3. \A d \in Processes : ~Inside(d)' /\ pc'[d] # "claimDead"
      BY <2>1, <3>1 DEF Apart, AtMostOneInside, DeadLockHeld, Inside, InsidePlaces
    <3>4. \A p, d \in Processes : Wreck(p, d) => Wreck(p, d)'
      BY <2>1 DEF Wreck
    <3>5. AtMostOneInside' /\ InsideLocked' /\ DeadLockHeld'
      BY <3>3 DEF AtMostOneInside, InsideLocked, DeadLockHeld
    <3>6. OnlyWrecksReturn'
      BY <2>1, <2>2, <3>1, <3>2, <3>4 DEF Apart, OnlyWrecksReturn, Wreck
    <3> QED
      BY <3>5, <3>6 DEF Apart
  <2> QED
    BY <2>3, <2>4, <2>5 DEF LockInv
<1> QED
  BY <1>1, <1>2

LEMMA PuttingBack ==
    ASSUME LockInv, NEW c \in Commands, PutBack(c)
    PROVE  LockInv'
<1>1. /\ c \in Processes /\ pc[c] = "putBack" /\ pc'[c] = "over" /\ ~Inside(c)'
      /\ \A d \in Processes : d # c =>
            pc'[d] = pc[d] /\ (Inside(d)' <=> Inside(d)) /\ held'[d] = held[d]
      /\ lock' = held[c] /\ written' = written /\ raced' = raced
  BY Others DEF PutBack, Over, Inside, InsidePlaces, LockInv, Types
<1>2. Types'
  BY <1>1 DEF LockInv, Types, Places, PutBack, Over
<1>3. NewLeftNothing'
  BY <1>1, SessionAssumption DEF LockInv, NewLeftNothing, PutBack, Over
<1>4. ASSUME ~raced' PROVE Apart'
  <2>1. Apart
    BY <1>1, <1>4 DEF LockInv
  <2>2. lock' \in Processes \ written /\ pc'[lock'] = "over"
    BY <1>1, <2>1 DEF Apart, OnlyWrecksReturn, Wreck
  <2>3. \A p, d \in Processes : Wreck(p, d) => Wreck(p, d)'
    BY <1>1 DEF Wreck
  <2>4. AtMostOneInside'
    BY <1>1, <2>1 DEF Apart, AtMostOneInside
  <2>5. InsideLocked'
    BY <1>1, <2>2 DEF InsideLocked, Wreck
  <2>6. DeadLockHeld'
    BY <1>1, <2>1, <2>2 DEF Apart, DeadLockHeld
  <2>7. OnlyWrecksReturn'
    BY <1>1, <2>1, <2>3 DEF Apart, OnlyWrecksReturn, Wreck
  <2> QED
    BY <2>4, <2>5, <2>6, <2>7 DEF Apart
<1> QED
  BY <1>2, <1>3, <1>4 DEF LockInv

LEMMA Opening ==
    ASSUME LockInv, NEW c \in Commands, lock = None, lock' = c,
           pc[c] \in {"new", "open"}, Goto(c, "writeLock"),
           UNCHANGED <<written, held, raced>>
    PROVE  LockInv'
<1>1. /\ c \in Processes /\ pc'[c] = "writeLock" /\ Inside(c)'
      /\ \A d \in Processes : d # c => pc'[d] = pc[d] /\ (Inside(d)' <=> Inside(d))
  BY Others DEF Inside, InsidePlaces
<1>2. Types'
  BY <1>1 DEF LockInv, Types, Places, InsidePlaces
<1>3. NewLeftNothing'
  BY <1>1 DEF LockInv, NewLeftNothing
<1>4. ASSUME ~raced' PROVE Apart'
  <2>1. Apart
    BY <1>4 DEF LockInv
  <2>2. \A d \in Processes : ~Inside(d) /\ pc[d] # "claimDead"
    BY <2>1, SessionAssumption DEF Apart, InsideLocked, DeadLockHeld, Wreck
  <2>3. \A p, d \in Processes : Wreck(p, d) => Wreck(p, d)'
    BY <1>1 DEF Wreck
  <2>4. AtMostOneInside' /\ InsideLocked' /\ DeadLockHeld'
    BY <1>1, <2>2 DEF AtMostOneInside, InsideLocked, DeadLockHeld
  <2>5. OnlyWrecksReturn'
    BY <1>1, <2>1, <2>3 DEF Apart, OnlyWrecksReturn, Wreck
  <2> QED
    BY <2>4, <2>5 DEF Apart
<1> QED
  BY <1>2, <1>3, <1>4 DEF LockInv

LEMMA Writing ==
    ASSUME LockInv, NEW c \in Commands, WriteLock(c)
    PROVE  LockInv'
<1>1. /\ c \in Processes /\ pc[c] = "writeLock" /\ pc'[c] = "enter"
      /\ Inside(c) /\ Inside(c)'
      /\ \A d \in Processes : d # c => pc'[d] = pc[d] /\ (Inside(d)' <=> Inside(d))
      /\ UNCHANGED <<lock, held, raced>> /\ written' = written \cup {c}
  BY Others DEF WriteLock, Inside, InsidePlaces
<1>2. Types'
  BY <1>1 DEF LockInv, Types, Places, InsidePlaces, WriteLock
<1>3. NewLeftNothing'
  BY <1>1 DEF LockInv, NewLeftNothing
<1>4. ASSUME ~raced' PROVE Apart'
  <2>1. Apart
    BY <1>1, <1>4 DEF LockInv
  <2>2. \A p, d \in Processes : p # c /\ Wreck(p, d) => Wreck(p, d)'
    BY <1>1 DEF Wreck
  <2>3. AtMostOneInside'
    BY <1>1, <2>1 DEF Apart, AtMostOneInside
  <2>4. InsideLocked'
    BY <1>1, <2>1, <2>2 DEF Apart, AtMostOneInside, InsideLocked, Wreck
  <2>5. DeadLockHeld'
    BY <1>1, <2>1 DEF Apart, DeadLockHeld
  <2>6. OnlyWrecksReturn'
    BY <1>1, <2>1, <2>2 DEF Apart, OnlyWrecksReturn, Wreck
  <2> QED
    BY <2>3, <2>4, <2>5, <2>6 DEF Apart
<1> QED
  BY <1>2, <1>3, <1>4 DEF LockInv

-----------------------------------------------------------------------------
(* The theorem.                                                            *)

LEMMA Initial == Init => LockInv
<1> SUFFICES ASSUME Init PROVE LockInv
  OBVIOUS
<1>1. /\ \A p \in Processes : pc[p] \in {"new", "over"} /\ held[p] = None
      /\ \A p \in Processes : p # 0 => pc[p] = "new"
      /\ pc[0] = "over"
  BY DEF Init, Processes
<1>2. Types
  BY DEF Init, Types, Places, Processes
<1>3. NewLeftNothing
  BY <1>1, SessionAssumption DEF Init, NewLeftNothing
<1>4. Apart
  BY <1>1 DEF Apart, AtMostOneInside, InsideLocked, DeadLockHeld, OnlyWrecksReturn,
              Inside, InsidePlaces
<1> QED
  BY <1>2, <1>3, <1>4 DEF LockInv

\* The operations: a command that is inside stays there.
LEMMA Operations ==
    ASSUME LockInv, NEW c \in Commands,
           \/ Refuse(c) \/ InitSession(c) \/ (\E x \in Cases : StageCase(c, x))
           \/ RecordCase(c) \/ Finalize(c) \/ Verify(c) \/ RemoveTemporaryFiles(c)
           \/ Assess(c) \/ WriteTemporary(c) \/ Install(c) \/ CheckRecovered(c) \/ Fail(c)
    PROVE  LockInv'
<1>1. SUFFICES /\ Inside(c) /\ UNCHANGED <<lock, written, held, raced>>
               /\ \E q \in InsidePlaces : Goto(c, q)
  BY StaysInside
<1>2. CASE Refuse(c) \/ Verify(c) \/ RemoveTemporaryFiles(c) \/ CheckRecovered(c)
  BY <1>2 DEF Refuse, Verify, RemoveTemporaryFiles, CheckRecovered, Inside, InsidePlaces
<1>3. CASE InitSession(c) \/ RecordCase(c) \/ Finalize(c) \/ Assess(c)
  BY <1>3 DEF InitSession, RecordCase, Finalize, Assess, Begin, Inside, InsidePlaces, directory
<1>4. CASE \E x \in Cases : StageCase(c, x)
  BY <1>4 DEF StageCase, Inside, InsidePlaces
<1>5. CASE WriteTemporary(c) \/ Install(c)
  BY <1>5 DEF WriteTemporary, Install, Inside, InsidePlaces
<1>6. CASE Fail(c)
  BY <1>6 DEF Fail, Working, Inside, InsidePlaces
<1> QED
  BY <1>2, <1>3, <1>4, <1>5, <1>6

LEMMA LockActions ==
    ASSUME LockInv, NEW c \in Commands,
           \/ ReadDeadLock(c) \/ NoLockToClear(c) \/ LockNotCleared(c)
           \/ ClaimDeadLock(c) \/ FindNotOwn(c) \/ PutBack(c)
           \/ (\E command \in {"init", "record", "finalize", "verify", "recover"} :
                  OpenLock(c, command))
           \/ WriteLock(c) \/ ReleaseLock(c) \/ Killed(c)
    PROVE  LockInv'
<1>1. CASE NoLockToClear(c)
  BY <1>1, StaysOutside DEF NoLockToClear, New
<1>2. CASE LockNotCleared(c) \/ Killed(c)
  BY <1>2, Ends DEF LockNotCleared, New, Killed, Alive
<1>3. CASE ClaimDeadLock(c)
  <2>1. pc[c] = "claimDead" /\ raced' = raced
    BY <1>3 DEF ClaimDeadLock
  <2>2. CASE /\ ClaimExpected(c, held[c]) /\ Goto(c, "open")
             /\ held' = [held EXCEPT ![c] = None]
    BY <2>1, <2>2, ClaimingExpected
  <2>3. CASE ClaimOther(c, held[c])
    BY <2>1, <2>3, ClaimingOther
  <2> QED
    BY <1>3, <2>2, <2>3 DEF ClaimDeadLock
<1>4. CASE FindNotOwn(c)
  BY <1>4, StaysOutside, Ends DEF FindNotOwn
<1>5. CASE \E command \in {"init", "record", "finalize", "verify", "recover"} :
              OpenLock(c, command)
  <2>1. PICK command : OpenLock(c, command)
    BY <1>5
  <2>2. pc[c] \in {"new", "open"} /\ written' = written /\ raced' = raced
    BY <2>1 DEF OpenLock, AtTheLock, New
  <2>3. CASE lock = None
    BY <2>1, <2>2, <2>3, Opening DEF OpenLock
  <2>4. CASE lock # None
    BY <2>1, <2>2, <2>4, Ends DEF OpenLock
  <2> QED
    BY <2>3, <2>4
<1>6. CASE ReleaseLock(c)
  <2>1. pc[c] = "release" /\ raced' = raced
    BY <1>6 DEF ReleaseLock
  <2>2. CASE ClaimExpected(c, c) /\ Over(c)
    BY <2>1, <2>2, ClaimingExpected DEF Over
  <2>3. CASE ClaimOther(c, c)
    BY <2>1, <2>3, ClaimingOther
  <2> QED
    BY <1>6, <2>2, <2>3 DEF ReleaseLock
<1> QED
  BY <1>1, <1>2, <1>3, <1>4, <1>5, <1>6, Reading, PuttingBack, Writing

LEMMA Preserved == LockInv /\ [Next]_vars => LockInv'
<1>1. ASSUME LockInv, NEW c \in Commands, Step(c) PROVE LockInv'
  BY <1>1, Operations, LockActions DEF Step
<1>2. ASSUME LockInv, UNCHANGED vars PROVE LockInv'
  BY <1>2 DEF vars, LockInv, Types, NewLeftNothing, Apart, AtMostOneInside, InsideLocked,
              DeadLockHeld, OnlyWrecksReturn, Wreck, Inside
<1> QED
  BY <1>1, <1>2 DEF Next

\* What the lock protocol keeps true of every behaviour.
THEOREM LockInvariance == Spec => []LockInv
  BY Initial, Preserved, PTL DEF Spec

\* Two commands never work in one session, however many there are and whichever
\* are killed or fail, unless two recoveries were after the same dead lock.
THEOREM SessionIsExclusive == Spec => []OneCommandAtWork
<1>1. LockInv => OneCommandAtWork
  <2> SUFFICES ASSUME LockInv, ~raced PROVE Cardinality({c \in Commands : Working(c)}) <= 1
    BY DEF OneCommandAtWork
  <2> DEFINE S == {c \in Commands : Working(c)}
  <2>1. \A c, d \in S : c = d
    BY DEF LockInv, Apart, AtMostOneInside, Inside, InsidePlaces, Working, Processes
  <2>2. CASE S = {}
    BY <2>2, FS_EmptySet
  <2>3. CASE S # {}
    <3>1. PICK c \in S : S = {c}
      BY <2>1, <2>3
    <3> QED
      BY <3>1, FS_Singleton
  <2> QED
    BY <2>2, <2>3
<1> QED
  BY <1>1, LockInvariance, PTL

-----------------------------------------------------------------------------
(* What is in the directory, whoever works there and however many at once. *)

Targets == Docs \cup {"result", "manifest", "sums"}
Statuses == {"PENDING", "COLLECTED"}

\* What a command may still have to write.
Todos ==
    {<<>>, <<"sums">>, <<"manifest", "sums">>, <<"result", "manifest", "sums">>,
     <<"procedure", "manifest", "sums">>, <<"session", "procedure", "manifest", "sums">>}

Sums == [files : FileSets \cup {None}, of : Manifests \cup {None}]

Jobs ==
    [command : {"none", "init", "record", "finalize", "verify", "recover"},
     todo : Todos, case : Cases \cup {None}, status : Statuses \cup {"none"},
     files : FileSets \cup {None}, content : Manifests \cup Sums \cup {None}]

FileTypes ==
    /\ docs \in SUBSET Docs /\ cases \in [Cases -> {"absent", "sound", "unsound"}]
    /\ result \in BOOLEAN /\ temps \in SUBSET Commands
    /\ manifest \in Manifests \cup {None}
    /\ job \in [Processes -> Jobs]

IsWriting(c) == pc[c] \in {"write", "install"}

\* Who writes knows what and, of the manifest, with which content.
JobType(c) ==
    /\ IsWriting(c) => job[c].todo # <<>> /\ job[c].status \in Statuses
    /\ pc[c] = "stage" => job[c].case \in Cases
    /\ pc[c] = "install" /\ Head(job[c].todo) = "manifest" =>
          /\ job[c].files \in FileSets
          /\ job[c].content = [status |-> job[c].status, files |-> job[c].files, by |-> c]

\* Who writes a result has seen every case, who writes a manifest that calls the
\* session collected, a result.
Knows(c) ==
    IsWriting(c) =>
        /\ Head(job[c].todo) = "result" => Complete
        /\ job[c].status = "COLLECTED" => result \/ Head(job[c].todo) = "result"

ResultComplete == result => Complete
CollectedHasResult == manifest # None /\ manifest.status = "COLLECTED" => result

FilesInv ==
    /\ FileTypes /\ ResultComplete /\ CollectedHasResult
    /\ \A c \in Commands : JobType(c) /\ Knows(c)

\* The order in which files are written.
LEMMA Order ==
    ASSUME NEW t \in Todos, t # <<>>
    PROVE  /\ Head(t) \in Targets /\ Tail(t) \in Todos
           /\ Head(t) = "sums" <=> t = <<"sums">>
           /\ Tail(t) = <<>> <=> t = <<"sums">>
           /\ Tail(t) = <<"sums">> <=> Head(t) = "manifest"
           /\ Tail(t) # <<>> => Head(Tail(t)) # "result"
<1>1. /\ Head(<<"sums">>) = "sums" /\ Tail(<<"sums">>) = <<>>
      /\ Head(<<"manifest", "sums">>) = "manifest" /\ Tail(<<"manifest", "sums">>) = <<"sums">>
      /\ Head(<<"result", "manifest", "sums">>) = "result"
      /\ Tail(<<"result", "manifest", "sums">>) = <<"manifest", "sums">>
      /\ Head(<<"procedure", "manifest", "sums">>) = "procedure"
      /\ Tail(<<"procedure", "manifest", "sums">>) = <<"manifest", "sums">>
      /\ Head(<<"session", "procedure", "manifest", "sums">>) = "session"
      /\ Tail(<<"session", "procedure", "manifest", "sums">>)
            = <<"procedure", "manifest", "sums">>
  OBVIOUS
<1>2. CASE t = <<"sums">>
  BY <1>1, <1>2 DEF Todos, Targets
<1>3. CASE t = <<"manifest", "sums">>
  BY <1>1, <1>3 DEF Todos, Targets
<1>4. CASE t = <<"result", "manifest", "sums">>
  BY <1>1, <1>4 DEF Todos, Targets
<1>5. CASE t = <<"procedure", "manifest", "sums">>
  BY <1>1, <1>5 DEF Todos, Targets, Docs
<1>6. CASE t = <<"session", "procedure", "manifest", "sums">>
  BY <1>1, <1>6 DEF Todos, Targets, Docs
<1> QED
  BY <1>2, <1>3, <1>4, <1>5, <1>6 DEF Todos

\* What a command writes to its own job it writes to nothing else.
LEMMA JobsOfOthers ==
    ASSUME LockInv, FilesInv, NEW c \in Commands, NEW q, Goto(c, q)
    PROVE  /\ c \in Processes /\ pc'[c] = q /\ job[c] \in Jobs
           /\ \A d \in Commands : d # c => d \in Processes /\ pc'[d] = pc[d]
BY DEF LockInv, Types, FilesInv, FileTypes, Commands, Processes

\* A step of c keeps the invariant if it loses nothing and its own job is right.
LEMMA FilesStay ==
    ASSUME LockInv, FilesInv, NEW c \in Commands, NEW q, Goto(c, q),
           FileTypes', \A d \in Commands : d # c => job'[d] = job[d],
           result => result', Complete => Complete', result' => Complete',
           CollectedHasResult', JobType(c)', Knows(c)'
    PROVE  FilesInv'
<1>1. ASSUME NEW d \in Commands, d # c PROVE JobType(d)' /\ Knows(d)'
  <2>1. pc'[d] = pc[d] /\ job'[d] = job[d]
    BY <1>1, JobsOfOthers
  <2>2. JobType(d) /\ Knows(d)
    BY DEF FilesInv
  <2>3. JobType(d)'
    BY <2>1, <2>2 DEF JobType, IsWriting
  <2>4. Knows(d)'
    BY <2>1, <2>2 DEF Knows, IsWriting
  <2> QED
    BY <2>3, <2>4
<1> QED
  BY <1>1 DEF FilesInv, ResultComplete

\* The steps that leave the directory alone, and after which c is not at work on
\* it: its job is none, the same, or has been named.
LEMMA FilesUntouched ==
    ASSUME LockInv, FilesInv, NEW c \in Commands, NEW q, Goto(c, q),
           q \notin {"stage", "write", "install"}, UNCHANGED directory,
           \/ job' = job \/ job' = [job EXCEPT ![c] = NoJob]
           \/ \E command \in {"init", "record", "finalize", "verify", "recover"} :
                 job' = [job EXCEPT ![c].command = command]
    PROVE  FilesInv'
<1>1. /\ c \in Processes /\ pc'[c] = q /\ job[c] \in Jobs
      /\ job \in [Processes -> Jobs]
  BY JobsOfOthers DEF FilesInv, FileTypes
<1>2. NoJob \in Jobs
  BY DEF NoJob, Jobs, Todos
<1>3. job' \in [Processes -> Jobs]
  <2>1. CASE \E command \in {"init", "record", "finalize", "verify", "recover"} :
                 job' = [job EXCEPT ![c].command = command]
    <3>1. PICK command \in {"init", "record", "finalize", "verify", "recover"} :
                 job' = [job EXCEPT ![c].command = command]
      BY <2>1
    <3>2. [job[c] EXCEPT !.command = command] \in Jobs
      BY <1>1 DEF Jobs
    <3> QED
      BY <1>1, <3>1, <3>2
  <2> QED
    BY <1>1, <1>2, <2>1
<1>4. FileTypes'
  BY <1>3 DEF FilesInv, FileTypes, directory
<1>5. \A d \in Commands : d # c => job'[d] = job[d]
  BY <1>1 DEF Commands, Processes
<1>6. /\ Complete' <=> Complete
      /\ result' = result
  BY DEF Complete, Recorded, AllSound, directory
<1>7. CollectedHasResult'
  BY DEF FilesInv, CollectedHasResult, directory
<1>8. JobType(c)' /\ Knows(c)'
  BY <1>1 DEF JobType, Knows, IsWriting
<1> QED
  BY <1>4, <1>5, <1>6, <1>7, <1>8, FilesStay DEF FilesInv, ResultComplete

\* A command begins to write.
LEMMA FilesBegun ==
    ASSUME LockInv, FilesInv, NEW c \in Commands,
           NEW todo \in Todos \ {<<>>}, NEW status \in Statuses, Begin(c, todo, status),
           UNCHANGED <<docs, result, manifest, sums, temps>>,
           cases' \in [Cases -> {"absent", "sound", "unsound"}],
           Complete => Complete',
           Head(todo) = "result" => Complete',
           status = "COLLECTED" => result \/ Head(todo) = "result"
    PROVE  FilesInv'
<1>1. /\ c \in Processes /\ pc'[c] = "write" /\ job[c] \in Jobs /\ Goto(c, "write")
      /\ job \in [Processes -> Jobs]
  BY JobsOfOthers DEF FilesInv, FileTypes, Begin
<1>2. /\ job'[c] = [job[c] EXCEPT !.todo = todo, !.status = status]
      /\ job' \in [Processes -> Jobs]
      /\ job'[c].todo = todo /\ job'[c].status = status
  BY <1>1 DEF Begin, Jobs
<1>3. FileTypes'
  BY <1>2 DEF FilesInv, FileTypes
<1>4. \A d \in Commands : d # c => job'[d] = job[d]
  BY <1>1 DEF Begin, Commands, Processes
<1>5. CollectedHasResult'
  BY DEF FilesInv, CollectedHasResult
<1>6. JobType(c)' /\ Knows(c)'
  BY <1>1, <1>2 DEF JobType, Knows, IsWriting
<1> QED
  BY <1>1, <1>3, <1>4, <1>5, <1>6, FilesStay DEF FilesInv, ResultComplete

LEMMA FilesBeginning ==
    ASSUME LockInv, FilesInv, NEW c \in Commands,
           InitSession(c) \/ Finalize(c) \/ Assess(c)
    PROVE  FilesInv'
<1>1. UNCHANGED cases => (Complete' <=> Complete)
  BY DEF Complete, Recorded, AllSound
<1>2. cases \in [Cases -> {"absent", "sound", "unsound"}] /\ result \in BOOLEAN
  BY DEF FilesInv, FileTypes
<1>3. CASE InitSession(c)
  <2> DEFINE todo == <<"session", "procedure", "manifest", "sums">>
  <2>1. todo \in Todos \ {<<>>} /\ Head(todo) = "session" /\ "PENDING" \in Statuses
    BY DEF Todos, Statuses
  <2>2. Begin(c, todo, "PENDING") /\ UNCHANGED directory
    BY <1>3 DEF InitSession
  <2> HIDE DEF todo
  <2> QED
    BY <1>1, <1>2, <2>1, <2>2, FilesBegun DEF directory
<1>4. CASE Finalize(c)
  <2> DEFINE todo == <<"result", "manifest", "sums">>
  <2>1. todo \in Todos \ {<<>>} /\ Head(todo) = "result" /\ "COLLECTED" \in Statuses
    BY DEF Todos, Statuses
  <2>2. Begin(c, todo, "COLLECTED") /\ UNCHANGED directory /\ Complete
    BY <1>4 DEF Finalize
  <2> HIDE DEF todo
  <2> QED
    BY <1>1, <1>2, <2>1, <2>2, FilesBegun DEF directory
<1>5. CASE Assess(c)
  <2> DEFINE todo == <<"manifest", "sums">>
             status == IF result THEN "COLLECTED" ELSE "PENDING"
  <2>1. /\ todo \in Todos \ {<<>>} /\ Head(todo) = "manifest"
        /\ status \in Statuses /\ (status = "COLLECTED" => result)
    BY DEF Todos, Statuses
  <2>2. Begin(c, todo, status) /\ UNCHANGED directory
    BY <1>5 DEF Assess
  <2> HIDE DEF todo, status
  <2> QED
    BY <1>1, <1>2, <2>1, <2>2, FilesBegun DEF directory
<1> QED
  BY <1>3, <1>4, <1>5

\* A case is recorded while one is missing, and so before there is a result.
LEMMA FilesRecorded ==
    ASSUME LockInv, FilesInv, NEW c \in Commands, RecordCase(c)
    PROVE  FilesInv'
<1> DEFINE todo == <<"manifest", "sums">>
           x == job[c].case
<1>1. todo \in Todos \ {<<>>} /\ Head(todo) = "manifest" /\ "PENDING" \in Statuses
  BY DEF Todos, Statuses
<1>2. x \in Cases /\ cases[x] = "absent"
  BY DEF RecordCase, FilesInv, JobType
<1>3. ~Complete
  BY <1>2 DEF Complete, Recorded
<1>4. cases' \in [Cases -> {"absent", "sound", "unsound"}]
  BY <1>2 DEF RecordCase, FilesInv, FileTypes
<1>5. Begin(c, todo, "PENDING") /\ UNCHANGED <<docs, result, manifest, sums, temps>>
  BY DEF RecordCase
<1> HIDE DEF todo
<1> QED
  BY <1>1, <1>3, <1>4, <1>5, FilesBegun

LEMMA FilesStaged ==
    ASSUME LockInv, FilesInv, NEW c \in Commands, NEW x \in Cases, StageCase(c, x)
    PROVE  FilesInv'
<1>1. /\ c \in Processes /\ pc'[c] = "stage" /\ job[c] \in Jobs /\ Goto(c, "stage")
      /\ job \in [Processes -> Jobs]
  BY JobsOfOthers DEF FilesInv, FileTypes, StageCase
<1>2. job' \in [Processes -> Jobs] /\ job'[c].case = x
  BY <1>1 DEF StageCase, Jobs
<1>3. FileTypes'
  BY <1>2 DEF FilesInv, FileTypes, StageCase, directory
<1>4. \A d \in Commands : d # c => job'[d] = job[d]
  BY <1>1 DEF StageCase, Commands, Processes
<1>5. CollectedHasResult' /\ result' = result /\ (Complete' <=> Complete)
  BY DEF FilesInv, CollectedHasResult, StageCase, directory, Complete, Recorded, AllSound
<1>6. JobType(c)' /\ Knows(c)'
  BY <1>1, <1>2 DEF JobType, Knows, IsWriting
<1> QED
  BY <1>1, <1>3, <1>4, <1>5, <1>6, FilesStay DEF FilesInv, ResultComplete

\* The list of the files, as it is, is one of those a manifest may have.
LEMMA FilesTyped == ASSUME FileTypes PROVE Files \in FileSets
BY DEF FileTypes, Files, FileSets, Recorded

LEMMA FilesWrittenAside ==
    ASSUME LockInv, FilesInv, NEW c \in Commands, WriteTemporary(c)
    PROVE  FilesInv'
<1> DEFINE target == Head(job[c].todo)
           files == IF target = "manifest" THEN Files ELSE job[c].files
           content == CASE target = "manifest" ->
                             [status |-> job[c].status, files |-> files, by |-> c]
                        [] target = "sums" -> [files |-> files, of |-> manifest]
                        [] OTHER -> None
<1>1. /\ c \in Processes /\ pc[c] = "write" /\ pc'[c] = "install" /\ job[c] \in Jobs
      /\ Goto(c, "install") /\ job \in [Processes -> Jobs]
  BY JobsOfOthers DEF FilesInv, FileTypes, WriteTemporary
<1>2. job' = [job EXCEPT ![c].files = files, ![c].content = content]
  BY DEF WriteTemporary
<1>3. /\ job[c].status \in Statuses /\ job[c].todo # <<>> /\ job[c].todo \in Todos
      /\ Files \in FileSets /\ job[c].files \in FileSets \cup {None}
      /\ manifest \in Manifests \cup {None}
  BY <1>1, FilesTyped DEF FilesInv, JobType, IsWriting, Jobs, FileTypes
<1>4. files \in FileSets \cup {None}
  BY <1>3
<1>5. content \in Manifests \cup Sums \cup {None}
  <2>1. CASE target = "manifest"
    BY <1>1, <1>3, <2>1 DEF Manifests, Statuses
  <2>2. CASE target = "sums"
    BY <1>3, <1>4, <2>2 DEF Sums
  <2>3. CASE target \notin {"manifest", "sums"}
    BY <2>3
  <2> QED
    BY <2>1, <2>2, <2>3
<1>6. target = "manifest" =>
         files \in FileSets /\ content = [status |-> job[c].status, files |-> files, by |-> c]
  BY <1>3
<1> HIDE DEF files, content
<1>7. job'[c] = [job[c] EXCEPT !.files = files, !.content = content]
  BY <1>1, <1>2
<1>8. job'[c] \in Jobs
  BY <1>1, <1>4, <1>5, <1>7 DEF Jobs
<1>9. /\ job'[c].todo = job[c].todo /\ job'[c].status = job[c].status
      /\ job'[c].files = files /\ job'[c].content = content
  BY <1>1, <1>7 DEF Jobs
<1>10. \A d \in Commands : d # c => job'[d] = job[d]
  BY <1>1, <1>2 DEF Commands, Processes
<1>11. job' \in [Processes -> Jobs]
  BY <1>1, <1>2, <1>7, <1>8
<1>12. FileTypes'
  BY <1>11 DEF FilesInv, FileTypes, WriteTemporary
<1>13. CollectedHasResult' /\ result' = result /\ (Complete' <=> Complete)
  BY DEF FilesInv, CollectedHasResult, WriteTemporary, Complete, Recorded, AllSound
<1>14. JobType(c)'
  BY <1>1, <1>3, <1>6, <1>9 DEF JobType, IsWriting
<1>15. Knows(c)'
  BY <1>1, <1>9, <1>13 DEF Knows, IsWriting, FilesInv
<1> QED
  BY <1>1, <1>10, <1>12, <1>13, <1>14, <1>15, FilesStay DEF FilesInv, ResultComplete

\* The result is renamed into the session when every case is there, and the
\* manifest that calls it collected when the result is.
LEMMA FilesInstalled ==
    ASSUME LockInv, FilesInv, NEW c \in Commands, Install(c)
    PROVE  FilesInv'
<1> DEFINE target == Head(job[c].todo)
           todo == Tail(job[c].todo)
           q == IF todo # <<>> THEN "write"
                ELSE IF job[c].command = "recover" THEN "check" ELSE "release"
<1>1. /\ c \in Processes /\ pc[c] = "install" /\ job[c] \in Jobs
      /\ Goto(c, q) /\ job \in [Processes -> Jobs] /\ pc'[c] = q
  BY JobsOfOthers DEF FilesInv, FileTypes, Install
<1>2. /\ docs' = docs \cup ({target} \cap Docs)
      /\ result' = (result \/ target = "result")
      /\ manifest' = IF target = "manifest" THEN job[c].content ELSE manifest
      /\ job' = [job EXCEPT ![c].todo = todo, ![c].content = None]
      /\ temps' = temps \ {c} /\ cases' = cases
  BY DEF Install
<1>3. /\ job[c].todo \in Todos /\ job[c].todo # <<>> /\ job[c].status \in Statuses
      /\ target = "manifest" =>
            /\ job[c].files \in FileSets
            /\ job[c].content = [status |-> job[c].status, files |-> job[c].files, by |-> c]
      /\ target = "result" => Complete
      /\ job[c].status = "COLLECTED" => result \/ target = "result"
  BY <1>1 DEF FilesInv, JobType, Knows, IsWriting, Jobs
<1>4. todo \in Todos /\ (todo # <<>> => Head(todo) # "result")
  BY <1>3, Order
<1>q. q \in {"write", "check", "release"} /\ (q = "write" => todo # <<>>)
  OBVIOUS
<1> HIDE DEF target, todo, q
<1>5. /\ job'[c] = [job[c] EXCEPT !.todo = todo, !.content = None]
      /\ \A d \in Processes : d # c => job'[d] = job[d]
      /\ DOMAIN job' = Processes
  BY <1>1, <1>2
<1>6. job'[c] \in Jobs /\ job'[c].todo = todo /\ job'[c].status = job[c].status
  BY <1>1, <1>4, <1>5 DEF Jobs
<1>7. job' \in [Processes -> Jobs]
  BY <1>1, <1>2, <1>5, <1>6
<1>8. /\ result' \in BOOLEAN /\ (result => result')
      /\ target = "result" => result'
  BY <1>2 DEF FilesInv, FileTypes
<1>9. Complete' <=> Complete
  BY <1>2 DEF Complete, Recorded, AllSound
<1>10. target = "manifest" => job[c].content \in Manifests
  BY <1>1, <1>3 DEF Manifests, Statuses
<1>11. manifest' \in Manifests \cup {None}
  BY <1>2, <1>10 DEF FilesInv, FileTypes
<1>12. FileTypes'
  BY <1>2, <1>7, <1>8, <1>11 DEF FilesInv, FileTypes
<1>13. ResultComplete'
  BY <1>2, <1>3, <1>9 DEF FilesInv, ResultComplete
<1>14. CollectedHasResult'
  BY <1>2, <1>3, <1>8 DEF FilesInv, CollectedHasResult
<1>15. JobType(c)'
  BY <1>1, <1>3, <1>6, <1>q DEF JobType, IsWriting
<1>16. Knows(c)'
  BY <1>1, <1>3, <1>4, <1>6, <1>8, <1>q DEF Knows, IsWriting
<1>17. \A d \in Commands : d # c => job'[d] = job[d]
  BY <1>5 DEF Commands, Processes
<1> QED
  BY <1>1, <1>8, <1>9, <1>12, <1>13, <1>14, <1>15, <1>16, <1>17, FilesStay
     DEF ResultComplete

\* Temporary files are removed.
LEMMA FilesTidied ==
    ASSUME LockInv, FilesInv, NEW c \in Commands, RemoveTemporaryFiles(c) \/ Fail(c)
    PROVE  FilesInv'
<1>1. /\ UNCHANGED <<docs, cases, result, manifest, job>>
      /\ temps' \in SUBSET Commands
      /\ \E q \in {"assess", "release"} : Goto(c, q)
  BY DEF RemoveTemporaryFiles, Fail, FilesInv, FileTypes
<1>2. PICK q \in {"assess", "release"} : Goto(c, q)
  BY <1>1
<1>3. c \in Processes /\ pc'[c] = q
  BY <1>2, JobsOfOthers
<1>4. FileTypes' /\ CollectedHasResult' /\ (Complete' <=> Complete)
  BY <1>1 DEF FilesInv, FileTypes, CollectedHasResult, Complete, Recorded, AllSound
<1>5. JobType(c)' /\ Knows(c)'
  BY <1>3 DEF JobType, Knows, IsWriting
<1> QED
  BY <1>1, <1>2, <1>4, <1>5, FilesStay DEF FilesInv, ResultComplete

-----------------------------------------------------------------------------
(* What is in the directory when one command at a time works there.        *)

\* The lock file is of who is inside, or of one of those who were killed.
LeftLock == lock \in written => Inside(lock) \/ (pc[lock] = "over" /\ lock \in upset)

\* The list of the files without temporary ones.
Clean == [docs |-> docs, cases |-> Recorded, result |-> result, temps |-> {}]

Settled == temps = {} /\ (docs # {} => Verified(manifest.status))

NoTemporaryListed == manifest # None => manifest.files.temps = {}

\* Between writers, if nobody was killed or failed.
AtRest == upset = {} /\ (\A c \in Commands : ~IsWriting(c)) => Settled

\* What c lists and writes is what is there.
Ordered(c) ==
    /\ pc[c] \in {"stage", "write", "check"} => temps = {}
    /\ pc[c] = "install" => temps \subseteq {c}
    /\ IsWriting(c) /\ job[c].todo = <<"sums">> =>
          /\ job[c].files = Clean
          /\ manifest = [status |-> job[c].status, files |-> job[c].files, by |-> c]
    /\ pc[c] = "install" /\ Head(job[c].todo) = "manifest" => job[c].files = Clean
    /\ pc[c] = "install" /\ Head(job[c].todo) = "sums" =>
          job[c].content = [files |-> job[c].files, of |-> manifest]

RestInv ==
    ~raced => LeftLock /\ NoTemporaryListed /\ AtRest /\ \A c \in Commands : Ordered(c)

SessionInv == LockInv /\ FilesInv /\ RestInv

\* Neither the lock's steps, nor a refusal or a verification, touch the directory.
Aside(c) ==
    /\ UNCHANGED directory
    /\ \E q \in Places \ {"stage", "write", "install", "check"} : Goto(c, q)
    /\ \/ job' = job \/ job' = [job EXCEPT ![c] = NoJob]
       \/ \E command \in {"init", "record", "finalize", "verify", "recover"} :
             job' = [job EXCEPT ![c].command = command]
    /\ raced => raced'
    /\ upset' = upset \cup {c} \/ (upset' = upset /\ ~IsWriting(c))

LEMMA AsideSteps ==
    ASSUME LockInv, NEW c \in Commands,
           \/ ReadDeadLock(c) \/ NoLockToClear(c) \/ LockNotCleared(c)
           \/ ClaimDeadLock(c) \/ FindNotOwn(c) \/ PutBack(c)
           \/ (\E command \in {"init", "record", "finalize", "verify", "recover"} :
                  OpenLock(c, command))
           \/ WriteLock(c) \/ ReleaseLock(c) \/ Killed(c) \/ Refuse(c) \/ Verify(c)
    PROVE  Aside(c)
<1> USE DEF Places, InsidePlaces, IsWriting
<1>1. CASE ReadDeadLock(c) \/ NoLockToClear(c) \/ LockNotCleared(c)
  BY <1>1 DEF ReadDeadLock, NoLockToClear, LockNotCleared, Over, New, Aside, LockInv, Types
<1>2. CASE ClaimDeadLock(c)
  BY <1>2 DEF ClaimDeadLock, ClaimOther, Over, Aside
<1>3. CASE FindNotOwn(c) \/ PutBack(c)
  BY <1>3 DEF FindNotOwn, PutBack, Over, Aside
<1>4. CASE \E command \in {"init", "record", "finalize", "verify", "recover"} :
              OpenLock(c, command)
  <2>1. PICK command \in {"init", "record", "finalize", "verify", "recover"} :
            OpenLock(c, command)
    BY <1>4
  <2>2. ~IsWriting(c)
    BY <2>1 DEF OpenLock, AtTheLock, New
  <2> QED
    BY <2>1, <2>2 DEF OpenLock, Over, Aside
<1>5. CASE WriteLock(c) \/ Refuse(c) \/ Verify(c)
  BY <1>5 DEF WriteLock, Refuse, Verify, Aside
<1>6. CASE ReleaseLock(c)
  BY <1>6 DEF ReleaseLock, ClaimOther, Over, Aside
<1>7. CASE Killed(c)
  BY <1>7 DEF Killed, Over, Aside
<1> QED
  BY <1>1, <1>2, <1>3, <1>4, <1>5, <1>6, <1>7

LEMMA FilesPreserved == ASSUME LockInv, FilesInv, [Next]_vars PROVE FilesInv'
<1>1. ASSUME NEW c \in Commands, Aside(c) PROVE FilesInv'
  BY <1>1, FilesUntouched DEF Aside
<1>2. ASSUME NEW c \in Commands, CheckRecovered(c) PROVE FilesInv'
  <2>1. Goto(c, "release") /\ UNCHANGED directory /\ job' = job
    BY <1>2 DEF CheckRecovered
  <2> QED
    BY <2>1, FilesUntouched
<1>3. ASSUME NEW c \in Commands, Step(c) PROVE FilesInv'
  BY <1>1, <1>2, <1>3, AsideSteps, FilesBeginning, FilesRecorded, FilesStaged,
     FilesWrittenAside, FilesInstalled, FilesTidied DEF Step
<1>4. ASSUME UNCHANGED vars PROVE FilesInv'
  BY <1>4 DEF vars, directory, FilesInv, FileTypes, ResultComplete, CollectedHasResult,
              JobType, Knows, IsWriting, Complete, Recorded, AllSound
<1> QED
  BY <1>3, <1>4 DEF Next

LEMMA FilesInitial == Init => FilesInv
<1> SUFFICES ASSUME Init PROVE FilesInv
  OBVIOUS
<1>1. \A c \in Commands : pc[c] = "new" /\ job[c] = NoJob
  BY SessionAssumption DEF Init, Commands, Processes
<1>2. /\ docs \in SUBSET Docs /\ cases \in [Cases -> {"absent", "sound", "unsound"}]
      /\ result = FALSE /\ temps = {} /\ temps \in SUBSET Commands
  BY DEF Init
<1>3. Files \in FileSets
  BY <1>2 DEF Files, FileSets, Recorded
<1>4. manifest \in Manifests \cup {None} /\ (manifest # None => manifest.status = "PENDING")
  BY <1>3 DEF Init, Manifests, Processes
<1>5. NoJob \in Jobs
  BY DEF NoJob, Jobs, Todos
<1>6. FileTypes
  BY <1>2, <1>4, <1>5 DEF FileTypes, Init
<1>7. ResultComplete /\ CollectedHasResult
  BY <1>2, <1>4 DEF ResultComplete, CollectedHasResult
<1>8. \A c \in Commands : JobType(c) /\ Knows(c)
  BY <1>1 DEF JobType, Knows, IsWriting
<1> QED
  BY <1>6, <1>7, <1>8 DEF FilesInv

-----------------------------------------------------------------------------
(* That the lock file is of who is inside, or of somebody who was killed.  *)

\* A step that leaves the lock file alone, and after which c, if it was inside,
\* is still inside, or has been killed.
LEMMA LockFileStays ==
    ASSUME LockInv, LeftLock, NEW c \in Commands, NEW q, Goto(c, q), pc[c] # "over",
           UNCHANGED <<lock, written>>, upset \subseteq upset',
           Inside(c) => q \in InsidePlaces \/ (q = "over" /\ c \in upset')
    PROVE  LeftLock'
<1>1. /\ c \in Processes /\ pc'[c] = q /\ written \subseteq Processes
      /\ \A d \in Processes : d # c => pc'[d] = pc[d] /\ (Inside(d)' <=> Inside(d))
  BY Others DEF LockInv, Types
<1>2. CASE lock = c
  BY <1>1, <1>2 DEF LeftLock, Inside
<1>3. CASE lock # c
  BY <1>1, <1>3 DEF LeftLock
<1> QED
  BY <1>2, <1>3

LEMMA LeftLockKept ==
    ASSUME LockInv, LeftLock, NEW c \in Commands, Step(c), ~raced, ~raced'
    PROVE  LeftLock'
<1>1. c \in Processes /\ Apart /\ written \subseteq Processes
  BY DEF LockInv, Types, Commands, Processes
<1>2. CASE \/ Refuse(c) \/ InitSession(c) \/ (\E x \in Cases : StageCase(c, x))
           \/ RecordCase(c) \/ Finalize(c) \/ Verify(c) \/ RemoveTemporaryFiles(c)
           \/ Assess(c) \/ WriteTemporary(c) \/ Install(c) \/ Fail(c)
  <2>1. /\ UNCHANGED <<lock, written>> /\ upset \subseteq upset' /\ Inside(c)
        /\ \E q \in InsidePlaces : Goto(c, q)
    <3>1. CASE Refuse(c) \/ Verify(c) \/ RemoveTemporaryFiles(c) \/ Fail(c)
      BY <3>1 DEF Refuse, Verify, RemoveTemporaryFiles, Fail, Working, Inside, InsidePlaces
    <3>2. CASE InitSession(c) \/ RecordCase(c) \/ Finalize(c) \/ Assess(c)
      BY <3>2 DEF InitSession, RecordCase, Finalize, Assess, Begin, Inside, InsidePlaces
    <3>3. CASE \E x \in Cases : StageCase(c, x)
      BY <3>3 DEF StageCase, Inside, InsidePlaces
    <3>4. CASE WriteTemporary(c) \/ Install(c)
      BY <3>4 DEF WriteTemporary, Install, Inside, InsidePlaces
    <3> QED
      BY <1>2, <3>1, <3>2, <3>3, <3>4
  <2>2. pc[c] # "over"
    BY <2>1 DEF Inside, InsidePlaces
  <2> QED
    BY <2>1, <2>2, LockFileStays
<1>3. CASE ReadDeadLock(c) \/ NoLockToClear(c) \/ LockNotCleared(c) \/ FindNotOwn(c)
  <2>1. /\ UNCHANGED <<lock, written, upset>> /\ ~Inside(c) /\ pc[c] # "over"
        /\ \E q : Goto(c, q)
    BY <1>3 DEF ReadDeadLock, NoLockToClear, LockNotCleared, FindNotOwn, New, Over,
                Inside, InsidePlaces
  <2> QED
    BY <2>1, LockFileStays
<1>4. CASE Killed(c)
  BY <1>4, LockFileStays DEF Killed, Over, Alive
<1>5. CASE ClaimDeadLock(c) \/ ReleaseLock(c)
  <2>1. lock' = None
    BY <1>5 DEF ClaimDeadLock, ReleaseLock, ClaimExpected, ClaimOther
  <2>2. written' \subseteq written
    BY <1>5 DEF ClaimDeadLock, ReleaseLock, ClaimExpected, ClaimOther
  <2> QED
    BY <1>1, <2>1, <2>2, SessionAssumption DEF LeftLock
<1>6. CASE PutBack(c)
  <2>1. lock' = held[c] /\ written' = written /\ pc[c] = "putBack"
    BY <1>6 DEF PutBack
  <2> QED
    BY <1>1, <2>1 DEF Apart, OnlyWrecksReturn, Wreck, LeftLock
<1>7. CASE \E command \in {"init", "record", "finalize", "verify", "recover"} :
              OpenLock(c, command)
  <2>1. CASE lock' = c /\ Goto(c, "writeLock")
    BY <1>1, <2>1 DEF LeftLock, Inside, InsidePlaces, LockInv, Types
  <2>2. CASE Over(c) /\ UNCHANGED <<lock, written, upset>> /\ ~Inside(c) /\ pc[c] # "over"
    BY <2>2, LockFileStays DEF Over
  <2> QED
    BY <1>7, <2>1, <2>2 DEF OpenLock, AtTheLock, New, Inside, InsidePlaces
<1>8. CASE WriteLock(c)
  <2>1. /\ pc[c] = "writeLock" /\ Goto(c, "enter") /\ pc'[c] = "enter"
        /\ UNCHANGED <<lock, upset>> /\ written' = written \cup {c}
        /\ \A d \in Processes : d # c => pc'[d] = pc[d] /\ (Inside(d)' <=> Inside(d))
    BY <1>8, Others DEF WriteLock
  <2>2. Inside(c)'
    BY <2>1 DEF Inside, InsidePlaces
  <2>3. CASE lock = c
    BY <2>1, <2>2, <2>3 DEF LeftLock
  <2>4. CASE lock # c
    BY <1>1, <2>1, <2>4 DEF LeftLock
  <2> QED
    BY <2>3, <2>4
<1>9. CASE CheckRecovered(c)
  <2>1. Inside(c) /\ Inside(c)' /\ lock' = lock /\ written' = written
    BY <1>1, <1>9 DEF CheckRecovered, Inside, InsidePlaces, LockInv, Types
  <2>2. lock = c \/ lock \notin written
    BY <1>1, <2>1 DEF Apart, InsideLocked, Wreck
  <2> QED
    BY <2>1, <2>2 DEF LeftLock
<1> QED
  BY <1>2, <1>3, <1>4, <1>5, <1>6, <1>7, <1>8, <1>9 DEF Step

-----------------------------------------------------------------------------
(* That what is listed is what is there.                                   *)

\* Who is not inside is not at work on the directory.
LEMMA OutsideOrdered == ASSUME NEW c \in Commands, ~Inside(c) PROVE Ordered(c)
BY DEF Ordered, IsWriting, Inside, InsidePlaces

LEMMA AsideKept ==
    ASSUME LockInv, FilesInv, RestInv, NEW c \in Commands, Aside(c), ~raced'
    PROVE  NoTemporaryListed' /\ AtRest' /\ \A d \in Commands : Ordered(d)'
<1>1. NoTemporaryListed /\ AtRest /\ \A d \in Commands : Ordered(d)
  BY DEF RestInv, Aside
<1>2. PICK q \in Places \ {"stage", "write", "install", "check"} : Goto(c, q)
  BY DEF Aside
<1>3. /\ c \in Processes /\ pc'[c] = q
      /\ \A d \in Commands : d # c => pc'[d] = pc[d] /\ job'[d] = job[d]
  <2>1. /\ c \in Processes /\ pc'[c] = q
        /\ \A d \in Commands : d # c => d \in Processes /\ pc'[d] = pc[d]
    BY <1>2, JobsOfOthers
  <2>2. job \in [Processes -> Jobs]
    BY DEF FilesInv, FileTypes
  <2>3. \A d \in Processes : d # c => job'[d] = job[d]
    BY <2>1, <2>2 DEF Aside
  <2> QED
    BY <2>1, <2>3
<1>4. ASSUME NEW d \in Commands PROVE Ordered(d)'
  <2>1. CASE d = c
    BY <1>3, <2>1 DEF Ordered, IsWriting
  <2>2. CASE d # c
    <3>1. Clean' = Clean /\ UNCHANGED <<temps, manifest>>
      BY DEF Aside, directory, Clean, Recorded
    <3> QED
      BY <1>1, <1>3, <2>2, <3>1 DEF Ordered, IsWriting
  <2> QED
    BY <2>1, <2>2
<1>5. Settled' <=> Settled
  BY DEF Aside, directory, Settled, Verified, Files, Recorded
<1>6. AtRest'
  <2> SUFFICES ASSUME upset' = {}, \A d \in Commands : ~IsWriting(d)' PROVE Settled
    BY <1>5 DEF AtRest
  <2>1. upset = {} /\ ~IsWriting(c)
    BY DEF Aside
  <2>2. \A d \in Commands : ~IsWriting(d)
    BY <1>3, <2>1 DEF IsWriting
  <2> QED
    BY <1>1, <2>1, <2>2 DEF AtRest
<1>7. NoTemporaryListed'
  BY <1>1 DEF NoTemporaryListed, Aside, directory
<1> QED
  BY <1>4, <1>6, <1>7

\* Of a step inside the session only what c itself does needs a look.
LEMMA InsideKept ==
    ASSUME LockInv, FilesInv, RestInv, NEW c \in Commands, ~raced, ~raced', Inside(c),
           NEW q, Goto(c, q), Ordered(c)'
    PROVE  \A d \in Commands : Ordered(d)'
<1>1. ASSUME NEW d \in Commands, d # c PROVE Ordered(d)'
  <2>1. ~Inside(d)
    BY <1>1, JobsOfOthers DEF LockInv, Apart, AtMostOneInside
  <2>2. ~Inside(d)'
    BY <1>1, <2>1, Others, JobsOfOthers
  <2>3. ASSUME ~Inside(d)' PROVE Ordered(d)'
    BY <2>3 DEF Ordered, IsWriting, Inside, InsidePlaces
  <2> QED
    BY <2>2, <2>3
<1> QED
  BY <1>1

\* A command that is about to write finds no temporary file: it has asked for
\* none, or has verified a manifest, and none lists any.
LEMMA BeginningKept ==
    ASSUME LockInv, FilesInv, RestInv, NEW c \in Commands,
           \/ InitSession(c) \/ (\E x \in Cases : StageCase(c, x)) \/ RecordCase(c)
           \/ Finalize(c) \/ Assess(c), ~raced'
    PROVE  NoTemporaryListed' /\ AtRest' /\ \A d \in Commands : Ordered(d)'
<1>1. /\ ~raced /\ UNCHANGED <<docs, result, manifest, sums, temps, upset>> /\ Inside(c)
      /\ \E q \in {"stage", "write"} : Goto(c, q)
  <2>1. CASE InitSession(c) \/ Finalize(c) \/ Assess(c)
    BY <2>1 DEF InitSession, Finalize, Assess, Begin, directory, Inside, InsidePlaces
  <2>2. CASE \E x \in Cases : StageCase(c, x)
    BY <2>2 DEF StageCase, directory, Inside, InsidePlaces
  <2>3. CASE RecordCase(c)
    BY <2>3 DEF RecordCase, Begin, Inside, InsidePlaces
  <2> QED
    BY <2>1, <2>2, <2>3
<1>2. PICK q \in {"stage", "write"} : Goto(c, q)
  BY <1>1
<1>3. c \in Processes /\ pc'[c] = q /\ job[c] \in Jobs /\ job \in [Processes -> Jobs]
  BY <1>2, JobsOfOthers DEF FilesInv, FileTypes
<1>4. NoTemporaryListed /\ AtRest /\ Ordered(c)
  BY <1>1 DEF RestInv
<1>5. Verified("PENDING") => temps = {}
  BY <1>4 DEF Verified, NoTemporaryListed, Files
<1>6. temps' = {}
  <2>1. CASE InitSession(c) \/ Assess(c)
    BY <1>1, <2>1 DEF InitSession, Assess
  <2>2. CASE (\E x \in Cases : StageCase(c, x)) \/ Finalize(c)
    BY <1>1, <1>5, <2>2 DEF StageCase, Finalize
  <2>3. CASE RecordCase(c)
    BY <1>1, <1>4, <2>3 DEF RecordCase, Ordered
  <2> QED
    BY <2>1, <2>2, <2>3
<1>7. q = "write" => job'[c].todo # <<"sums">>
  <2>1. ASSUME NEW todo, NEW status, Begin(c, todo, status) PROVE job'[c].todo = todo
    BY <1>3, <2>1 DEF Begin, Jobs
  <2>2. CASE InitSession(c)
    BY <2>1, <2>2 DEF InitSession
  <2>3. CASE RecordCase(c)
    BY <2>1, <2>3 DEF RecordCase
  <2>4. CASE Finalize(c)
    BY <2>1, <2>4 DEF Finalize
  <2>5. CASE Assess(c)
    BY <2>1, <2>5 DEF Assess
  <2>6. CASE \E x \in Cases : StageCase(c, x)
    BY <1>3, <2>6 DEF StageCase, LockInv, Types
  <2> QED
    BY <2>2, <2>3, <2>4, <2>5, <2>6
<1>8. Ordered(c)'
  BY <1>3, <1>6, <1>7 DEF Ordered, IsWriting
<1>9. AtRest'
  <2>1. CASE q = "write"
    BY <1>3, <2>1 DEF AtRest, IsWriting
  <2>2. CASE q = "stage"
    <3>1. UNCHANGED cases
      <4>1. ~\E todo, status : Begin(c, todo, status)
        BY <1>2, <1>3, <2>2 DEF Begin, LockInv, Types
      <4>2. \E x \in Cases : StageCase(c, x)
        BY <4>1 DEF InitSession, RecordCase, Finalize, Assess
      <4> QED
        BY <4>2 DEF StageCase, directory
    <3>2. Settled' <=> Settled
      BY <1>1, <3>1 DEF Settled, Verified, Files, Recorded
    <3>3. pc[c] = "enter"
      BY <1>1, <1>2, <1>3, <2>2 DEF InitSession, RecordCase, Finalize, Assess, Begin,
                                    StageCase, LockInv, Types
    <3>4. \A d \in Commands : d # c => pc'[d] = pc[d]
      BY <1>2, JobsOfOthers
    <3> QED
      BY <1>1, <1>3, <1>4, <3>2, <3>3, <3>4 DEF AtRest, IsWriting
  <2> QED
    BY <2>1, <2>2
<1>10. NoTemporaryListed'
  BY <1>1, <1>4 DEF NoTemporaryListed
<1> QED
  BY <1>1, <1>2, <1>8, <1>9, <1>10, InsideKept

\* The temporary file is counted after the list has been made.
LEMMA WritingAsideKept ==
    ASSUME LockInv, FilesInv, RestInv, NEW c \in Commands, WriteTemporary(c), ~raced'
    PROVE  NoTemporaryListed' /\ AtRest' /\ \A d \in Commands : Ordered(d)'
<1> DEFINE target == Head(job[c].todo)
           files == IF target = "manifest" THEN Files ELSE job[c].files
           content == CASE target = "manifest" ->
                             [status |-> job[c].status, files |-> files, by |-> c]
                        [] target = "sums" -> [files |-> files, of |-> manifest]
                        [] OTHER -> None
<1>1. /\ c \in Processes /\ pc[c] = "write" /\ pc'[c] = "install" /\ job[c] \in Jobs
      /\ Goto(c, "install") /\ job \in [Processes -> Jobs]
      /\ Inside(c) /\ ~raced
  BY JobsOfOthers DEF FilesInv, FileTypes, WriteTemporary, Inside, InsidePlaces
<1>2. NoTemporaryListed /\ Ordered(c) /\ temps = {}
  BY <1>1 DEF RestInv, Ordered
<1>3. Files = Clean /\ Clean' = Clean
  BY <1>2 DEF Files, Clean, WriteTemporary, Recorded
<1>4. job' = [job EXCEPT ![c].files = files, ![c].content = content]
  BY DEF WriteTemporary
<1>5. job[c].todo # <<>> /\ job[c].todo \in Todos
  BY <1>1 DEF FilesInv, JobType, IsWriting, Jobs
<1>6. target = "sums" <=> job[c].todo = <<"sums">>
  BY <1>5, Order
<1>7. /\ target = "manifest" => files = Clean
      /\ target = "sums" => files = job[c].files /\ content = [files |-> files, of |-> manifest]
  BY <1>3
<1> HIDE DEF files, content
<1>8. /\ job'[c].todo = job[c].todo /\ job'[c].status = job[c].status
      /\ job'[c].files = files /\ job'[c].content = content
  BY <1>1, <1>4 DEF Jobs
<1>9. temps' = {c} /\ manifest' = manifest
  BY <1>2 DEF WriteTemporary
<1>10. Ordered(c)'
  BY <1>1, <1>2, <1>3, <1>6, <1>7, <1>8, <1>9 DEF Ordered, IsWriting
<1>11. AtRest'
  BY <1>1 DEF AtRest, IsWriting
<1>12. NoTemporaryListed'
  BY <1>2, <1>9 DEF NoTemporaryListed
<1> QED
  BY <1>1, <1>10, <1>11, <1>12, InsideKept

\* With the last file written, the directory is as its manifest and sums say.
LEMMA InstallingKept ==
    ASSUME LockInv, FilesInv, RestInv, NEW c \in Commands, Install(c), ~raced'
    PROVE  NoTemporaryListed' /\ AtRest' /\ \A d \in Commands : Ordered(d)'
<1> DEFINE target == Head(job[c].todo)
           todo == Tail(job[c].todo)
           q == IF todo # <<>> THEN "write"
                ELSE IF job[c].command = "recover" THEN "check" ELSE "release"
<1>1. /\ c \in Processes /\ pc[c] = "install" /\ job[c] \in Jobs
      /\ Goto(c, q) /\ job \in [Processes -> Jobs] /\ pc'[c] = q
      /\ Inside(c) /\ ~raced
  BY JobsOfOthers DEF FilesInv, FileTypes, Install, Inside, InsidePlaces
<1>2. /\ docs' = docs \cup ({target} \cap Docs)
      /\ result' = (result \/ target = "result")
      /\ manifest' = IF target = "manifest" THEN job[c].content ELSE manifest
      /\ sums' = IF target = "sums" THEN job[c].content ELSE sums
      /\ job' = [job EXCEPT ![c].todo = todo, ![c].content = None]
      /\ temps' = temps \ {c} /\ cases' = cases
  BY DEF Install
<1>3. /\ job[c].todo \in Todos /\ job[c].todo # <<>> /\ job[c].status \in Statuses
      /\ target = "manifest" =>
            /\ job[c].files \in FileSets
            /\ job[c].content = [status |-> job[c].status, files |-> job[c].files, by |-> c]
  BY <1>1 DEF FilesInv, JobType, IsWriting, Jobs
<1>4. /\ target = "sums" <=> job[c].todo = <<"sums">>
      /\ todo = <<>> <=> target = "sums"
      /\ todo = <<"sums">> <=> target = "manifest"
  BY <1>3, Order
<1>5. NoTemporaryListed /\ Ordered(c) /\ temps' = {}
  BY <1>1, <1>2 DEF RestInv, Ordered
<1>6. q = "write" <=> todo # <<>>
  OBVIOUS
<1>7. q \in {"write", "check", "release"}
  OBVIOUS
<1> HIDE DEF target, todo, q
<1>8. /\ job'[c].todo = todo /\ job'[c].status = job[c].status
      /\ job'[c].files = job[c].files
  BY <1>1, <1>2 DEF Jobs
<1>9. ASSUME target = "manifest" \/ target = "sums" PROVE Clean' = Clean
  <2>1. docs' = docs
    BY <1>2, <1>9 DEF Docs
  <2>2. result' = result
    BY <1>2, <1>9 DEF FilesInv, FileTypes
  <2> QED
    BY <1>2, <2>1, <2>2 DEF Clean, Recorded
<1>10. target = "manifest" =>
         job[c].files = Clean /\ manifest' = job[c].content
  BY <1>1, <1>2, <1>5 DEF Ordered, target
<1>11. NoTemporaryListed'
  <2>1. CASE target = "manifest"
    BY <1>3, <1>10, <2>1 DEF NoTemporaryListed, Clean
  <2>2. CASE target # "manifest"
    BY <1>2, <1>5, <2>2 DEF NoTemporaryListed
  <2> QED
    BY <2>1, <2>2
<1>12. Ordered(c)'
  <2>1. pc'[c] # "stage" /\ pc'[c] # "install"
    BY <1>1, <1>7
  <2>2. ASSUME IsWriting(c)', todo = <<"sums">>
        PROVE  /\ job'[c].files = Clean'
               /\ manifest' = [status |-> job'[c].status, files |-> job'[c].files, by |-> c]
    BY <1>3, <1>4, <1>8, <1>9, <1>10, <2>2
  <2> QED
    BY <1>5, <1>8, <2>1, <2>2 DEF Ordered
<1>13. AtRest'
  <2>1. CASE todo # <<>>
    BY <1>1, <1>6, <2>1 DEF AtRest, IsWriting
  <2>2. CASE todo = <<>>
    <3>1. /\ target = "sums" /\ Clean' = Clean /\ manifest' = manifest
          /\ sums' = job[c].content
      BY <1>2, <1>4, <1>9, <2>2
    <3>2. /\ job[c].files = Clean
          /\ manifest = [status |-> job[c].status, files |-> job[c].files, by |-> c]
          /\ job[c].content = [files |-> job[c].files, of |-> manifest]
      BY <1>1, <1>4, <1>5, <3>1 DEF Ordered, IsWriting, target
    <3>3. Files' = Clean' /\ Files' \in FileSets
      <4>1. FileTypes'
        BY FilesInstalled DEF FilesInv
      <4>2. Files' \in FileSets
        BY <4>1 DEF FileTypes, Files, FileSets, Recorded
      <4> QED
        BY <1>5, <4>2 DEF Files, Clean, Recorded
    <3>4. manifest \in Manifests
      BY <1>1, <1>3, <3>1, <3>2, <3>3 DEF Manifests, Statuses
    <3>5. manifest # None
      BY <3>4, SessionAssumption
    <3>6. Verified(manifest.status)'
      BY <3>1, <3>2, <3>3, <3>5 DEF Verified
    <3> QED
      BY <1>5, <3>6 DEF AtRest, Settled
  <2> QED
    BY <2>1, <2>2
<1> QED
  BY <1>1, <1>11, <1>12, <1>13, InsideKept

\* recover ends with a session that verifies, whatever it found.
LEMMA CheckingKept ==
    ASSUME LockInv, FilesInv, RestInv, NEW c \in Commands, CheckRecovered(c), ~raced'
    PROVE  NoTemporaryListed' /\ AtRest' /\ \A d \in Commands : Ordered(d)'
<1>1. /\ pc[c] = "check" /\ pc'[c] = "release" /\ Goto(c, "release")
      /\ UNCHANGED directory /\ Verified(job[c].status) /\ Inside(c) /\ ~raced
  BY JobsOfOthers DEF CheckRecovered, Inside, InsidePlaces
<1>2. NoTemporaryListed /\ temps = {}
  BY <1>1 DEF RestInv, Ordered
<1>3. Settled
  BY <1>1, <1>2 DEF Settled, Verified
<1>4. NoTemporaryListed' /\ AtRest'
  BY <1>1, <1>2, <1>3 DEF NoTemporaryListed, AtRest, Settled, Verified, Files, Recorded,
                          directory
<1>5. Ordered(c)'
  BY <1>1 DEF Ordered, IsWriting
<1> QED
  BY <1>1, <1>4, <1>5, InsideKept

LEMMA TidyingKept ==
    ASSUME LockInv, FilesInv, RestInv, NEW c \in Commands,
           RemoveTemporaryFiles(c) \/ Fail(c), ~raced'
    PROVE  NoTemporaryListed' /\ AtRest' /\ \A d \in Commands : Ordered(d)'
<1>1. /\ Inside(c) /\ ~raced /\ UNCHANGED <<docs, cases, result, manifest, sums>>
      /\ \E q \in {"assess", "release"} : Goto(c, q)
  BY DEF RemoveTemporaryFiles, Fail, Working, Inside, InsidePlaces
<1>2. PICK q \in {"assess", "release"} : Goto(c, q)
  BY <1>1
<1>3. pc'[c] = q /\ \A d \in Commands : d # c => pc'[d] = pc[d]
  BY <1>2, JobsOfOthers
<1>4. NoTemporaryListed /\ AtRest
  BY <1>1 DEF RestInv
<1>5. Ordered(c)'
  BY <1>3 DEF Ordered, IsWriting
<1>6. AtRest'
  <2>1. CASE RemoveTemporaryFiles(c)
    <3> SUFFICES ASSUME upset' = {}, \A d \in Commands : ~IsWriting(d)' PROVE Settled'
      BY DEF AtRest
    <3>1. upset = {} /\ temps' = {} /\ \A d \in Commands : ~IsWriting(d)
      BY <1>3, <2>1 DEF RemoveTemporaryFiles, IsWriting
    <3>2. Settled
      BY <1>4, <3>1 DEF AtRest
    <3> QED
      BY <1>1, <3>1, <3>2 DEF Settled, Verified, Files, Recorded
  <2>2. CASE Fail(c)
    BY <2>2 DEF Fail, AtRest
  <2> QED
    BY <2>1, <2>2
<1>7. NoTemporaryListed'
  BY <1>1, <1>4 DEF NoTemporaryListed
<1> QED
  BY <1>1, <1>2, <1>5, <1>6, <1>7, InsideKept

-----------------------------------------------------------------------------
(* The theorem about the session.                                          *)

LEMMA SessionPreserved == SessionInv /\ [Next]_vars => SessionInv'
<1> SUFFICES ASSUME LockInv, FilesInv, RestInv, [Next]_vars PROVE RestInv'
  BY Preserved, FilesPreserved DEF SessionInv
<1>1. ASSUME NEW c \in Commands, Step(c), ~raced'
      PROVE  /\ LeftLock'
             /\ NoTemporaryListed' /\ AtRest' /\ \A d \in Commands : Ordered(d)'
  <2>1. ~raced
    <3>1. CASE Aside(c)
      BY <1>1, <3>1 DEF Aside
    <3>2. CASE ~Aside(c)
      BY <1>1, <3>2, AsideSteps
         DEF Step, InitSession, StageCase, RecordCase, Finalize, RemoveTemporaryFiles,
             Assess, WriteTemporary, Install, CheckRecovered, Fail
    <3> QED
      BY <3>1, <3>2
  <2>2. LeftLock'
    BY <1>1, <2>1, LeftLockKept DEF RestInv
  <2>3. CASE \/ InitSession(c) \/ (\E x \in Cases : StageCase(c, x)) \/ RecordCase(c)
             \/ Finalize(c) \/ Assess(c)
    BY <1>1, <2>2, <2>3, BeginningKept
  <2>4. CASE WriteTemporary(c)
    BY <1>1, <2>2, <2>4, WritingAsideKept
  <2>5. CASE Install(c)
    BY <1>1, <2>2, <2>5, InstallingKept
  <2>6. CASE CheckRecovered(c)
    BY <1>1, <2>2, <2>6, CheckingKept
  <2>7. CASE RemoveTemporaryFiles(c) \/ Fail(c)
    BY <1>1, <2>2, <2>7, TidyingKept
  <2>8. CASE Aside(c)
    BY <1>1, <2>2, <2>8, AsideKept
  <2> QED
    BY <1>1, <2>3, <2>4, <2>5, <2>6, <2>7, <2>8, AsideSteps DEF Step
<1>2. ASSUME UNCHANGED vars PROVE RestInv'
  BY <1>2 DEF vars, directory, RestInv, LeftLock, NoTemporaryListed, AtRest, Ordered, Settled,
              Verified, Files, Clean, Recorded, IsWriting, Inside
<1> QED
  BY <1>1, <1>2 DEF Next, RestInv

LEMMA SessionInitial == Init => SessionInv
<1> SUFFICES ASSUME Init PROVE RestInv
  BY Initial, FilesInitial DEF SessionInv
<1>1. \A c \in Commands : ~Inside(c)
  BY SessionAssumption DEF Init, Commands, Processes, Inside, InsidePlaces
<1>2. \A c \in Commands : Ordered(c)
  BY <1>1, OutsideOrdered
<1>3. LeftLock
  BY SessionAssumption DEF Init, LeftLock, Processes
<1>4. CASE docs = {}
  BY <1>2, <1>3, <1>4 DEF Init, NoTemporaryListed, Settled, RestInv, AtRest
<1>5. CASE docs # {}
  <2>1. manifest = [status |-> "PENDING", files |-> Files, by |-> 0]
    BY <1>5 DEF Init
  <2>2. Files \in FileSets /\ Files.temps = {} /\ 0 \in Processes
    BY FilesInitial, FilesTyped DEF FilesInv, Files, Init, Processes
  <2>3. manifest # None
    BY <2>1, <2>2, SessionAssumption DEF Manifests
  <2>4. NoTemporaryListed /\ Settled
    BY <1>5, <2>1, <2>2, <2>3 DEF Init, NoTemporaryListed, Settled, Verified
  <2> QED
    BY <1>2, <1>3, <2>4 DEF RestInv, AtRest
<1> QED
  BY <1>4, <1>5

\* What the lock protocol and the order of the writes keep true together.
THEOREM SessionInvariance == Spec => []SessionInv
  BY SessionInitial, SessionPreserved, PTL DEF Spec

\* However many commands there are, and whichever are refused, killed or fail: a
\* session that verifies as collected is complete; when all have ended, one in
\* which nobody was killed or failed since a recovery verifies, with no lock
\* that has content left behind; and one that was initialized can be recovered.
THEOREM SessionIsNotLost == Spec => []SessionSurvives
<1>1. ASSUME SessionInv PROVE SessionSurvives
  <2>1. CollectedIsComplete
    BY <1>1 DEF SessionInv, FilesInv, CollectedHasResult, ResultComplete,
                CollectedIsComplete, Verified
  <2>2. ASSUME Quiet, upset = {}, ~raced
        PROVE  lock \notin written /\ (docs # {} => Verified(manifest.status))
    <3>1. LeftLock /\ AtRest /\ written \subseteq Processes
      BY <1>1, <2>2 DEF SessionInv, RestInv, LockInv, Types
    <3>2. \A p \in Processes : ~Inside(p)
      BY <1>1, <2>2 DEF Quiet, Alive, Inside, InsidePlaces, Processes, SessionInv, LockInv, Types
    <3>3. \A c \in Commands : ~IsWriting(c)
      BY <2>2 DEF Quiet, Alive, IsWriting
    <3> QED
      BY <2>2, <3>1, <3>2, <3>3 DEF LeftLock, AtRest, Settled
  <2>3. ASSUME Quiet, docs = Docs, AllSound PROVE Recoverable
    BY <1>1, <2>3 DEF SessionInv, FilesInv, CollectedHasResult, ResultComplete, Recoverable
  <2> QED
    BY <2>1, <2>2, <2>3 DEF SessionSurvives
<1> QED
  BY <1>1, SessionInvariance, PTL

=============================================================================
