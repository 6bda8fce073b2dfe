---------------------------- MODULE EvidenceSink ----------------------------
(***************************************************************************)
(* The evidence file of one run of `rlsok ros2': FileEvidenceSink with the *)
(* private, durable output it writes to (apps/cli/ros2.ts) and the bundle  *)
(* verification both it and an auditor apply (packages/core/evidence.ts).  *)
(*                                                                         *)
(* An append writes the whole bundle to a temporary file, synchronizes it, *)
(* renames it over the evidence file and synchronizes the directory; only  *)
(* then does the sink hold the entry.  Each of these calls may fail, the   *)
(* process may end between any two, and a power loss keeps of every file   *)
(* one of the contents it may have on the disk.                            *)
(*                                                                         *)
(* The chain of hashes is the order of the sequence: an entry's hash       *)
(* covers its position and, through previousHash, all entries before it.   *)
(***************************************************************************)
EXTENDS Integers, SequencesExt

CONSTANTS
    Paths,           \* output paths
    MaxEntries, MaxBytes, DispatchReserve,  \* the sink's limits
    Proposals,
    Size,            \* Size[m]: bytes of an entry about m in the bundle
    Horizon,         \* bound: last monotonic instant
    Skew0, Skews,    \* wall clock minus monotonic clock: first, possible
    MaxJumps,        \* bound: times the wall clock is set
    None,            \* no file, no entry, nothing observed
    Torn             \* the content of a file that was not written out

\* An entry about a proposal: whether a hardware signal was sent, when it was
\* made and when the state it rests on was observed.
Entries == [proposal : Proposals, sent : BOOLEAN, madeAt : Int,
            stateAt : Int \cup {None}]

Bundles == [createdAt : Int, entries : Seq(Entries)]

\* An entry may be larger than the margin that is kept for it.
ASSUME SinkAssumption ==
    /\ {MaxEntries, MaxBytes, DispatchReserve, Horizon, MaxJumps} \cup Skews
          \subseteq Nat
    /\ DispatchReserve <= MaxBytes
    /\ Size \in [Proposals -> Nat \ {0}]
    /\ Skew0 \in Skews
    /\ None # Torn /\ {None, Torn} \cap Bundles = {}

VARIABLES
    mono, skew, jumps,  \* the clocks
    setBack,       \* the wall clock was set back during this run (history)
    visible,       \* per path, the content of the file, or None
    possible,      \* per path, the contents a power loss may leave
    acknowledged,  \* per path, the entries whose append returned (history)
    sink           \* the sink of the running process

clock == <<mono, skew, jumps, setBack>>
files == <<visible, possible, acknowledged>>
sinkVars == <<clock, files, sink>>

Wall == mono + skew

\* reservePrivateOutput leaves an empty file.
Reservation == [createdAt |-> 0, entries |-> <<>>]
Off == [pc |-> "off", path |-> None, entries |-> <<>>, next |-> None,
        synchronized |-> FALSE, reason |-> "none"]

SinkInit ==
    /\ mono = 0 /\ skew = Skew0 /\ jumps = 0 /\ setBack = FALSE
    /\ visible = [path \in Paths |-> None]
    /\ possible = [path \in Paths |-> {None}]
    /\ acknowledged = [path \in Paths |-> <<>>]
    /\ sink = Off

SinkTypeOK ==
    /\ mono \in 0..Horizon /\ skew \in Skews /\ jumps \in 0..MaxJumps
    /\ setBack \in BOOLEAN
    /\ \A path \in Paths :
          /\ visible[path] \in possible[path]
          /\ Len(acknowledged[path]) <= MaxEntries
    /\ sink.pc \in {"off", "reserving", "ready", "writing", "written", "renamed",
                    "appended", "failed"}

-----------------------------------------------------------------------------
(* Bundles.                                                                *)

\* What verifyEvidenceBundle finds consistent in entry k.
EntryConsistent(bundle, k) ==
    LET entry == bundle.entries[k]
    IN  /\ entry.madeAt <= bundle.createdAt
        /\ k > 1 => bundle.entries[k - 1].madeAt <= entry.madeAt
        /\ entry.stateAt # None => entry.stateAt <= entry.madeAt

Verifies(bundle) ==
    /\ bundle.entries # <<>>
    /\ \A k \in DOMAIN bundle.entries : EntryConsistent(bundle, k)

\* The sizes of the first k entries add up to upTo[k].
Bytes(entries) ==
    LET upTo[k \in 0..Len(entries)] ==
            IF k = 0 THEN 0 ELSE upTo[k - 1] + Size[entries[k].proposal]
    IN  upTo[Len(entries)]

\* Slip: one entry too many is taken to fit.
HasRoomForOneMore ==
    /\ Len(sink.entries) <= MaxEntries
    /\ Bytes(sink.entries) <= MaxBytes - DispatchReserve

\* assertWritableBeforeDispatch.
HasRoom ==
    /\ Len(sink.entries) < MaxEntries
    /\ Bytes(sink.entries) <= MaxBytes - DispatchReserve

-----------------------------------------------------------------------------
(* The output file.                                                        *)

\* The constructor creates the file, which must not exist.
Reserve(path) ==
    /\ sink = Off
    /\ visible[path] = None
    /\ visible' = [visible EXCEPT ![path] = Reservation]
    /\ possible' = [possible EXCEPT ![path] = @ \cup {Reservation}]
    /\ sink' = [Off EXCEPT !.pc = "reserving", !.path = path]
    /\ setBack' = FALSE
    /\ UNCHANGED <<mono, skew, jumps, acknowledged>>

\* What is visible is now what a power loss leaves.
Settled(path) == possible' = [possible EXCEPT ![path] = {visible[path]}]

SynchronizeReservation ==
    /\ sink.pc = "reserving"
    /\ Settled(sink.path)
    /\ sink' = [sink EXCEPT !.pc = "ready"]
    /\ UNCHANGED <<clock, visible, acknowledged>>

AppendRefused(entry) ==
    LET entries == Append(sink.entries, entry)
    IN  IF Len(sink.entries) >= MaxEntries THEN "room"
        ELSE IF ~Verifies([createdAt |-> Wall, entries |-> entries]) THEN "time"
        ELSE IF Bytes(entries) > MaxBytes THEN "room"
        ELSE "none"

\* append: the new bundle is verified before a byte of it is written.
BeginAppend(entry) ==
    /\ sink.pc = "ready"
    /\ sink' = IF AppendRefused(entry) = "none"
               THEN [sink EXCEPT !.pc = "writing",
                                 !.next = [createdAt |-> Wall,
                                           entries |-> Append(sink.entries, entry)]]
               ELSE [sink EXCEPT !.pc = "failed", !.reason = AppendRefused(entry)]
    /\ UNCHANGED <<clock, files>>

\* Slip: the temporary file is renamed without being synchronized.
SynchronizeTemporarySkipped ==
    /\ sink.pc = "writing"
    /\ sink' = [sink EXCEPT !.pc = "written"]
    /\ UNCHANGED <<clock, files>>

\* The temporary file is complete and its bytes are on the disk.
SynchronizeTemporary ==
    /\ sink.pc = "writing"
    /\ sink' = [sink EXCEPT !.pc = "written", !.synchronized = TRUE]
    /\ UNCHANGED <<clock, files>>

Rename ==
    /\ sink.pc = "written"
    /\ visible' = [visible EXCEPT ![sink.path] = sink.next]
    /\ possible' = [possible EXCEPT ![sink.path] =
                       @ \cup {sink.next} \cup (IF sink.synchronized THEN {} ELSE {Torn})]
    /\ sink' = [sink EXCEPT !.pc = "renamed"]
    /\ UNCHANGED <<clock, acknowledged>>

\* The sink holds the entry and its caller goes on.
Acknowledge ==
    /\ sink' = [sink EXCEPT !.pc = "appended", !.entries = sink.next.entries]
    /\ acknowledged' = [acknowledged EXCEPT ![sink.path] = sink.next.entries]

\* Slip: the directory is not synchronized.
SynchronizeDirectorySkipped ==
    /\ sink.pc = "renamed"
    /\ Acknowledge
    /\ UNCHANGED <<clock, visible, possible>>

SynchronizeDirectory ==
    /\ sink.pc = "renamed"
    /\ Settled(sink.path)
    /\ Acknowledge
    /\ UNCHANGED <<clock, visible>>

\* Any of the calls of writePrivateAtomic fails, after the rename too: the
\* sink then does not hold an entry that the file does.
AppendFails ==
    /\ sink.pc \in {"writing", "written", "renamed"}
    /\ sink' = [sink EXCEPT !.pc = "failed", !.reason = "disk"]
    /\ UNCHANGED <<clock, files>>

\* The caller of an append goes on.
ReadyAgain ==
    /\ sink.pc \in {"appended", "failed"}
    /\ sink' = [sink EXCEPT !.pc = "ready", !.next = None, !.reason = "none",
                            !.synchronized = FALSE]
    /\ UNCHANGED <<clock, files>>

WriteStep ==
    \/ SynchronizeReservation
    \/ SynchronizeTemporary \/ Rename \/ SynchronizeDirectory \/ AppendFails

-----------------------------------------------------------------------------
(* Clocks, and the ends of the process and of the power.                   *)

Tick ==
    /\ mono < Horizon
    /\ mono' = mono + 1
    /\ UNCHANGED <<skew, jumps, setBack, files, sink>>

SetClock(s) ==
    /\ jumps < MaxJumps /\ s # skew
    /\ skew' = s /\ jumps' = jumps + 1
    /\ setBack' = (setBack \/ s < skew)
    /\ UNCHANGED <<mono, files, sink>>

ProcessEnds ==
    /\ sink' = Off
    /\ UNCHANGED <<clock, files>>

PowerLoss ==
    /\ sink' = Off
    /\ visible' \in [Paths -> UNION {possible[path] : path \in Paths}]
    /\ \A path \in Paths : visible'[path] \in possible[path]
    /\ possible' = [path \in Paths |-> {visible'[path]}]
    /\ UNCHANGED <<clock, acknowledged>>
-----------------------------------------------------------------------------
\* An evidence file is the empty reservation or a bundle that verifies, at any
\* moment and after any crash: no reader ever finds half a bundle, or one whose
\* times contradict each other.
EvidenceReadable ==
    \A path \in Paths : \A content \in possible[path] \cup {visible[path]} :
        content \in {None, Reservation} \/ (content # Torn /\ Verifies(content))

\* An entry whose append has returned stays at its place in the file, whatever
\* fails, crashes or runs later.  (An entry whose append failed after the rename
\* is in the file too, until the next one takes its place.)
AcknowledgedStays ==
    \A path \in Paths : acknowledged[path] # <<>> =>
        \A content \in possible[path] \cup {visible[path]} :
            /\ content \notin {None, Torn}
            /\ IsPrefix(acknowledged[path], content.entries)
=============================================================================
