----------------------------- MODULE RcuBuffer -----------------------------
(***************************************************************************)
(* The slot pool of Util/Inc/rcu_buffer.h: one writer publishes versions   *)
(* of some data, readers pin the published slot with a token and read it   *)
(* in place.  The firmware has four such buffers (detection info, person   *)
(* detections, depth grid, alert).                                         *)
(*                                                                         *)
(* A slot holds two words, written one after the other, so that a reader   *)
(* overlapping a write would see halves of two versions.  Threads preempt  *)
(* each other between any two steps; only the sections of the code between *)
(* TX_DISABLE and TX_RESTORE are single steps.                             *)
(***************************************************************************)
EXTENDS Integers, FiniteSets

CONSTANTS
  SlotCount,    \* RCU_BUFFER_SLOT_COUNT
  Readers,      \* the reading threads
  Suspendable,  \* readers that may be suspended for ever, as the UI thread is
  MaxVersions   \* bound: the writer publishes at most this many versions

ASSUME RcuAssumption ==
  /\ SlotCount \in Nat \ {0}
  /\ IsFiniteSet(Readers)
  /\ Suspendable \subseteq Readers
  /\ MaxVersions \in Nat

Slots == 0 .. SlotCount - 1

VARIABLES
  published_idx,  \* the published slot
  reader_counts,  \* reader_counts[s]: readers that pin slot s
  first,          \* first[s]: version of the first word of slot s
  second,         \* second[s]: version of the second word of slot s
  version,        \* number of the last published version
  wrPC,           \* where the writer is
  wrIdx,          \* the writer's idx, then the slot it reserved
  rdPC,           \* where each reader is
  rdIdx,          \* each reader's idx, and its token's slot_idx
  rdFirst,        \* what each reader found in the first word
  rdSecond        \* what each reader found in the second word

vars == <<published_idx, reader_counts, first, second, version, wrPC, wrIdx,
          rdPC, rdIdx, rdFirst, rdSecond>>

wrVars == <<published_idx, first, second, version, wrPC, wrIdx>>
rdVars == <<reader_counts, rdPC, rdIdx, rdFirst, rdSecond>>

\* RCU_BufferInit, after the slots were cleared.
Init ==
  /\ published_idx = 0
  /\ reader_counts = [s \in Slots |-> 0]
  /\ first = [s \in Slots |-> 0]
  /\ second = [s \in Slots |-> 0]
  /\ version = 0
  /\ wrPC = "idle"
  /\ wrIdx = 0
  /\ rdPC = [r \in Readers |-> "idle"]
  /\ rdIdx = [r \in Readers |-> 0]
  /\ rdFirst = [r \in Readers |-> 0]
  /\ rdSecond = [r \in Readers |-> 0]

-----------------------------------------------------------------------------
(* The writer: RCU_WriteReserve, the fill, RCU_WritePublish. *)

\* RCU_WriteReserve begins its search at slot 0.
Reserve ==
  /\ wrPC = "idle"
  /\ version < MaxVersions
  /\ wrPC' = "scan"
  /\ wrIdx' = 0
  /\ UNCHANGED <<published_idx, first, second, version, rdVars>>

\* The slot is published or pinned: look at the next one.
ScanNext ==
  /\ wrPC = "scan"
  /\ wrIdx < SlotCount
  /\ wrIdx = published_idx \/ reader_counts[wrIdx] > 0
  /\ wrIdx' = wrIdx + 1
  /\ UNCHANGED <<published_idx, first, second, version, wrPC, rdVars>>

\* Defect for WriterApart: any unpublished slot is taken.
ScanFoundUnchecked ==
  /\ wrPC = "scan"
  /\ wrIdx < SlotCount
  /\ wrIdx # published_idx
  /\ wrPC' = "fill"
  /\ UNCHANGED <<published_idx, first, second, version, wrIdx, rdVars>>

\* The slot is neither published nor pinned: it is reserved.
ScanFound ==
  /\ wrPC = "scan"
  /\ wrIdx < SlotCount
  /\ wrIdx # published_idx
  /\ reader_counts[wrIdx] = 0
  /\ wrPC' = "fill"
  /\ UNCHANGED <<published_idx, first, second, version, wrIdx, rdVars>>

\* Defect for NeverOlder: the caller publishes its index, still 0, although
\* nothing was reserved.
ScanFailedPublishes ==
  /\ wrPC = "scan"
  /\ wrIdx = SlotCount
  /\ published_idx' = 0
  /\ wrPC' = "idle"
  /\ UNCHANGED <<first, second, version, wrIdx, rdVars>>

\* Every slot is published or pinned: the caller drops this update.
ScanFailed ==
  /\ wrPC = "scan"
  /\ wrIdx = SlotCount
  /\ wrPC' = "idle"
  /\ UNCHANGED <<published_idx, first, second, version, wrIdx, rdVars>>

\* Defect for ImplementsSnapshot: the slot is published before it is filled.
FillPublished ==
  /\ wrPC = "fill"
  /\ published_idx' = wrIdx
  /\ first' = [first EXCEPT ![wrIdx] = version + 1]
  /\ wrPC' = "fillRest"
  /\ UNCHANGED <<second, version, wrIdx, rdVars>>

FillFirst ==
  /\ wrPC = "fill"
  /\ first' = [first EXCEPT ![wrIdx] = version + 1]
  /\ wrPC' = "fillRest"
  /\ UNCHANGED <<published_idx, second, version, wrIdx, rdVars>>

FillSecond ==
  /\ wrPC = "fillRest"
  /\ second' = [second EXCEPT ![wrIdx] = version + 1]
  /\ wrPC' = "publish"
  /\ UNCHANGED <<published_idx, first, version, wrIdx, rdVars>>

\* RCU_WritePublish.
Publish ==
  /\ wrPC = "publish"
  /\ published_idx' = wrIdx
  /\ version' = version + 1
  /\ wrPC' = "idle"
  /\ UNCHANGED <<first, second, wrIdx, rdVars>>

Writer ==
  \/ Reserve \/ ScanNext \/ ScanFound \/ ScanFailed
  \/ FillFirst \/ FillSecond \/ Publish

-----------------------------------------------------------------------------
(* A reader: RCU_ReadAcquire, two reads, RCU_ReadRelease. *)

\* With interrupts off: read published_idx and count the reader in.
Pin(r) ==
  /\ rdPC[r] = "idle"
  /\ rdIdx' = [rdIdx EXCEPT ![r] = published_idx]
  /\ reader_counts' = [reader_counts EXCEPT ![published_idx] = @ + 1]
  /\ rdPC' = [rdPC EXCEPT ![r] = "check"]
  /\ UNCHANGED <<wrVars, rdFirst, rdSecond>>

\* The slot is still the published one: the token is active.
Acquire(r) ==
  /\ rdPC[r] = "check"
  /\ published_idx = rdIdx[r]
  /\ rdPC' = [rdPC EXCEPT ![r] = "read"]
  /\ UNCHANGED <<wrVars, reader_counts, rdIdx, rdFirst, rdSecond>>

\* Defect for CountsExact: the retry forgets the count of the slot it left.
BackOutCounted(r) ==
  /\ rdPC[r] = "check"
  /\ published_idx # rdIdx[r]
  /\ rdPC' = [rdPC EXCEPT ![r] = "idle"]
  /\ UNCHANGED <<wrVars, reader_counts, rdIdx, rdFirst, rdSecond>>

\* The writer published another slot meanwhile: leave this one and retry.
BackOut(r) ==
  /\ rdPC[r] = "check"
  /\ published_idx # rdIdx[r]
  /\ rdPC' = [rdPC EXCEPT ![r] = "unpin"]
  /\ UNCHANGED <<wrVars, reader_counts, rdIdx, rdFirst, rdSecond>>

\* With interrupts off: count the reader out of the slot it left.
Unpin(r) ==
  /\ rdPC[r] = "unpin"
  /\ reader_counts' = [reader_counts EXCEPT ![rdIdx[r]] = @ - 1]
  /\ rdPC' = [rdPC EXCEPT ![r] = "idle"]
  /\ UNCHANGED <<wrVars, rdIdx, rdFirst, rdSecond>>

ReadFirst(r) ==
  /\ rdPC[r] = "read"
  /\ rdFirst' = [rdFirst EXCEPT ![r] = first[rdIdx[r]]]
  /\ rdPC' = [rdPC EXCEPT ![r] = "readRest"]
  /\ UNCHANGED <<wrVars, reader_counts, rdIdx, rdSecond>>

ReadSecond(r) ==
  /\ rdPC[r] = "readRest"
  /\ rdSecond' = [rdSecond EXCEPT ![r] = second[rdIdx[r]]]
  /\ rdPC' = [rdPC EXCEPT ![r] = "release"]
  /\ UNCHANGED <<wrVars, reader_counts, rdIdx, rdFirst>>

\* Defect for WriterProgress: the reader leaves without decrementing.
ReleaseUncounted(r) ==
  /\ rdPC[r] = "release"
  /\ rdPC' = [rdPC EXCEPT ![r] = "idle"]
  /\ UNCHANGED <<wrVars, reader_counts, rdIdx, rdFirst, rdSecond>>

\* RCU_ReadRelease.
Release(r) ==
  /\ rdPC[r] = "release"
  /\ reader_counts' = [reader_counts EXCEPT ![rdIdx[r]] = @ - 1]
  /\ rdPC' = [rdPC EXCEPT ![r] = "idle"]
  /\ UNCHANGED <<wrVars, rdIdx, rdFirst, rdSecond>>

\* What a reader does once it has pinned a slot.
Continue(r) ==
  \/ Acquire(r) \/ BackOut(r) \/ Unpin(r)
  \/ ReadFirst(r) \/ ReadSecond(r) \/ Release(r)

Reader(r) == Pin(r) \/ Continue(r)

-----------------------------------------------------------------------------

Next == Writer \/ \E r \in Readers : Reader(r)

Spec == Init /\ [][Next]_vars

\* The writer is driven by the camera or the sensor.  A reader that pinned a
\* slot runs on, unless it can be suspended; no reader need ever start.
FairSpec ==
  /\ Spec
  /\ WF_vars(Writer)
  /\ \A r \in Readers \ Suspendable : WF_vars(Continue(r))

-----------------------------------------------------------------------------
(* Properties. *)

ReaderPCs == {"idle", "check", "unpin", "read", "readRest", "release"}
WriterPCs == {"idle", "scan", "fill", "fillRest", "publish"}

TypeOK ==
  /\ published_idx \in Slots
  /\ reader_counts \in [Slots -> Nat]
  /\ first \in [Slots -> Nat]
  /\ second \in [Slots -> Nat]
  /\ version \in Nat
  /\ wrPC \in WriterPCs
  /\ wrIdx \in 0 .. SlotCount
  /\ rdPC \in [Readers -> ReaderPCs]
  /\ rdIdx \in [Readers -> Slots]
  /\ rdFirst \in [Readers -> Nat]
  /\ rdSecond \in [Readers -> Nat]

\* The readers that pin slot s, with an active token or on the way to one.
PinnedBy(s) == {r \in Readers : rdPC[r] # "idle" /\ rdIdx[r] = s}

\* The slot the writer is changing, if any.
Writing(s) == wrPC \in {"fill", "fillRest", "publish"} /\ wrIdx = s

\* reader_counts is exact: no interleaving of pins, retries and releases loses
\* an increment or decrements a count twice.  (A leaked count would take a
\* slot out of use for good, a lost one would let the writer overwrite it.)
CountsExact ==
  \A s \in Slots : reader_counts[s] = Cardinality(PinnedBy(s))

\* "Writer publishes into any non-published slot whose reader count is zero"
\* (rcu_buffer.h:16) excludes the readers for the whole fill, although the
\* count is tested only once and readers pin slots all the time.
WriterApart ==
  \A s \in Slots : Writing(s) => s # published_idx /\ PinnedBy(s) = {}

\* The version a reader with an active token holds: that of its slot.
holding ==
  [r \in Readers |-> IF rdPC[r] \in {"read", "readRest", "release"}
                     THEN first[rdIdx[r]] ELSE -1]

Abstract == INSTANCE Snapshot WITH NONE <- -1

\* Slots, counts and retries implement the atomic snapshot: the version a
\* reader holds is the last one when its token becomes active, does not change
\* until the release, and is the version of everything it reads, although the
\* writer searches, fills and publishes between any two of its steps.
ImplementsSnapshot == Abstract!Spec

\* A reader sees both words of one version, never halves of two, although
\* writer and reader take no lock.
ReadsOneVersion ==
  \A r \in Readers : rdPC[r] = "release" => rdFirst[r] = rdSecond[r]

\* A reader never goes back to an older version than it read before.
NeverOlder ==
  [][\A r \in Readers : rdFirst[r] <= rdFirst'[r]]_rdFirst

\* Suspending one reader while it pins a slot (UI_ThreadSuspend can do so)
\* does not stop the writer: all its versions are published in the end.
WriterProgress == <>(version = MaxVersions)
=============================================================================
