-------------------------- MODULE RcuBuffer_proof --------------------------
(***************************************************************************)
(* Proofs about RcuBuffer for any finite set of readers and any number of  *)
(* slots.                                                                  *)
(*                                                                         *)
(* The argument: a reader only ever pins the published slot, and the       *)
(* writer only ever fills an unpublished slot that nobody pinned; the      *)
(* counts are exact, so the writer's test of a count tells it so.  Hence   *)
(* a pinned slot does not change, and its two words agree.                 *)
(***************************************************************************)
EXTENDS RcuBuffer, FiniteSetTheorems, TLAPS

\* The slot under change is a slot, and its words carry the next version.
FillState ==
  /\ wrPC \in {"fill", "fillRest", "publish"} => wrIdx \in Slots
  /\ wrPC \in {"fillRest", "publish"} => first[wrIdx] = version + 1

\* The words of a slot differ only half way through a fill.
SlotsWhole ==
  \A s \in Slots : first[s] = second[s] \/ (wrPC = "fillRest" /\ wrIdx = s)

\* What a reader has read still is in the slot, and was not older than before.
ReadsCurrent ==
  \A r \in Readers :
    /\ rdPC[r] \in {"readRest", "release"} => rdFirst[r] = first[rdIdx[r]]
    /\ rdPC[r] = "read" => rdFirst[r] <= first[rdIdx[r]]
    /\ rdFirst[r] <= version

\* The published slot holds the last version.
PublishedIsLast == first[published_idx] = version

\* Only the slot under change may be ahead of the published version.
NoneAhead ==
  \A s \in Slots :
    first[s] <= version \/ (wrPC \in {"fillRest", "publish"} /\ wrIdx = s)

DataInv ==
  /\ FillState /\ NoneAhead /\ SlotsWhole /\ ReadsCurrent
  /\ PublishedIsLast

IndInv == TypeOK /\ CountsExact /\ WriterApart /\ DataInv /\ ReadsOneVersion

-----------------------------------------------------------------------------

\* The pinning readers are finitely many, and a reader that pins a slot is
\* among those of its slot.
LEMMA PinnedByFinite ==
  ASSUME NEW s
  PROVE  /\ IsFiniteSet(PinnedBy(s))
         /\ Cardinality(PinnedBy(s)) \in Nat
         /\ Cardinality(PinnedBy(s)) = 0 => PinnedBy(s) = {}
<1>1. IsFiniteSet(PinnedBy(s))
  BY RcuAssumption, FS_Subset DEF PinnedBy
<1> QED BY <1>1, FS_CardinalityType, FS_EmptySet

\* Counting a reader in or out changes the count of its slot by one.
LEMMA PinKeepsCounts ==
  ASSUME TypeOK, CountsExact, NEW r \in Readers, Pin(r)
  PROVE  CountsExact'
<1> SUFFICES ASSUME NEW s \in Slots
             PROVE  reader_counts'[s] = Cardinality(PinnedBy(s)')
  BY DEF CountsExact
<1>1. CASE s = published_idx
  <2>1. PinnedBy(s)' = PinnedBy(s) \cup {r} /\ r \notin PinnedBy(s)
    BY <1>1 DEF Pin, PinnedBy, TypeOK
  <2>2. reader_counts'[s] = Cardinality(PinnedBy(s)) + 1
    BY <1>1 DEF Pin, TypeOK, CountsExact
  <2> QED BY <2>1, <2>2, PinnedByFinite, FS_AddElement
<1>2. CASE s # published_idx
  <2>1. PinnedBy(s)' = PinnedBy(s)
    BY <1>2 DEF Pin, PinnedBy, TypeOK
  <2>2. reader_counts'[s] = reader_counts[s]
    BY <1>2 DEF Pin, TypeOK
  <2> QED BY <2>1, <2>2 DEF CountsExact
<1> QED BY <1>1, <1>2

LEMMA UnpinKeepsCounts ==
  ASSUME TypeOK, CountsExact, NEW r \in Readers, Unpin(r) \/ Release(r)
  PROVE  CountsExact' /\ reader_counts' \in [Slots -> Nat]
<1>1. /\ rdPC[r] # "idle" /\ rdPC' = [rdPC EXCEPT ![r] = "idle"]
      /\ rdIdx' = rdIdx
      /\ reader_counts' = [reader_counts EXCEPT ![rdIdx[r]] = @ - 1]
      /\ rdIdx[r] \in Slots
  BY DEF Unpin, Release, TypeOK
<1>2. ASSUME NEW s \in Slots
      PROVE  /\ reader_counts'[s] = Cardinality(PinnedBy(s)')
             /\ reader_counts'[s] \in Nat
  <2>1. CASE s = rdIdx[r]
    <3>1. PinnedBy(s)' = PinnedBy(s) \ {r} /\ r \in PinnedBy(s)
      BY <1>1, <2>1 DEF PinnedBy, TypeOK
    <3>2. reader_counts'[s] = Cardinality(PinnedBy(s)) - 1
      BY <1>1, <2>1 DEF TypeOK, CountsExact
    <3>3. /\ IsFiniteSet(PinnedBy(s)')
          /\ Cardinality(PinnedBy(s)') = Cardinality(PinnedBy(s)) - 1
      BY <3>1, PinnedByFinite, FS_RemoveElement
    <3> QED BY <3>2, <3>3, FS_CardinalityType
  <2>2. CASE s # rdIdx[r]
    <3>1. PinnedBy(s)' = PinnedBy(s)
      BY <1>1, <2>2 DEF PinnedBy, TypeOK
    <3>2. reader_counts'[s] = reader_counts[s]
      BY <1>1, <2>2 DEF TypeOK
    <3> QED BY <3>1, <3>2 DEF CountsExact, TypeOK
  <2> QED BY <2>1, <2>2
<1>3. reader_counts' \in [Slots -> Nat]
  BY <1>1, <1>2 DEF TypeOK
<1> QED BY <1>2, <1>3 DEF CountsExact

-----------------------------------------------------------------------------

LEMMA InitEstablishesIndInv == Init => IndInv
<1> SUFFICES ASSUME Init PROVE IndInv
  OBVIOUS
<1>1. TypeOK
  BY RcuAssumption DEF Init, TypeOK, Slots, ReaderPCs, WriterPCs
<1>2. CountsExact
  <2>1. \A s \in Slots : PinnedBy(s) = {}
    BY DEF Init, PinnedBy
  <2> QED BY <2>1, FS_EmptySet DEF Init, CountsExact
<1>3. WriterApart /\ DataInv /\ ReadsOneVersion
  BY RcuAssumption
  DEF Init, WriterApart, Writing, DataInv, FillState, NoneAhead, SlotsWhole,
      ReadsCurrent, PublishedIsLast, ReadsOneVersion, Slots
<1> QED BY <1>1, <1>2, <1>3 DEF IndInv

\* The writer's steps change neither counts nor readers, and the slot it fills
\* is pinned by nobody.
LEMMA WriterKeepsIndInv == IndInv /\ Writer => IndInv'
<1> SUFFICES ASSUME IndInv, Writer PROVE IndInv'
  OBVIOUS
<1> USE DEF IndInv, DataInv
<1>1. UNCHANGED rdVars
  BY DEF Writer, Reserve, ScanNext, ScanFound, ScanFailed, FillFirst,
     FillSecond, Publish
<1>2. \A s \in Slots : PinnedBy(s)' = PinnedBy(s)
  BY <1>1 DEF PinnedBy, rdVars
<1>3. CountsExact' /\ ReadsOneVersion'
  BY <1>1, <1>2 DEF CountsExact, ReadsOneVersion, rdVars
<1>4. CASE Reserve \/ ScanNext \/ ScanFailed
  <2>1. /\ wrPC' \in {"idle", "scan"} /\ wrIdx' \in 0 .. SlotCount
        /\ wrPC \in {"idle", "scan"}
        /\ UNCHANGED <<published_idx, first, second, version>>
    BY <1>4, RcuAssumption DEF Reserve, ScanNext, ScanFailed, TypeOK
  <2>2. TypeOK'
    BY <1>1, <2>1 DEF TypeOK, rdVars, WriterPCs
  <2>3. WriterApart' /\ FillState' /\ NoneAhead'
    BY <2>1 DEF WriterApart, Writing, FillState, NoneAhead
  <2>4. SlotsWhole' /\ ReadsCurrent' /\ PublishedIsLast'
    BY <1>1, <2>1 DEF SlotsWhole, ReadsCurrent, PublishedIsLast, rdVars
  <2> QED BY <1>3, <2>2, <2>3, <2>4
<1>5. CASE ScanFound
  <2>1. /\ wrIdx \in Slots /\ wrIdx # published_idx
        /\ reader_counts[wrIdx] = 0
        /\ wrPC = "scan" /\ wrPC' = "fill"
        /\ UNCHANGED <<published_idx, first, second, version, wrIdx>>
    BY <1>5, RcuAssumption DEF ScanFound, TypeOK, Slots
  <2>2. TypeOK'
    BY <1>1, <2>1 DEF TypeOK, rdVars, WriterPCs
  <2>3. PinnedBy(wrIdx) = {}
    BY <2>1, PinnedByFinite DEF CountsExact
  <2>4. WriterApart' /\ FillState' /\ NoneAhead'
    BY <1>2, <2>1, <2>3 DEF WriterApart, Writing, FillState, NoneAhead
  <2>5. SlotsWhole' /\ ReadsCurrent' /\ PublishedIsLast'
    BY <1>1, <2>1 DEF SlotsWhole, ReadsCurrent, PublishedIsLast, rdVars
  <2> QED BY <1>3, <2>2, <2>4, <2>5
<1>6. CASE FillFirst \/ FillSecond
  <2>1. /\ wrIdx \in Slots /\ wrIdx # published_idx
        /\ PinnedBy(wrIdx) = {}
        /\ wrIdx' = wrIdx /\ version' = version
        /\ published_idx' = published_idx
    BY <1>6 DEF FillFirst, FillSecond, WriterApart, Writing, FillState
  <2>2. \A r \in Readers : rdPC[r] # "idle" => rdIdx[r] # wrIdx
    BY <2>1 DEF PinnedBy
  <2>3. TypeOK'
    BY <1>1, <1>6 DEF FillFirst, FillSecond, TypeOK, rdVars, WriterPCs
  <2>4. \A s \in Slots : s # wrIdx => first'[s] = first[s]
    BY <1>6 DEF FillFirst, FillSecond, TypeOK
  <2>5. WriterApart' /\ FillState' /\ SlotsWhole'
    BY <1>2, <1>6, <2>1 DEF FillFirst, FillSecond, WriterApart, Writing,
       FillState, SlotsWhole, TypeOK
  <2>6. NoneAhead'
    BY <1>6 DEF FillFirst, FillSecond, NoneAhead, TypeOK
  <2>7. ReadsCurrent' /\ PublishedIsLast'
    BY <1>1, <2>1, <2>2, <2>4 DEF ReadsCurrent, PublishedIsLast, TypeOK, rdVars
  <2> QED BY <1>3, <2>3, <2>5, <2>6, <2>7
<1>7. CASE Publish
  <2>1. /\ wrIdx \in Slots /\ first[wrIdx] = version + 1
        /\ published_idx' = wrIdx /\ version' = version + 1
        /\ wrPC = "publish" /\ wrPC' = "idle"
        /\ UNCHANGED <<first, second, wrIdx>>
    BY <1>7 DEF Publish, FillState
  <2>2. TypeOK'
    BY <1>1, <2>1 DEF TypeOK, rdVars, WriterPCs
  <2>3. WriterApart' /\ FillState' /\ SlotsWhole' /\ PublishedIsLast'
    BY <2>1 DEF WriterApart, Writing, FillState, SlotsWhole, PublishedIsLast
  <2>4. ReadsCurrent' /\ NoneAhead'
    BY <1>1, <2>1 DEF ReadsCurrent, NoneAhead, TypeOK, rdVars
  <2> QED BY <1>3, <2>2, <2>3, <2>4
<1> QED BY <1>4, <1>5, <1>6, <1>7 DEF Writer

\* A reader's steps change counts and its own state only, and it newly pins
\* the published slot only.
LEMMA ReaderKeepsIndInv ==
  ASSUME IndInv, NEW r \in Readers, Reader(r)
  PROVE  IndInv'
<1> USE DEF IndInv, DataInv
<1>1. UNCHANGED wrVars
  BY DEF Reader, Continue, Pin, Acquire, BackOut, Unpin, ReadFirst, ReadSecond,
     Release
<1>2. FillState' /\ NoneAhead' /\ SlotsWhole' /\ PublishedIsLast'
  BY <1>1 DEF wrVars, FillState, NoneAhead, SlotsWhole, PublishedIsLast
<1>3. ASSUME \A s \in Slots : s # published_idx => PinnedBy(s)' \subseteq PinnedBy(s)
      PROVE  WriterApart'
  BY <1>1, <1>3 DEF WriterApart, Writing, wrVars
<1>4. CASE Pin(r)
  <2>1. TypeOK'
    BY <1>1, <1>4 DEF Pin, TypeOK, wrVars, ReaderPCs
  <2>2. CountsExact'
    BY <1>4, PinKeepsCounts
  <2>3. WriterApart'
    BY <1>3, <1>4 DEF Pin, PinnedBy, TypeOK
  <2>4. ReadsCurrent' /\ ReadsOneVersion'
    BY <1>1, <1>4 DEF Pin, ReadsCurrent, ReadsOneVersion, TypeOK, wrVars
  <2> QED BY <1>2, <2>1, <2>2, <2>3, <2>4
<1>5. CASE Unpin(r) \/ Release(r)
  <2>1. CountsExact' /\ reader_counts' \in [Slots -> Nat]
    BY <1>5, UnpinKeepsCounts
  <2>2. TypeOK'
    BY <1>1, <1>5, <2>1 DEF Unpin, Release, TypeOK, wrVars, ReaderPCs
  <2>3. WriterApart'
    BY <1>3, <1>5 DEF Unpin, Release, PinnedBy, TypeOK
  <2>4. ReadsCurrent' /\ ReadsOneVersion'
    BY <1>1, <1>5 DEF Unpin, Release, ReadsCurrent, ReadsOneVersion, TypeOK,
       wrVars
  <2> QED BY <1>2, <2>1, <2>2, <2>3, <2>4
<1>6. CASE Acquire(r) \/ BackOut(r) \/ ReadFirst(r) \/ ReadSecond(r)
  <2>1. /\ rdPC[r] # "idle" /\ rdPC'[r] # "idle"
        /\ UNCHANGED <<reader_counts, rdIdx>>
        /\ \A q \in Readers : q # r => rdPC'[q] = rdPC[q]
    BY <1>6 DEF Acquire, BackOut, ReadFirst, ReadSecond, TypeOK
  <2>2. \A s \in Slots : PinnedBy(s)' = PinnedBy(s)
    BY <2>1 DEF PinnedBy
  <2>3. CountsExact' /\ WriterApart'
    BY <1>3, <2>1, <2>2 DEF CountsExact
  <2>4. TypeOK'
    BY <1>1, <1>6 DEF Acquire, BackOut, ReadFirst, ReadSecond, TypeOK, wrVars,
       ReaderPCs
  <2>5. rdIdx[r] \in Slots /\ ~(wrPC = "fillRest" /\ wrIdx = rdIdx[r])
    BY <2>1 DEF WriterApart, Writing, PinnedBy, TypeOK
  <2>6. first[rdIdx[r]] = second[rdIdx[r]]
    BY <2>5 DEF SlotsWhole
  <2>7. ReadsOneVersion'
    BY <1>6, <2>6 DEF Acquire, BackOut, ReadFirst, ReadSecond, ReadsOneVersion,
       ReadsCurrent, TypeOK
  <2>8. ReadsCurrent'
    <3>1. CASE Acquire(r)
      BY <1>1, <3>1 DEF Acquire, ReadsCurrent, PublishedIsLast, TypeOK, wrVars
    <3>2. CASE BackOut(r) \/ ReadSecond(r)
      BY <1>1, <3>2 DEF BackOut, ReadSecond, ReadsCurrent, TypeOK, wrVars
    <3>3. CASE ReadFirst(r)
      <4>1. first[rdIdx[r]] <= version
        BY <2>1, <2>5 DEF NoneAhead, WriterApart, Writing, PinnedBy
      <4> QED
        BY <1>1, <3>3, <4>1 DEF ReadFirst, ReadsCurrent, TypeOK, wrVars
    <3> QED BY <1>6, <3>1, <3>2, <3>3
  <2> QED BY <1>2, <2>3, <2>4, <2>7, <2>8
<1> QED BY <1>4, <1>5, <1>6 DEF Reader, Continue

LEMMA StutterKeepsIndInv == IndInv /\ UNCHANGED vars => IndInv'
<1> SUFFICES ASSUME IndInv, UNCHANGED vars PROVE IndInv'
  OBVIOUS
<1>1. \A s \in Slots : PinnedBy(s)' = PinnedBy(s)
  BY DEF vars, PinnedBy
<1> QED
  BY <1>1 DEF vars, IndInv, TypeOK, CountsExact, WriterApart, Writing,
     DataInv, FillState, NoneAhead, SlotsWhole, ReadsCurrent,
     PublishedIsLast, ReadsOneVersion

-----------------------------------------------------------------------------

THEOREM IndInvHolds == Spec => []IndInv
<1>1. IndInv /\ [Next]_vars => IndInv'
  BY WriterKeepsIndInv, ReaderKeepsIndInv, StutterKeepsIndInv DEF Next
<1> QED BY <1>1, InitEstablishesIndInv, PTL DEF Spec

\* Type correctness: no reader count drops below zero and published_idx always
\* names a slot.
THEOREM TypeCorrect == Spec => []TypeOK
<1>1. IndInv => TypeOK
  BY DEF IndInv
<1> QED BY <1>1, IndInvHolds, PTL

\* For any readers, reader_counts is the number of readers that pin the slot.
THEOREM CountsAreExact == Spec => []CountsExact
<1>1. IndInv => CountsExact
  BY DEF IndInv
<1> QED BY <1>1, IndInvHolds, PTL

\* For any readers, the slot the writer fills is unpublished and unpinned from
\* the test of its count to its publication.
THEOREM WriterIsApart == Spec => []WriterApart
<1>1. IndInv => WriterApart
  BY DEF IndInv
<1> QED BY <1>1, IndInvHolds, PTL

\* For any readers, what is read between RCU_ReadAcquire and RCU_ReadRelease
\* belongs to one version.
THEOREM ReadersSeeOneVersion == Spec => []ReadsOneVersion
<1>1. IndInv => ReadsOneVersion
  BY DEF IndInv
<1> QED BY <1>1, IndInvHolds, PTL

\* For any readers, no reader returns to an older version.
THEOREM ReadersNeverGoBack == Spec => NeverOlder
<1>1. IndInv /\ [Next]_vars =>
        [\A r \in Readers : rdFirst[r] <= rdFirst'[r]]_rdFirst
  <2> SUFFICES ASSUME IndInv, Next, rdFirst' # rdFirst, NEW r \in Readers
               PROVE  rdFirst[r] <= rdFirst'[r]
    BY DEF vars
  <2>1. PICK q \in Readers : ReadFirst(q)
    BY DEF Next, Writer, Reserve, ScanNext, ScanFound, ScanFailed, FillFirst,
       FillSecond, Publish, rdVars, Reader, Continue, Pin, Acquire, BackOut,
       Unpin, ReadSecond, Release
  <2> QED
    BY <2>1 DEF ReadFirst, IndInv, DataInv, ReadsCurrent, TypeOK
<1> QED BY <1>1, IndInvHolds, PTL DEF Spec, NeverOlder

-----------------------------------------------------------------------------
(* Refinement. *)

\* A reader with an active token, and no other, holds a version.
LEMMA HeldVersion ==
  ASSUME TypeOK
  PROVE  /\ \A r \in Readers :
              IF rdPC[r] \in {"read", "readRest", "release"}
              THEN holding[r] = first[rdIdx[r]] /\ holding[r] \in Nat
              ELSE holding[r] = -1
         /\ DOMAIN holding = Readers
         /\ holding = [r \in Readers |-> holding[r]]
  BY DEF holding, TypeOK

\* The slots that readers hold do not change under them.
LEMMA WriterImplements ==
  ASSUME IndInv, Writer
  PROVE  Abstract!Publish \/ UNCHANGED Abstract!vars
<1> USE DEF IndInv, DataInv
<1>1. UNCHANGED <<rdPC, rdIdx, rdFirst, rdSecond>>
  BY DEF Writer, Reserve, ScanNext, ScanFound, ScanFailed, FillFirst, FillSecond,
     Publish, rdVars
<1>2. ASSUME NEW r \in Readers, rdPC[r] # "idle"
      PROVE  first'[rdIdx[r]] = first[rdIdx[r]]
  <2>1. rdIdx[r] \in Slots /\ ~Writing(rdIdx[r])
    BY <1>2 DEF WriterApart, PinnedBy, TypeOK
  <2> QED
    BY <2>1 DEF Writing, TypeOK, Writer, Reserve, ScanNext, ScanFound, ScanFailed,
       FillFirst, FillSecond, Publish
<1>3. holding' = holding
  BY <1>1, <1>2 DEF holding
<1>4. CASE Publish
  BY <1>1, <1>3, <1>4 DEF Publish, Abstract!Publish
<1>5. CASE Reserve \/ ScanNext \/ ScanFound \/ ScanFailed \/ FillFirst \/ FillSecond
  <2>1. version' = version
    BY <1>5 DEF Reserve, ScanNext, ScanFound, ScanFailed, FillFirst, FillSecond
  <2> QED
    BY <1>1, <1>3, <2>1 DEF Abstract!vars
<1> QED
  BY <1>4, <1>5 DEF Writer

\* A token that becomes active is on the last version; what is read with it is
\* of that version.
LEMMA ReaderImplements ==
  ASSUME IndInv, NEW r \in Readers, Reader(r)
  PROVE  \/ Abstract!Acquire(r) \/ Abstract!ReadFirst(r)
         \/ Abstract!ReadSecond(r) \/ Abstract!Release(r)
         \/ UNCHANGED Abstract!vars
<1> USE DEF IndInv, DataInv
<1>1. UNCHANGED <<version, first, second, published_idx>>
  BY DEF Reader, Continue, Pin, Acquire, BackOut, Unpin, ReadFirst, ReadSecond,
     Release, wrVars
<1>2. \A q \in Readers \ {r} : rdPC'[q] = rdPC[q] /\ rdIdx'[q] = rdIdx[q]
  BY DEF Reader, Continue, Pin, Acquire, BackOut, Unpin, ReadFirst, ReadSecond,
     Release, TypeOK
<1>3. \A q \in Readers \ {r} : holding'[q] = holding[q]
  BY <1>1, <1>2 DEF holding
<1>4. CASE Pin(r) \/ BackOut(r) \/ Unpin(r)
  <2>1. /\ rdPC[r] \notin {"read", "readRest", "release"}
        /\ rdPC'[r] \notin {"read", "readRest", "release"}
        /\ UNCHANGED <<rdFirst, rdSecond>>
    BY <1>4 DEF Pin, BackOut, Unpin, TypeOK
  <2>2. holding' = holding
    BY <1>1, <1>2, <2>1 DEF holding
  <2> QED
    BY <1>1, <2>1, <2>2 DEF Abstract!vars
<1>5. CASE Acquire(r)
  <2>1. /\ rdPC[r] = "check" /\ rdPC'[r] = "read" /\ rdIdx[r] = published_idx
        /\ UNCHANGED <<rdIdx, rdFirst, rdSecond>>
    BY <1>5 DEF Acquire, TypeOK
  <2>2. holding[r] = -1 /\ holding'[r] = version
    BY <1>1, <2>1 DEF holding, PublishedIsLast
  <2>3. holding' = [holding EXCEPT ![r] = version]
    BY <1>3, <2>2 DEF holding
  <2> QED
    BY <1>1, <2>1, <2>2, <2>3 DEF Abstract!Acquire
<1>6. CASE ReadFirst(r) \/ ReadSecond(r)
  <2>1. /\ rdPC[r] \in {"read", "readRest"} /\ rdPC'[r] \in {"readRest", "release"}
        /\ UNCHANGED rdIdx
    BY <1>6 DEF ReadFirst, ReadSecond, TypeOK
  <2>2. holding' = holding
    BY <1>1, <1>2, <2>1 DEF holding
  <2>3. holding[r] = first[rdIdx[r]] /\ holding[r] # -1
    BY <2>1, HeldVersion
  <2>4. rdIdx[r] \in Slots /\ ~Writing(rdIdx[r])
    BY <2>1 DEF WriterApart, PinnedBy, TypeOK
  <2>5. second[rdIdx[r]] = holding[r]
    BY <2>3, <2>4 DEF SlotsWhole, Writing
  <2>6. CASE ReadFirst(r)
    BY <1>1, <2>2, <2>3, <2>6 DEF ReadFirst, Abstract!ReadFirst
  <2>7. CASE ReadSecond(r)
    BY <1>1, <2>2, <2>3, <2>5, <2>7 DEF ReadSecond, Abstract!ReadSecond
  <2> QED
    BY <1>6, <2>6, <2>7
<1>7. CASE Release(r)
  <2>1. /\ rdPC[r] = "release" /\ rdPC'[r] = "idle"
        /\ UNCHANGED <<rdIdx, rdFirst, rdSecond>>
    BY <1>7 DEF Release, TypeOK
  <2>2. holding[r] = first[rdIdx[r]] /\ holding[r] # -1
    BY <2>1, HeldVersion
  <2>3. rdFirst[r] = holding[r] /\ rdSecond[r] = holding[r]
    BY <2>1, <2>2 DEF ReadsCurrent, ReadsOneVersion
  <2>4. holding'[r] = -1
    BY <2>1 DEF holding
  <2>5. holding' = [holding EXCEPT ![r] = -1]
    BY <1>3, <2>4 DEF holding
  <2> QED
    BY <1>1, <2>1, <2>2, <2>3, <2>5 DEF Abstract!Release
<1> QED
  BY <1>4, <1>5, <1>6, <1>7 DEF Reader, Continue

\* For any slots and readers, the buffer is an atomic snapshot object: pinning,
\* checking and backing out (rcu_buffer.h:61) acquire the last version at once,
\* and nothing the writer does reaches a reader before its next acquisition.
THEOREM SlotsImplementSnapshot == Spec => ImplementsSnapshot
<1>1. Init => Abstract!Init
  BY DEF Init, Abstract!Init, holding
<1>2. IndInv /\ [Next]_vars => [Abstract!Next]_(Abstract!vars)
  <2> SUFFICES ASSUME IndInv, [Next]_vars
               PROVE  Abstract!Next \/ UNCHANGED Abstract!vars
    OBVIOUS
  <2>1. CASE Writer
    BY <2>1, WriterImplements DEF Abstract!Next
  <2>2. CASE \E r \in Readers : Reader(r)
    BY <2>2, ReaderImplements DEF Abstract!Next
  <2>3. CASE UNCHANGED vars
    <3>1. UNCHANGED <<version, rdFirst, rdSecond>> /\ holding' = holding
      BY <2>3 DEF vars, holding
    <3> QED
      BY <3>1 DEF Abstract!vars
  <2> QED
    BY <2>1, <2>2, <2>3 DEF Next
<1> QED
  BY <1>1, <1>2, IndInvHolds, PTL DEF Spec, ImplementsSnapshot, Abstract!Spec
=============================================================================
