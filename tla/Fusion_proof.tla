---------------------------- MODULE Fusion_proof ----------------------------
(***************************************************************************)
(* Proofs about Fusion, for any table, any tracks and any number of misses.*)
(*                                                                         *)
(* What is stated of the table between two runs has to be known in the     *)
(* middle of one: Ageing says that an entry touched in this run is new and *)
(* every other one counts the runs since its track was measured.           *)
(***************************************************************************)
EXTENDS Fusion, TLAPS

-----------------------------------------------------------------------------
(* The inductive invariant. *)

Ageing ==
  /\ \A s \in touched : /\ ema[s].track # NULL /\ ema[s].missed = 0
                        /\ unseen[ema[s].track] = -1
  /\ \A s \in Slots \ touched :
       ema[s].track # NULL => /\ unseen[ema[s].track] = ema[s].missed
                              /\ ema[s].missed < MaxMissed
  /\ pc # "persons" => touched = {}

IndInv == TypeOK /\ OneEntryPerTrack /\ Ageing

-----------------------------------------------------------------------------

\* The table is empty at the start.
LEMMA InitEstablishes == Init => IndInv
<1> SUFFICES ASSUME Init PROVE IndInv
  OBVIOUS
<1> USE FusionAssumption
<1>1. TypeOK
  <2>1. Free \in Entry
    BY DEF Free, Entry, Distances
  <2>2. ema \in [Slots -> Entry]
    BY <2>1 DEF Init
  <2>3. nearest \in 1 .. Far + 1 /\ unseen \in [Tracks -> -1 .. MaxMissed]
    BY DEF Init
  <2> QED
    BY <2>2, <2>3 DEF Init, TypeOK
<1>2. OneEntryPerTrack
  BY DEF Init, OneEntryPerTrack, Free
<1>3. Ageing
  BY DEF Init, Ageing, Free
<1> QED
  BY <1>1, <1>2, <1>3 DEF IndInv

\* A measurement writes one entry, that of its track, or the first free one when
\* the track has none.
LEMMA MeasureKeeps ==
  ASSUME IndInv, NEW t \in Tracks, NEW raw \in Distances, Measure(t, raw)
  PROVE  IndInv'
<1> USE FusionAssumption
<1> USE DEF IndInv
<1>0. ema \in [Slots -> Entry] /\ unseen \in [Tracks -> -1 .. MaxMissed]
  BY DEF TypeOK
<1>a. ASSUME NEW d \in Distances, nearest' = Smaller(nearest, d),
             ema' \in [Slots -> Entry], touched' \subseteq Slots
      PROVE  TypeOK'
  <2>1. nearest' \in 1 .. Far + 1
    BY <1>a DEF TypeOK, Smaller, Distances
  <2>2. unseen' = [unseen EXCEPT ![t] = -1] /\ -1 \in -1 .. MaxMissed
    BY DEF Measure
  <2>3. unseen' \in [Tracks -> -1 .. MaxMissed]
    BY <1>0, <2>2
  <2> QED
    BY <1>a, <2>1, <2>3 DEF TypeOK, Measure, sceneVars
<1>c. ASSUME NEW s \in Slots, touched' = touched \cup {s},
             ema'[s].track = t, ema'[s].missed = 0,
             \A r \in Slots \ {s} : ema'[r] = ema[r] /\ ema[r].track # t
      PROVE  Ageing'
  <2>1. unseen' = [unseen EXCEPT ![t] = -1] /\ pc' = "persons" /\ t # NULL
    BY DEF Measure
  <2>2. unseen'[t] = -1
    BY <1>0, <2>1
  <2>3. ASSUME NEW r \in Slots \ {s}, ema[r].track # NULL
        PROVE  unseen'[ema[r].track] = unseen[ema[r].track]
    BY <1>0, <1>c, <2>1, <2>3 DEF Entry
  <2>4. touched \subseteq Slots
    BY DEF TypeOK
  <2>5. ASSUME NEW r \in touched'
        PROVE  ema'[r].track # NULL /\ ema'[r].missed = 0 /\ unseen'[ema'[r].track] = -1
    <3>1. CASE r = s
      BY <1>c, <2>1, <2>2, <3>1
    <3>2. CASE r # s
      BY <1>c, <2>3, <2>4, <2>5, <3>2 DEF Ageing
    <3> QED
      BY <3>1, <3>2
  <2>6. ASSUME NEW r \in Slots \ touched', ema'[r].track # NULL
        PROVE  unseen'[ema'[r].track] = ema'[r].missed /\ ema'[r].missed < MaxMissed
    BY <1>c, <2>3, <2>6 DEF Ageing
  <2> QED
    BY <2>1, <2>5, <2>6 DEF Ageing
<1>b. ASSUME NEW d \in Distances
      PROVE  [track |-> t, dist |-> d, missed |-> 0] \in Entry
  BY DEF Entry
<1>1. CASE \E s \in Entries(t), d \in Distances :
             /\ Smooth(t, raw, s, d)
             /\ touched' = touched \cup {s}
             /\ nearest' = Smaller(nearest, d)
  <2> PICK s \in Entries(t), d \in Distances :
             /\ Smooth(t, raw, s, d)
             /\ touched' = touched \cup {s}
             /\ nearest' = Smaller(nearest, d)
    BY <1>1
  <2>1. s \in Slots /\ ema[s].track = t
    BY DEF Entries
  <2>2. ema' = [ema EXCEPT ![s] = [track |-> t, dist |-> d, missed |-> 0]]
    BY DEF Smooth
  <2>3. TypeOK'
    BY <1>0, <1>a, <1>b, <2>1, <2>2 DEF TypeOK
  <2>4. OneEntryPerTrack'
    BY <1>0, <2>1, <2>2 DEF OneEntryPerTrack
  <2>5. Ageing'
    <3>1. \A r \in Slots \ {s} : ema'[r] = ema[r] /\ ema[r].track # t
      BY <1>0, <2>1, <2>2 DEF OneEntryPerTrack
    <3>2. ema'[s].track = t /\ ema'[s].missed = 0 /\ t # NULL
      BY <1>0, <2>1, <2>2
    <3> QED
      BY <1>c, <2>1, <3>1, <3>2 DEF Measure
  <2> QED
    BY <2>3, <2>4, <2>5
<1>2. CASE /\ Entries(t) = {}
           /\ \E s \in FreeSlots :
                /\ TakeOver(t, raw, s)
                /\ touched' = touched \cup {s}
           /\ nearest' = Smaller(nearest, raw)
  <2> PICK s \in FreeSlots : TakeOver(t, raw, s) /\ touched' = touched \cup {s}
    BY <1>2
  <2>1. s \in Slots /\ ema[s].track = NULL
    BY DEF FreeSlots, Entries
  <2>2. ema' = [ema EXCEPT ![s] = [track |-> t, dist |-> raw, missed |-> 0]]
    BY DEF TakeOver
  <2>3. \A r \in Slots : ema[r].track # t
    BY <1>2 DEF Entries
  <2>4. TypeOK'
    BY <1>0, <1>2, <1>a, <1>b, <2>1, <2>2 DEF TypeOK
  <2>5. OneEntryPerTrack'
    BY <1>0, <2>1, <2>2, <2>3 DEF OneEntryPerTrack
  <2>6. Ageing'
    <3>1. \A r \in Slots \ {s} : ema'[r] = ema[r]
      BY <1>0, <2>1, <2>2
    <3>2. ema'[s].track = t /\ ema'[s].missed = 0
      BY <1>0, <2>1, <2>2
    <3> QED
      BY <1>c, <2>1, <2>3, <3>1, <3>2 DEF Measure
  <2> QED
    BY <2>4, <2>5, <2>6
<1>3. CASE /\ Entries(t) = {} /\ FreeSlots = {}
           /\ nearest' = Smaller(nearest, raw)
           /\ UNCHANGED <<ema, touched>>
  <2>1. \A r \in Slots : ema[r].track # t
    BY <1>3 DEF Entries
  <2>2. TypeOK'
    BY <1>0, <1>3, <1>a DEF TypeOK
  <2>3. OneEntryPerTrack'
    BY <1>3 DEF OneEntryPerTrack
  <2>4. Ageing'
    <3>1. \A r \in Slots : ema[r].track # NULL =>
            unseen'[ema[r].track] = unseen[ema[r].track]
      BY <1>0, <2>1 DEF Measure, Entry
    <3> QED
      BY <1>3, <3>1 DEF Ageing, Measure, TypeOK
  <2> QED
    BY <2>2, <2>3, <2>4
<1> QED
  BY <1>1, <1>2, <1>3 DEF Measure

\* At the end of a run every entry is one run older, or left the table.
LEMMA AgeKeeps == ASSUME IndInv, Age PROVE IndInv'
<1> USE FusionAssumption
<1> USE DEF IndInv
<1>0. ema \in [Slots -> Entry] /\ unseen \in [Tracks -> -1 .. MaxMissed]
  BY DEF TypeOK
<1>1. ASSUME NEW s \in Slots
      PROVE  \/ ema'[s] = ema[s] /\ (ema[s].track = NULL \/ s \in touched)
             \/ ema'[s] = Free
             \/ /\ ema[s].track # NULL /\ s \notin touched
                /\ ema'[s] = Aged(ema[s]) /\ ema[s].missed + 1 < MaxMissed
  BY <1>0, SMTT(30) DEF Age, Leaving, Entry
<1>2. \A s \in Slots : /\ ema'[s].track \in {ema[s].track, NULL}
                       /\ ema'[s] \in Entry
  <2> TAKE s \in Slots
  <2>1. Free \in Entry /\ Free.track = NULL
    BY DEF Free, Entry, Distances
  <2>2. ema[s] \in Entry
    BY <1>0
  <2>3. CASE ema'[s] = Aged(ema[s]) /\ ema[s].missed + 1 < MaxMissed
    BY <2>2, <2>3 DEF Aged, Entry
  <2> QED
    BY <1>1, <2>1, <2>2, <2>3
<1>3. TypeOK'
  <2>1. ema' \in [Slots -> Entry]
    BY <1>2 DEF Age
  <2>2. unseen' \in [Tracks -> -1 .. MaxMissed]
    BY <1>0 DEF Age, Smaller
  <2>3. led' \in BOOLEAN
    BY DEF Age, Fires
  <2> QED
    BY <2>1, <2>2, <2>3 DEF TypeOK, Age, sceneVars
<1>4. OneEntryPerTrack'
  BY <1>0, <1>2 DEF OneEntryPerTrack
<1>5. Ageing'
  <2>1. touched' = {} /\ pc' = "wait"
    BY DEF Age
  <2>2. ASSUME NEW s \in Slots, ema'[s].track # NULL
        PROVE  unseen'[ema'[s].track] = ema'[s].missed /\ ema'[s].missed < MaxMissed
    <3>1. ema'[s] # Free
      BY <2>2 DEF Free
    <3>2. ema'[s].track = ema[s].track /\ ema[s].track \in Tracks
      BY <1>0, <1>2, <2>2 DEF Entry
    <3>3. unseen'[ema[s].track] = Smaller(unseen[ema[s].track] + 1, MaxMissed)
      BY <3>2 DEF Age, Entries
    <3>4. CASE ema'[s] = ema[s] /\ s \in touched
      BY <1>0, <3>2, <3>3, <3>4 DEF Ageing, Smaller
    <3>5. CASE /\ s \notin touched
               /\ ema'[s] = Aged(ema[s]) /\ ema[s].missed + 1 < MaxMissed
      <4>1. ema[s] \in Entry
        BY <1>0
      <4>2. ema'[s].missed = ema[s].missed + 1 /\ ema[s].missed \in 0 .. MaxMissed
        BY <3>5, <4>1 DEF Aged, Entry
      <4>3. unseen[ema[s].track] = ema[s].missed
        BY <3>2, <3>5, <2>2 DEF Ageing
      <4> QED
        BY <3>2, <3>3, <3>5, <4>2, <4>3 DEF Smaller
    <3> QED
      BY <1>1, <2>2, <3>1, <3>2, <3>4, <3>5
  <2> QED
    BY <2>1, <2>2 DEF Ageing
<1> QED
  BY <1>3, <1>4, <1>5

\* Every step preserves the invariant; only Measure and Age change the table.
LEMMA Invariance == IndInv /\ [Next]_vars => IndInv'
<1> SUFFICES ASSUME IndInv, [Next]_vars PROVE IndInv'
  OBVIOUS
<1> USE FusionAssumption
<1> DEFINE Same == UNCHANGED <<ema, touched, nearest, unseen>>
<1>0. ASSUME Same, TypeOK', pc' # "persons" => pc # "persons"
      PROVE  IndInv'
  BY <1>0 DEF IndInv, OneEntryPerTrack, Ageing
<1>1. CASE SetPersonDetections
  <2>1. TypeOK' /\ Same /\ pc' = pc
    BY <1>1 DEF SetPersonDetections, Publishes, TypeOK, IndInv, tableVars
  <2> QED
    BY <1>0, <2>1
<1>2. CASE SetAlertThreshold
  <2>1. TypeOK' /\ Same /\ pc' = pc
    BY <1>2 DEF SetAlertThreshold, TypeOK, IndInv, tableVars
  <2> QED
    BY <1>0, <2>1
<1>3. CASE StayNear
  <2>1. TypeOK' /\ Same /\ pc' = pc
    BY <1>3 DEF StayNear, TypeOK, IndInv, tableVars
  <2> QED
    BY <1>0, <2>1
<1>4. CASE WakeUp
  <2>1. TypeOK' /\ Same /\ pc # "persons"
    BY <1>4 DEF WakeUp, TypeOK, IndInv, tableVars
  <2> QED
    BY <1>0, <2>1
<1>5. CASE AcquireStale
  <2>1. TypeOK' /\ Same /\ pc # "persons"
    BY <1>5 DEF AcquireStale, TypeOK, IndInv, tableVars
  <2> QED
    BY <1>0, <2>1
<1>6. CASE AcquirePaired
  <2>1. TypeOK' /\ Same /\ pc # "persons"
    BY <1>6 DEF AcquirePaired, TypeOK, IndInv, tableVars
  <2> QED
    BY <1>0, <2>1
<1>7. CASE \E t \in Tracks : NoDepth(t)
  <2> PICK t \in Tracks : NoDepth(t)
    BY <1>7
  <2>1. TypeOK' /\ Same /\ pc' = pc
    BY DEF NoDepth, TypeOK, IndInv, tableVars, sceneVars
  <2> QED
    BY <1>0, <2>1
<1>8. CASE \E t \in Tracks, raw \in Distances : Measure(t, raw)
  BY <1>8, MeasureKeeps
<1>9. CASE Age
  BY <1>9, AgeKeeps
<1>10. CASE UNCHANGED vars
  <2>1. TypeOK' /\ Same /\ pc' = pc
    BY <1>10 DEF vars, TypeOK, IndInv, tableVars, sceneVars
  <2> QED
    BY <1>0, <2>1
<1> QED
  BY <1>1, <1>2, <1>3, <1>4, <1>5, <1>6, <1>7, <1>8, <1>9, <1>10 DEF Next, Fuse

LEMMA Inductive == Spec => []IndInv
<1> QED
  BY InitEstablishes, Invariance, PTL DEF Spec

-----------------------------------------------------------------------------
(* Theorems. *)

\* The state of the fusion thread and its table keeps its types: in particular the
\* missed count of an entry never passes TOF_EMA_MAX_MISSED.
THEOREM TypeCorrect == Spec => []TypeOK
<1>1. IndInv => TypeOK
  BY DEF IndInv
<1> QED
  BY <1>1, Inductive, PTL

\* No track has two entries of the table (the search of tof_fusion.c:253-264 runs
\* on past free entries).
THEOREM TracksHaveOneEntry == Spec => []OneEntryPerTrack
<1>1. IndInv => OneEntryPerTrack
  BY DEF IndInv
<1> QED
  BY <1>1, Inductive, PTL

\* Tracks that went away leave the table in time (tof_fusion.c:292-300).
THEOREM LostTracksLeaveInTime == Spec => []EvictedInTime
<1>1. IndInv => EvictedInTime
  BY DEF IndInv, EvictedInTime, Ageing
<1> QED
  BY <1>1, Inductive, PTL
=============================================================================
