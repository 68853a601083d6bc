------------------------------- MODULE Fusion -------------------------------
(***************************************************************************)
(* The fusion of person detections with the depth grid (Sensor/Src/        *)
(* tof_fusion.c): each time PP publishes persons, the fusion thread takes  *)
(* the newest persons and the newest grid, smooths one distance per track  *)
(* in a small table and raises or clears the alert.                        *)
(*                                                                         *)
(* Distances are levels.  The depth found for a person (tof_extract_depth) *)
(* and the outcome of the comparison of time stamps are data, and so is    *)
(* the weight of the moving average: a smoothed distance lies anywhere     *)
(* from the old one to the new measurement.  The grid, the persons and the *)
(* alert are handed over by RCU buffers, that is, by their newest version; *)
(* a publication fails when no slot is free.                               *)
(***************************************************************************)
EXTENDS Integers, FiniteSets

CONSTANTS
  Tracks,     \* the track ids of persons
  Slots,      \* the entries of ema_table: TOF_MAX_DETECTIONS
  MaxPersons, \* TOF_MAX_DETECTIONS, the most persons in a detection
  MaxMissed,  \* TOF_EMA_MAX_MISSED
  Far,        \* the largest distance; 1 is the nearest
  Thresholds, \* the values of alert_threshold_mm
  Visitor,    \* the track of a person who may come near and stay
  NULL        \* no track

ASSUME FusionAssumption ==
  /\ IsFiniteSet(Tracks) /\ Slots \subseteq Nat /\ IsFiniteSet(Slots)
  /\ MaxPersons \in Nat
  /\ MaxMissed \in Nat \ {0}
  /\ Far \in Nat \ {0}
  /\ Thresholds \subseteq 2 .. Far + 1 /\ Thresholds # {}
  /\ Visitor \in Tracks /\ NULL \notin Tracks

VARIABLES
  detection,   \* the persons last published by PP
  fresh,       \* history: whether the fusion thread has not taken them yet
  personReady, \* TOF_FUSION_EVT_PERSON_READY
  threshold,   \* alert_threshold_mm
  stayed,      \* whether the person Visitor has come near to stay
  pc,          \* where the fusion thread is
  held,        \* the persons it still has to handle
  ema,         \* ema_table: track, filtered distance, missed count
  touched,     \* ema_touched
  nearest,     \* person_min, Far + 1 when no person has a depth
  unseen,      \* history: for a track in the table, the runs with a valid pair
               \* since it was measured
  led          \* LED_RED: the outcome of the last run, also published as alert

sceneVars == <<detection, fresh, personReady, threshold, stayed>>
tableVars == <<ema, touched, nearest, unseen>>
vars == <<sceneVars, pc, held, tableVars, led>>

Distances == 1 .. Far
\* Of a free entry only the track is ever looked at.
Free == [track |-> NULL, dist |-> 1, missed |-> 0]

Smaller(a, b) == IF a < b THEN a ELSE b
Larger(a, b) == IF a < b THEN b ELSE a

\* TOF_FUSION_ThreadStart.
Init ==
  /\ detection = {}
  /\ fresh = FALSE
  /\ personReady = FALSE
  /\ threshold \in Thresholds
  /\ stayed = FALSE
  /\ pc = "wait"
  /\ held = {}
  /\ ema = [s \in Slots |-> Free]
  /\ touched = {}
  /\ nearest = Far + 1
  /\ unseen = [t \in Tracks |-> MaxMissed]
  /\ led = FALSE

-----------------------------------------------------------------------------
(* The other threads. *)

\* What PP may publish: the persons of a frame.
Publishes(people) ==
  /\ Cardinality(people) <= MaxPersons
  /\ stayed => Visitor \in people
  /\ detection' = people
  /\ fresh' = TRUE
  /\ UNCHANGED <<threshold, stayed, pc, held, tableVars, led>>

\* Defect for NewDetectionsFused: no event when the last person has left.
SetPersonDetectionsIfAny ==
  \E people \in SUBSET Tracks :
    /\ Publishes(people)
    /\ personReady' = (personReady \/ people # {})

\* TOF_SetPersonDetections.  (Without a free slot nothing happens.)
SetPersonDetections ==
  \E people \in SUBSET Tracks :
    /\ Publishes(people)
    /\ personReady' = TRUE

\* TOF_SetAlertThreshold, called by comm_rx at any time.
SetAlertThreshold ==
  /\ threshold' \in Thresholds
  /\ UNCHANGED <<detection, fresh, personReady, stayed, pc, held, tableVars,
                 led>>

\* The visitor comes near and stays: from now on every detection has that
\* track, every grid is valid and in time, and shows the person at distance 1.
StayNear ==
  /\ ~stayed
  /\ stayed' = TRUE
  /\ UNCHANGED <<detection, fresh, personReady, threshold, pc, held, tableVars,
                 led>>

-----------------------------------------------------------------------------
(* The fusion thread. *)

\* The event is taken, which clears it.
WakeUp ==
  /\ pc = "wait"
  /\ personReady
  /\ personReady' = FALSE
  /\ pc' = "acquire"
  /\ UNCHANGED <<detection, fresh, threshold, stayed, held, tableVars, led>>

\* The newest grid and the newest persons are pinned.  They do not pair: no
\* valid grid yet, no persons yet, or time stamps too far apart: no alert.
AcquireStale ==
  /\ pc = "acquire"
  /\ ~stayed \/ Visitor \notin detection
  /\ fresh' = FALSE
  /\ led' = FALSE
  /\ pc' = "wait"
  /\ UNCHANGED <<detection, personReady, threshold, stayed, held, tableVars>>

\* They pair.
AcquirePaired ==
  /\ pc = "acquire"
  /\ held' = detection
  /\ fresh' = FALSE
  /\ pc' = "persons"
  /\ UNCHANGED <<detection, personReady, threshold, stayed, tableVars, led>>

\* Defect for OneEntryPerTrack: the search ends at the first free entry.
EntriesBeforeFree(t) ==
  {s \in Slots : ema[s].track = t /\ \A r \in Slots : r < s => ema[r].track # NULL}

\* The entry of track t, or with NULL the free entries.
Entries(t) == {s \in Slots : ema[s].track = t}

\* free_slot, the first one.
FreeSlots == {s \in Entries(NULL) : \A r \in Entries(NULL) : s <= r}

\* The moving average: from the old distance towards the measured one.
Between(d, raw) == Smaller(d, raw) .. Larger(d, raw)

\* Defect for EvictedInTime: a miss is not forgotten when the track is seen.
SmoothKeepingMissed(t, raw, s, d) ==
  /\ ema' = [ema EXCEPT ![s].dist = d]
  /\ d \in Between(ema[s].dist, raw)

\* The track has an entry, which is smoothed;
Smooth(t, raw, s, d) ==
  /\ ema' = [ema EXCEPT ![s] = [track |-> t, dist |-> d, missed |-> 0]]
  /\ d \in Between(ema[s].dist, raw)

\* it has none, and begins one with the measured distance.
TakeOver(t, raw, s) ==
  /\ ema' = [ema EXCEPT ![s] = [track |-> t, dist |-> raw, missed |-> 0]]

\* A person with a depth.  With the table full the measured distance is used.
Measure(t, raw) ==
  /\ pc = "persons"
  /\ t \in held
  /\ stayed /\ t = Visitor => raw = 1
  /\ \/ \E s \in Entries(t), d \in Distances :
          /\ Smooth(t, raw, s, d)
          /\ touched' = touched \cup {s}
          /\ nearest' = Smaller(nearest, d)
     \/ /\ Entries(t) = {}
        /\ \E s \in FreeSlots :
             /\ TakeOver(t, raw, s)
             /\ touched' = touched \cup {s}
        /\ nearest' = Smaller(nearest, raw)
     \/ /\ Entries(t) = {} /\ FreeSlots = {}
        /\ nearest' = Smaller(nearest, raw)
        /\ UNCHANGED <<ema, touched>>
  /\ held' = held \ {t}
  /\ unseen' = [unseen EXCEPT ![t] = -1]
  /\ UNCHANGED <<sceneVars, pc, led>>

\* A person without a depth is passed over.
NoDepth(t) ==
  /\ pc = "persons"
  /\ t \in held
  /\ ~(stayed /\ t = Visitor)
  /\ held' = held \ {t}
  /\ UNCHANGED <<sceneVars, pc, tableVars, led>>

\* Defect for NearPersonAlerts: only persons well inside the threshold count.
FiresLate == nearest < threshold - 1

Fires == nearest < threshold

Aged(e) == [e EXCEPT !.missed = @ + 1]

Leaving == {s \in Slots : /\ ema[s].track # NULL /\ s \notin touched
                          /\ ema[s].missed + 1 >= MaxMissed}

\* The entries not seen age, and leave the table in the end; the alert is decided,
\* published if a slot is free, and shown.
Age ==
  /\ pc = "persons"
  /\ held = {}
  /\ ema' = [s \in Slots |->
       IF ema[s].track = NULL \/ s \in touched THEN ema[s]
       ELSE IF s \in Leaving THEN Free
       ELSE Aged(ema[s])]
  /\ unseen' = [t \in Tracks |->
       IF Entries(t) = {} THEN MaxMissed ELSE Smaller(unseen[t] + 1, MaxMissed)]
  /\ led' = Fires
  /\ pc' = "wait"
  /\ touched' = {}
  /\ nearest' = Far + 1
  /\ UNCHANGED <<sceneVars, held>>

Fuse ==
  \/ WakeUp \/ AcquireStale \/ AcquirePaired
  \/ \E t \in Tracks : NoDepth(t) \/ \E raw \in Distances : Measure(t, raw)
  \/ Age

Next ==
  \/ SetPersonDetections \/ SetAlertThreshold \/ StayNear
  \/ Fuse

Spec == Init /\ [][Next]_vars

\* The visitor's average moves.
Approaches ==
  /\ Measure(Visitor, 1)
  /\ \E s \in Entries(Visitor) : ema'[s].dist < ema[s].dist

\* PP publishes persons who stay, the fusion thread gets the processor, and an
\* average does not stay away from what is measured all the time.
FairSpec ==
  /\ Spec
  /\ WF_vars(stayed /\ SetPersonDetections)
  /\ WF_vars(Fuse)
  /\ SF_vars(Approaches)

-----------------------------------------------------------------------------
(* Properties. *)

Entry == [track : Tracks \cup {NULL}, dist : Distances, missed : 0 .. MaxMissed]

TypeOK ==
  /\ detection \subseteq Tracks
  /\ fresh \in BOOLEAN /\ personReady \in BOOLEAN
  /\ threshold \in Thresholds
  /\ stayed \in BOOLEAN
  /\ pc \in {"wait", "acquire", "persons"}
  /\ held \subseteq Tracks
  /\ ema \in [Slots -> Entry]
  /\ touched \subseteq Slots
  /\ nearest \in 1 .. Far + 1
  /\ unseen \in [Tracks -> -1 .. MaxMissed]
  /\ led \in BOOLEAN

\* Entries are given to new tracks while others leave the table in any order: no
\* track ever has two entries, of which only the first would be smoothed and the
\* other would age (tof_fusion.c:253-280).
OneEntryPerTrack ==
  \A s, r \in Slots :
    ema[s].track = ema[r].track => s = r \/ ema[s].track = NULL

\* Between two runs an entry counts the runs with a valid pair since its track
\* was last measured, and is gone when they are TOF_EMA_MAX_MISSED: a track that
\* went away does not keep others out of the table (tof_fusion.c:292-300).
EvictedInTime ==
  pc = "wait" =>
    \A s \in Slots :
      ema[s].track # NULL => /\ unseen[ema[s].track] = ema[s].missed
                             /\ ema[s].missed < MaxMissed

\* What PP publishes, or something newer, is fused: the event is cleared before
\* the persons are taken.
NewDetectionsFused == fresh ~> ~fresh

\* A person who stays nearer than the threshold raises the alert, and it stays
\* on, whatever other persons, old table entries and the host do.
NearPersonAlerts == stayed ~> []led
=============================================================================
