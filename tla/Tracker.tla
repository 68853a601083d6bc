------------------------------- MODULE Tracker -------------------------------
(***************************************************************************)
(* The person tracker (Libraries/tracker/tracker.c) as PP uses it          *)
(* (NN/Src/pp_thread.c): each frame's detections are matched with the      *)
(* tracks known so far, in two rounds; tracks without a match are lost and *)
(* freed after tlost_cnt frames; detections without a match become tracks. *)
(* PP then hands the persons seen in this frame to the fusion thread.      *)
(*                                                                         *)
(* Boxes sit in linked lists; a box is in one list at a time, so `list`    *)
(* says in which.  A detection is known by its confidence class alone.     *)
(* Geometry (the Kalman filter, the overlap of boxes) is data: a detection *)
(* may match any box that is left, or none.                                *)
(***************************************************************************)
EXTENDS Integers, FiniteSets

CONSTANTS
  Boxes,      \* trk_tboxes: 2 * DETECTION_MAX_BOXES of them
  MaxDets,    \* DETECTION_MAX_BOXES, the most detections in a frame
  MaxPersons, \* TOF_MAX_DETECTIONS, the most persons handed to the fusion
  MaxLost,    \* the largest tlost_cnt a configuration may ask for
  MaxIds      \* bound: the tracks ever begun

ASSUME TrackerAssumption ==
  /\ MaxDets \in Nat \ {0}
  /\ IsFiniteSet(Boxes) /\ Cardinality(Boxes) = 2 * MaxDets
  /\ MaxPersons \in Nat
  /\ MaxLost \in Nat \ {0}
  /\ MaxIds \in Nat

VARIABLES
  pc,        \* where PP is in the frame
  list,      \* the list each box is in: tfree, ttracking, tlost or tremain
  tracking,  \* is_tracking of each box
  lostCnt,   \* tlost_cnt of each box
  id,        \* id of each box
  nextId,    \* next_id
  limit,     \* cfg.tlost_cnt
  dets,      \* the detections not handled yet: sure ones (high and at least
             \* det_thresh), other high ones, low ones
  births,    \* the sure detections left in dhigh for trk_add_new_tracks
  persons,   \* ids in person_detections
  seen,      \* history: the tracks a detection of this frame belongs to
  ended,     \* history: the ids of tracks that were freed
  overtaken  \* history: the lost boxes whose count a new limit did not exceed

boxVars == <<list, tracking, lostCnt, id>>
vars == <<pc, boxVars, nextId, limit, dets, births, persons, seen, ended,
          overtaken>>

Lists == {"free", "tracking", "lost", "remain"}

\* Counts above every limit make no difference, and stop here.
CountCap == MaxLost + 1

In(l) == {b \in Boxes : list[b] = l}

NoDets == [sure |-> 0, high |-> 0, low |-> 0]

\* trk_init, with the default configuration.
Init ==
  /\ pc = "idle"
  /\ list = [b \in Boxes |-> "free"]
  /\ tracking = [b \in Boxes |-> FALSE]
  /\ lostCnt = [b \in Boxes |-> 0]
  /\ id = [b \in Boxes |-> 0]
  /\ nextId = 1
  /\ limit = MaxLost
  /\ dets = NoDets
  /\ births = 0
  /\ persons = {}
  /\ seen = {}
  /\ ended = {}
  /\ overtaken = {}

-----------------------------------------------------------------------------

\* pp_apply_runtime_config, between two frames.
SetLimit(n) ==
  /\ pc = "idle"
  /\ n # limit
  /\ limit' = n
  /\ overtaken' = overtaken \cup {b \in In("lost") : lostCnt[b] >= n}
  /\ UNCHANGED <<pc, boxVars, nextId, dets, births, persons, seen, ended>>

\* Defect for RefusedOnlyByOldTracks: the number of detections is not limited.
BeginFrameUnlimited ==
  /\ pc = "idle"
  /\ dets' \in [sure : 0 .. MaxDets, high : 0 .. MaxDets, low : 0 .. MaxDets + 1]
  /\ nextId + dets'.sure <= MaxIds + 1
  /\ list' = [b \in Boxes |-> IF list[b] = "free" THEN "free" ELSE "remain"]
  /\ births' = 0
  /\ seen' = {}
  /\ pc' = "high"
  /\ UNCHANGED <<tracking, lostCnt, id, nextId, limit, persons, ended, overtaken>>

\* The detections are split, and every known track awaits its match.
BeginFrame ==
  /\ pc = "idle"
  /\ dets' \in [sure : 0 .. MaxDets, high : 0 .. MaxDets, low : 0 .. MaxDets]
  /\ dets'.sure + dets'.high + dets'.low <= MaxDets
  /\ nextId + dets'.sure <= MaxIds + 1
  /\ list' = [b \in Boxes |-> IF list[b] = "free" THEN "free" ELSE "remain"]
  /\ births' = 0
  /\ seen' = {}
  /\ pc' = "high"
  /\ UNCHANGED <<tracking, lostCnt, id, nextId, limit, persons, ended, overtaken>>

\* Defect for PersonsAreCurrent: a track that is found again stays counted as
\* lost.
ContinueTrackingLost(b) ==
  /\ list' = [list EXCEPT ![b] = "tracking"]
  /\ seen' = seen \cup {id[b]}
  /\ overtaken' = overtaken \ {b}
  /\ UNCHANGED <<tracking, lostCnt, id>>

\* trk_tbox_continue_tracking.
ContinueTracking(b) ==
  /\ list' = [list EXCEPT ![b] = "tracking"]
  /\ lostCnt' = [lostCnt EXCEPT ![b] = 0]
  /\ seen' = seen \cup {id[b]}
  /\ overtaken' = overtaken \ {b}
  /\ UNCHANGED <<tracking, id>>

\* The next detection of class c is taken, and matched or not.
MatchDetection(c) ==
  /\ dets[c] > 0
  /\ dets' = [dets EXCEPT ![c] = @ - 1]
  /\ \/ /\ \E b \in In("remain") : ContinueTracking(b)
        /\ UNCHANGED births
     \/ /\ births' = births + (IF c = "sure" THEN 1 ELSE 0)
        /\ UNCHANGED <<boxVars, seen, overtaken>>
  /\ UNCHANGED <<pc, nextId, limit, persons, ended>>

\* trk_matching_step1,
MatchHigh == pc = "high" /\ \E c \in {"sure", "high"} : MatchDetection(c)

HighDone ==
  /\ pc = "high"
  /\ dets.sure = 0 /\ dets.high = 0
  /\ pc' = "low"
  /\ UNCHANGED <<boxVars, nextId, limit, dets, births, persons, seen, ended,
                 overtaken>>

\* and trk_matching_step2.
MatchLow == pc = "low" /\ MatchDetection("low")

OneMore(n) == IF n < CountCap THEN n + 1 ELSE n

\* Defect for OverdueOnlyIfLowered: the count is compared before it goes up.
ExpiringBefore == {b \in In("remain") : lostCnt[b] = limit}

\* The tracks not found for tlost_cnt frames.
Expiring == {b \in In("remain") : OneMore(lostCnt[b]) = limit}

\* trk_update_tlost.
UpdateLost ==
  /\ pc = "low"
  /\ dets.low = 0
  /\ list' = [b \in Boxes |-> IF b \in Expiring THEN "free"
                              ELSE IF list[b] = "remain" THEN "lost" ELSE list[b]]
  /\ lostCnt' = [b \in Boxes |-> IF list[b] = "remain" THEN OneMore(lostCnt[b])
                                 ELSE lostCnt[b]]
  /\ tracking' = [b \in Boxes |-> tracking[b] /\ b \notin Expiring]
  /\ ended' = ended \cup {id[b] : b \in Expiring}
  /\ overtaken' = overtaken \ Expiring
  /\ pc' = "births"
  /\ UNCHANGED <<id, nextId, limit, dets, births, persons, seen>>

\* Defect for IdsNeverReused: a box keeps the id it had before.
SetTrackingSameId(b) ==
  /\ list' = [list EXCEPT ![b] = "tracking"]
  /\ tracking' = [tracking EXCEPT ![b] = TRUE]
  /\ lostCnt' = [lostCnt EXCEPT ![b] = 0]
  /\ id' = [id EXCEPT ![b] = IF @ = 0 THEN nextId ELSE @]
  /\ nextId' = nextId + 1
  /\ seen' = seen \cup {id'[b]}

\* trk_tbox_set_tracking with a box of tfree.
SetTracking(b) ==
  /\ list' = [list EXCEPT ![b] = "tracking"]
  /\ tracking' = [tracking EXCEPT ![b] = TRUE]
  /\ lostCnt' = [lostCnt EXCEPT ![b] = 0]
  /\ id' = [id EXCEPT ![b] = nextId]
  /\ nextId' = nextId + 1
  /\ seen' = seen \cup {nextId}

\* trk_add_new_tracks: each sure detection without a match gets a box,
AddTrack ==
  /\ pc = "births"
  /\ births > 0
  /\ \E b \in In("free") : SetTracking(b)
  /\ births' = births - 1
  /\ UNCHANGED <<pc, limit, dets, persons, ended, overtaken>>

\* or is dropped if there is none.
RefuseTrack ==
  /\ pc = "births"
  /\ births > 0
  /\ In("free") = {}
  /\ births' = births - 1
  /\ UNCHANGED <<pc, boxVars, nextId, limit, dets, persons, seen, ended, overtaken>>

\* The boxes PP takes for tracks seen in this frame; it does not look at the
\* lists.
Current == {b \in Boxes : tracking[b] /\ lostCnt[b] = 0}

\* The persons handed to the fusion thread: as many as it takes, those in the
\* first boxes of the array (which ones these are is left open).
ListPersons ==
  /\ pc = "births"
  /\ births = 0
  /\ \E first \in SUBSET Current :
       /\ \/ Cardinality(first) = MaxPersons
          \/ Cardinality(first) < MaxPersons /\ first = Current
       /\ persons' = {id[b] : b \in first}
  /\ pc' = "idle"
  /\ UNCHANGED <<boxVars, nextId, limit, dets, births, seen, ended, overtaken>>

Next ==
  \/ \E n \in 1 .. MaxLost : SetLimit(n)
  \/ BeginFrame
  \/ MatchHigh \/ HighDone \/ MatchLow
  \/ UpdateLost
  \/ AddTrack \/ RefuseTrack \/ ListPersons

Spec == Init /\ [][Next]_vars

-----------------------------------------------------------------------------
(* Properties. *)

Ids == 1 .. MaxIds

TypeOK ==
  /\ pc \in {"idle", "high", "low", "births"}
  /\ list \in [Boxes -> Lists]
  /\ tracking \in [Boxes -> BOOLEAN]
  /\ lostCnt \in [Boxes -> 0 .. CountCap]
  /\ id \in [Boxes -> 0 .. MaxIds]
  /\ nextId \in 1 .. MaxIds + 1
  /\ limit \in 1 .. MaxLost
  /\ dets \in [sure : Nat, high : Nat, low : Nat]
  /\ births \in Nat
  /\ nextId + dets.sure + births <= MaxIds + 1
  /\ persons \subseteq Ids /\ seen \subseteq Ids /\ ended \subseteq Ids
  /\ overtaken \subseteq Boxes

\* PP reads is_tracking and tlost_cnt, and not the lists.  Nevertheless the
\* fusion thread gets no person who is not in this very frame's picture, and
\* all who are if there are not too many (pp_thread.c:273).
PersonsAreCurrent ==
  pc = "idle" =>
    /\ persons \subseteq seen
    /\ Cardinality(seen) <= MaxPersons => persons = seen

\* The fusion thread keeps a distance per track id: no two tracks have the same
\* id, and the id of a track that ended is not used again (tracker.c:133).
IdsNeverReused ==
  \A b \in Boxes :
    tracking[b] =>
      /\ id[b] \in 1 .. nextId - 1
      /\ id[b] \notin ended
      /\ \A c \in Boxes : tracking[c] /\ id[c] = id[b] => c = b

\* A lost track is freed when its count reaches the limit.  It can only stay
\* longer if the host lowered the limit to the count, or below it, while the
\* track was lost: the equality at tracker.c:242 is never met then.
OverdueOnlyIfLowered ==
  pc = "idle" =>
    \A b \in In("lost") : lostCnt[b] >= limit => b \in overtaken

\* Two boxes per detection are enough for the tracks of two frames: a person is
\* refused a track only where a track lost for two frames or more still holds
\* its box.
RefusedOnlyByOldTracks ==
  pc = "births" /\ births > 0 /\ In("free") = {} =>
    \E b \in In("lost") : lostCnt[b] >= 2
=============================================================================
