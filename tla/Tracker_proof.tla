---------------------------- MODULE Tracker_proof ----------------------------
(***************************************************************************)
(* Proofs about Tracker, for any number of boxes, detections and tracks.   *)
(*                                                                         *)
(* PP reads flags and counts where the tracker moves boxes between lists.  *)
(* Placed says that the two agree, Named that the boxes in use have ids of *)
(* their own, Due that a count can pass the limit only by SetLimit, and    *)
(* Counted that the boxes of a frame are no more than its detections.      *)
(***************************************************************************)
EXTENDS Tracker, FiniteSetTheorems, TLAPS

-----------------------------------------------------------------------------
(* The inductive invariant. *)

\* The list a box is in shows in its flag and its count.
Placed ==
  \A b \in Boxes :
    /\ tracking[b] <=> list[b] # "free"
    /\ list[b] = "lost" => lostCnt[b] > 0
    /\ list[b] = "tracking" => lostCnt[b] = 0
    /\ list[b] = "lost" => pc \in {"idle", "births"}
    /\ list[b] = "remain" => pc \in {"high", "low"}

\* The boxes tracked in this frame are those of the tracks seen.
Tracked ==
  /\ \A b \in Boxes : list[b] = "tracking" => id[b] \in seen
  /\ \A i \in seen : \E b \in Boxes : list[b] = "tracking" /\ id[b] = i

\* Boxes in use have different ids, older than next_id and not ended.
Named ==
  /\ \A b \in Boxes : list[b] # "free" =>
       id[b] \in 1 .. nextId - 1 /\ id[b] \notin ended
  /\ \A b, c \in Boxes :
       list[b] # "free" /\ list[c] # "free" /\ id[b] = id[c] => b = c
  /\ \A i \in ended : i < nextId

\* A track whose count has reached the limit was overtaken by it.
Due ==
  \A b \in Boxes :
    list[b] \in {"lost", "remain"} /\ lostCnt[b] >= limit => b \in overtaken

\* A detection takes one box at most, so that the boxes tracked in this frame,
\* and those that were in the last one, are no more than a frame's detections.
Pending == births + dets.sure + dets.high + dets.low

JustLost ==
  {b \in Boxes : \/ list[b] = "remain" /\ lostCnt[b] = 0
                 \/ list[b] = "lost" /\ lostCnt[b] = 1}

Counted ==
  /\ Cardinality(In("tracking")) + Pending <= MaxDets
  /\ pc # "idle" => Cardinality(JustLost) <= MaxDets

IndInv ==
  /\ TypeOK
  /\ Placed
  /\ Tracked
  /\ Named
  /\ Due
  /\ PersonsAreCurrent

-----------------------------------------------------------------------------

\* The initial state satisfies the invariant.
LEMMA InitEstablishesIndInv == Init => IndInv
<1> SUFFICES ASSUME Init PROVE IndInv
  OBVIOUS
<1> USE TrackerAssumption DEF Init
<1>1. TypeOK
  BY DEF TypeOK, Lists, CountCap, NoDets, Ids
<1>2. Placed /\ Tracked /\ Named /\ Due
  BY DEF Placed, Tracked, Named, Due
<1>3. PersonsAreCurrent
  BY DEF PersonsAreCurrent
<1> QED BY <1>1, <1>2, <1>3 DEF IndInv

\* Between two frames the boxes PP takes for current are the tracked ones.
LEMMA CurrentIsTracked ==
  ASSUME TypeOK, Placed, pc \in {"idle", "births"}
  PROVE  Current = In("tracking")
BY DEF TypeOK, Placed, Current, In, Lists, CountCap

\* Changing the limit marks the tracks it overtakes.
LEMMA SetLimitKeepsIndInv ==
  ASSUME IndInv, NEW n \in 1 .. MaxLost, SetLimit(n)
  PROVE  IndInv'
<1> USE TrackerAssumption DEF IndInv, SetLimit, boxVars
<1>1. TypeOK'
  BY DEF TypeOK, In
<1>2. Placed' /\ Tracked' /\ Named'
  BY DEF Placed, Tracked, Named
<1>3. Due'
  BY DEF Due, Placed, In, TypeOK
<1>4. PersonsAreCurrent'
  BY DEF PersonsAreCurrent
<1> QED BY <1>1, <1>2, <1>3, <1>4

\* At the start of a frame every track in use waits in tremain.
LEMMA BeginFrameKeepsIndInv == ASSUME IndInv, BeginFrame PROVE IndInv'
<1> USE TrackerAssumption DEF IndInv, BeginFrame
<1>1. TypeOK'
  BY DEF TypeOK, Lists
<1>2. Placed' /\ Tracked' /\ Named'
  BY DEF Placed, Tracked, Named, TypeOK, Lists
<1>3. Due'
  BY DEF Due, Placed, TypeOK, Lists, CountCap
<1>4. PersonsAreCurrent'
  BY DEF PersonsAreCurrent
<1> QED BY <1>1, <1>2, <1>3, <1>4

\* Handling a detection of a class leaves one less of that class.
LEMMA TakesOne ==
  ASSUME TypeOK, NEW c \in {"sure", "high", "low"},
         dets[c] > 0, dets' = [dets EXCEPT ![c] = @ - 1]
  PROVE  /\ dets' \in [sure : Nat, high : Nat, low : Nat]
         /\ dets'.sure = (IF c = "sure" THEN dets.sure - 1 ELSE dets.sure)
         /\ dets'.high = (IF c = "high" THEN dets.high - 1 ELSE dets.high)
         /\ dets'.low = (IF c = "low" THEN dets.low - 1 ELSE dets.low)
<1>1. CASE c = "sure"
  BY <1>1 DEF TypeOK
<1>2. CASE c = "high"
  BY <1>2 DEF TypeOK
<1>3. CASE c = "low"
  BY <1>3 DEF TypeOK
<1> QED BY <1>1, <1>2, <1>3

\* A detection finds a waiting track, or none.
LEMMA MatchKeepsIndInv ==
  ASSUME IndInv, NEW c \in {"sure", "high", "low"}, MatchDetection(c),
         pc \in {"high", "low"}
  PROVE  IndInv'
<1> USE TrackerAssumption DEF IndInv, MatchDetection
<1>0. /\ dets' \in [sure : Nat, high : Nat, low : Nat]
      /\ dets'.sure = (IF c = "sure" THEN dets.sure - 1 ELSE dets.sure)
  <2>1. dets[c] > 0 /\ dets' = [dets EXCEPT ![c] = @ - 1] /\ TypeOK
    OBVIOUS
  <2> QED BY ONLY <2>1, TakesOne, c \in {"sure", "high", "low"}
<1>a. dets.sure \in Nat /\ births \in Nat /\ dets'.sure \in Nat
  BY <1>0 DEF TypeOK
<1>1. CASE \E b \in In("remain") : ContinueTracking(b) /\ UNCHANGED births
  <2> PICK b \in In("remain") : ContinueTracking(b) /\ UNCHANGED births
    BY <1>1
  <2> USE DEF ContinueTracking, In
  <2>0. id[b] \in Ids
    BY DEF TypeOK, Named, Ids
  <2>a. /\ list' \in [Boxes -> Lists] /\ lostCnt' \in [Boxes -> 0 .. CountCap]
        /\ nextId' + dets'.sure + births' <= MaxIds + 1
    BY <1>0, <1>a DEF TypeOK, Lists, CountCap
  <2>1. TypeOK'
    BY <1>0, <2>0, <2>a DEF TypeOK
  <2>2. Placed'
    BY DEF Placed, TypeOK, Lists, CountCap
  <2>3. Tracked'
    BY DEF Tracked, TypeOK, Lists
  <2>4. Named'
    BY DEF Named, TypeOK, Lists
  <2>5. Due'
    BY DEF Due, TypeOK, Lists, CountCap
  <2> QED BY <2>1, <2>2, <2>3, <2>4, <2>5 DEF PersonsAreCurrent
<1>2. CASE /\ births' = births + (IF c = "sure" THEN 1 ELSE 0)
           /\ UNCHANGED <<boxVars, seen, overtaken>>
  <2>1. births' \in Nat /\ dets'.sure + births' <= dets.sure + births
    BY <1>0, <1>a, <1>2
  <2>2. TypeOK'
    BY <1>0, <1>a, <1>2, <2>1 DEF TypeOK, boxVars
  <2> QED
    BY <1>2, <2>2 DEF boxVars, Placed, Tracked, Named, Due, PersonsAreCurrent
<1> QED BY <1>1, <1>2

\* Nothing but the place in the frame changes.
LEMMA HighDoneKeepsIndInv == ASSUME IndInv, HighDone PROVE IndInv'
BY DEF IndInv, HighDone, boxVars, TypeOK, Placed, Tracked, Named, Due,
       PersonsAreCurrent

\* The tracks not found are counted as lost once more, or freed.
LEMMA UpdateLostKeepsIndInv == ASSUME IndInv, UpdateLost PROVE IndInv'
<1> USE TrackerAssumption DEF IndInv, UpdateLost
<1>1. /\ Expiring \subseteq Boxes
      /\ \A b \in Expiring : list[b] = "remain" /\ OneMore(lostCnt[b]) = limit
      /\ \A b \in Boxes \ Expiring :
           list[b] = "remain" => OneMore(lostCnt[b]) # limit
  BY DEF Expiring, In
<1>2. \A b \in Boxes : /\ OneMore(lostCnt[b]) \in 1 .. CountCap
                       /\ OneMore(lostCnt[b]) > limit => lostCnt[b] >= limit
  BY DEF OneMore, TypeOK, CountCap
<1>3. \A b \in Expiring : id[b] \in Ids /\ id[b] < nextId
  BY <1>1 DEF Named, TypeOK, Ids
<1>4. TypeOK'
  BY <1>1, <1>2, <1>3 DEF TypeOK, Lists
<1>5. Placed'
  <2> USE DEF Placed
  <2> TAKE b \in Boxes
  <2>1. CASE b \in Expiring
    <3>1. list'[b] = "free" /\ tracking'[b] = FALSE
      BY <2>1 DEF TypeOK
    <3> QED BY <3>1
  <2>2. CASE b \notin Expiring
    <3>1. /\ list'[b] = (IF list[b] = "remain" THEN "lost" ELSE list[b])
          /\ tracking'[b] = tracking[b]
          /\ lostCnt'[b] = IF list[b] = "remain" THEN OneMore(lostCnt[b])
                           ELSE lostCnt[b]
      BY <2>2 DEF TypeOK
    <3>2. tracking'[b] <=> list'[b] # "free"
      BY <3>1
    <3> QED BY <1>2, <3>1, <3>2
  <2> QED BY <2>1, <2>2
<1>6. Tracked'
  BY <1>1 DEF Tracked, TypeOK, Lists
<1>7. Named'
  <2>1. \A b \in Boxes : list'[b] # "free" => list[b] # "free" /\ b \notin Expiring
    BY DEF TypeOK, Lists
  <2>2. \A b \in Boxes : list'[b] # "free" => id[b] \notin ended'
    BY <1>1, <2>1 DEF Named
  <2> QED BY <1>3, <2>1, <2>2 DEF Named
<1>8. Due'
  BY <1>1, <1>2 DEF Due, TypeOK, Lists, CountCap, Placed
<1> QED BY <1>4, <1>5, <1>6, <1>7, <1>8 DEF PersonsAreCurrent

\* A new track gets an id of its own.
LEMMA AddTrackKeepsIndInv == ASSUME IndInv, AddTrack PROVE IndInv'
<1> USE TrackerAssumption DEF IndInv, AddTrack
<1> PICK b \in In("free") : SetTracking(b)
  OBVIOUS
<1> USE DEF SetTracking, In
<1>1. nextId \in 1 .. MaxIds /\ nextId' = nextId + 1
  BY DEF TypeOK
<1>2. TypeOK'
  BY <1>1 DEF TypeOK, Lists, CountCap, Ids
<1>3. Placed'
  BY DEF Placed, TypeOK, Lists
<1>4. Tracked'
  BY DEF Tracked, TypeOK, Lists
<1>5. Named'
  <2>1. nextId \notin ended /\ \A i \in ended : i < nextId'
    BY <1>1 DEF Named, TypeOK, Ids
  <2>2. \A c \in Boxes \ {b} : /\ list'[c] = list[c] /\ id'[c] = id[c]
                              /\ list[c] # "free" => id[c] \in 1 .. nextId - 1
    BY DEF Named, TypeOK
  <2>3. list'[b] # "free" /\ id'[b] = nextId
    BY DEF TypeOK
  <2> QED BY <1>1, <2>1, <2>2, <2>3 DEF Named
<1>6. Due'
  BY DEF Due, TypeOK, Lists
<1> QED BY <1>2, <1>3, <1>4, <1>5, <1>6 DEF PersonsAreCurrent

\* Without a box the detection is dropped.
LEMMA RefuseTrackKeepsIndInv == ASSUME IndInv, RefuseTrack PROVE IndInv'
<1> USE DEF IndInv, RefuseTrack, boxVars
<1>0. dets.sure \in Nat /\ births \in Nat /\ births' = births - 1
  BY DEF TypeOK
<1>1. TypeOK'
  BY <1>0, TrackerAssumption DEF TypeOK
<1> QED BY <1>1 DEF Placed, Tracked, Named, Due, PersonsAreCurrent

\* The persons listed are all that were seen, or as many as there is room for.
LEMMA ListPersonsKeepsIndInv == ASSUME IndInv, ListPersons PROVE IndInv'
<1> USE TrackerAssumption DEF IndInv, ListPersons
<1> PICK first \in SUBSET Current :
      /\ \/ Cardinality(first) = MaxPersons
         \/ Cardinality(first) < MaxPersons /\ first = Current
      /\ persons' = {id[b] : b \in first}
  OBVIOUS
<1>1. Current = In("tracking")
  BY CurrentIsTracked
<1>2. seen = {id[b] : b \in Current}
  BY <1>1 DEF Tracked, In, TypeOK
<1>3. persons' \subseteq seen
  BY <1>2
<1>4. ASSUME Cardinality(seen) <= MaxPersons PROVE persons' = seen
  <2>1. CASE first = Current
    BY <2>1, <1>2
  <2>2. CASE Cardinality(first) = MaxPersons
    <3> DEFINE name == [b \in Current |-> id[b]]
    <3>1. IsFiniteSet(Current)
      BY FS_Subset DEF Current
    <3>2. \A b, c \in Current : id[b] = id[c] => b = c
      BY <1>1 DEF Named, In
    <3>3. name \in Bijection(Current, seen)
      BY <1>2, <3>2 DEF Bijection, Injection, Surjection, IsInjective
    <3>4. Cardinality(seen) = Cardinality(Current)
      BY <3>1, <3>3, FS_Bijection DEF ExistsBijection
    <3>5. Cardinality(first) <= Cardinality(Current)
          /\ (Cardinality(Current) = Cardinality(first) => Current = first)
          /\ Cardinality(first) \in Nat /\ Cardinality(Current) \in Nat
      BY <3>1, FS_Subset, FS_CardinalityType
    <3>6. first = Current
      BY <1>4, <2>2, <3>4, <3>5
    <3> QED BY <3>6, <1>2
  <2> QED BY <2>1, <2>2
<1>5. PersonsAreCurrent'
  BY <1>3, <1>4 DEF PersonsAreCurrent
<1>6. TypeOK'
  BY <1>3 DEF TypeOK, boxVars
<1> QED
  BY <1>5, <1>6 DEF boxVars, Placed, Tracked, Named, Due

\* Every step keeps the invariant.
LEMMA NextKeepsIndInv == IndInv /\ [Next]_vars => IndInv'
<1> SUFFICES ASSUME IndInv, [Next]_vars PROVE IndInv'
  OBVIOUS
<1>1. CASE UNCHANGED vars
  BY <1>1 DEF vars, boxVars, IndInv, TypeOK, Placed, Tracked, Named, Due,
              PersonsAreCurrent
<1>2. ASSUME NEW n \in 1 .. MaxLost, SetLimit(n) PROVE IndInv'
  BY <1>2, SetLimitKeepsIndInv
<1>3. CASE MatchHigh
  BY <1>3, MatchKeepsIndInv DEF MatchHigh
<1>4. CASE MatchLow
  BY <1>4, MatchKeepsIndInv DEF MatchLow
<1> QED
  BY <1>1, <1>2, <1>3, <1>4, BeginFrameKeepsIndInv, HighDoneKeepsIndInv,
     UpdateLostKeepsIndInv, AddTrackKeepsIndInv, RefuseTrackKeepsIndInv,
     ListPersonsKeepsIndInv
  DEF Next

\* Subsets of the boxes can be counted.
LEMMA BoxesCount ==
  ASSUME NEW S \in SUBSET Boxes
  PROVE  /\ IsFiniteSet(S) /\ Cardinality(S) \in Nat
         /\ \A T \in SUBSET S : Cardinality(T) <= Cardinality(S)
         /\ \A b \in Boxes : Cardinality(S \cup {b}) <= Cardinality(S) + 1
<1>1. IsFiniteSet(S)
  BY TrackerAssumption, FS_Subset
<1> QED BY <1>1, FS_Subset, FS_CardinalityType, FS_AddElement

\* Every step keeps the count.
LEMMA NextKeepsCounted == IndInv /\ Counted /\ [Next]_vars => Counted'
<1> SUFFICES ASSUME IndInv, Counted, [Next]_vars PROVE Counted'
  OBVIOUS
<1> USE TrackerAssumption
<1>1. /\ TypeOK /\ Placed
      /\ In("tracking") \in SUBSET Boxes /\ JustLost \in SUBSET Boxes
      /\ Cardinality(In("tracking")) \in Nat /\ Cardinality(JustLost) \in Nat
      /\ births \in Nat /\ dets.sure \in Nat /\ dets.high \in Nat
      /\ dets.low \in Nat /\ Pending \in Nat
  <2>1. In("tracking") \in SUBSET Boxes /\ JustLost \in SUBSET Boxes
    BY DEF In, JustLost
  <2> QED BY <2>1, BoxesCount DEF IndInv, TypeOK, Pending
<1>2. CASE \/ UNCHANGED vars
           \/ HighDone
           \/ \E n \in 1 .. MaxLost : SetLimit(n)
           \/ ListPersons
  <2>1. /\ In("tracking")' = In("tracking") /\ JustLost' = JustLost
        /\ Pending' = Pending
    BY <1>2 DEF vars, boxVars, HighDone, SetLimit, ListPersons, In, JustLost,
                Pending
  <2>2. pc' # "idle" => pc # "idle"
    BY <1>2 DEF vars, HighDone, SetLimit, ListPersons
  <2> QED BY <2>1, <2>2 DEF Counted
<1>3. CASE BeginFrame
  <2>1. In("tracking")' = {} /\ JustLost' \in SUBSET In("tracking")
    BY <1>1, <1>3 DEF BeginFrame, In, JustLost, TypeOK, Placed, Lists
  <2>2. Cardinality(In("tracking")') = 0
    BY <2>1, FS_EmptySet
  <2>3. Cardinality(JustLost') <= Cardinality(In("tracking"))
    BY <1>1, <2>1, BoxesCount
  <2>4. Pending' <= MaxDets
    BY <1>3 DEF BeginFrame, Pending
  <2>5. Pending' \in Nat /\ Cardinality(JustLost') \in Nat
    <3>1. JustLost' \in SUBSET Boxes
      BY <1>1, <2>1
    <3> QED BY <1>3, <3>1, BoxesCount DEF BeginFrame, Pending
  <2> QED BY <1>1, <2>2, <2>3, <2>4, <2>5 DEF Counted
<1>4. ASSUME NEW c \in {"sure", "high", "low"}, MatchDetection(c),
             pc \in {"high", "low"}
      PROVE  Counted'
  <2>1. /\ dets'.sure = (IF c = "sure" THEN dets.sure - 1 ELSE dets.sure)
        /\ dets'.high = (IF c = "high" THEN dets.high - 1 ELSE dets.high)
        /\ dets'.low = (IF c = "low" THEN dets.low - 1 ELSE dets.low)
    <3>1. dets[c] > 0 /\ dets' = [dets EXCEPT ![c] = @ - 1]
      BY <1>4 DEF MatchDetection
    <3> QED BY ONLY <1>1, <3>1, TakesOne, c \in {"sure", "high", "low"}
  <2>2. CASE \E b \in In("remain") : ContinueTracking(b) /\ UNCHANGED births
    <3> PICK b \in In("remain") : ContinueTracking(b) /\ UNCHANGED births
      BY <2>2
    <3>1. /\ In("tracking")' = In("tracking") \cup {b} /\ b \in Boxes
          /\ JustLost' \in SUBSET JustLost
      BY <1>1 DEF ContinueTracking, In, JustLost, TypeOK, Lists
    <3>2. /\ Cardinality(In("tracking")') <= Cardinality(In("tracking")) + 1
          /\ Cardinality(JustLost') <= Cardinality(JustLost)
          /\ Cardinality(In("tracking")') \in Nat
          /\ Cardinality(JustLost') \in Nat
      <4>1. In("tracking")' \in SUBSET Boxes /\ JustLost' \in SUBSET Boxes
        BY <1>1, <3>1
      <4> QED BY <1>1, <3>1, <4>1, BoxesCount
    <3>3. Pending' = Pending - 1
      BY <1>1, <2>1 DEF Pending
    <3>4. pc' = pc /\ pc # "idle"
      BY <1>4 DEF MatchDetection
    <3> QED BY <1>1, <3>2, <3>3, <3>4 DEF Counted
  <2>3. CASE /\ births' = births + (IF c = "sure" THEN 1 ELSE 0)
             /\ UNCHANGED <<boxVars, seen, overtaken>>
    <3>1. /\ In("tracking")' = In("tracking") /\ JustLost' = JustLost
      BY <2>3 DEF boxVars, In, JustLost
    <3>2. Pending' <= Pending /\ Pending' \in Int
      BY <1>1, <2>1, <2>3 DEF Pending
    <3>3. pc' = pc /\ pc # "idle"
      BY <1>4 DEF MatchDetection
    <3> QED BY <1>1, <3>1, <3>2, <3>3 DEF Counted
  <2> QED BY <1>4, <2>2, <2>3 DEF MatchDetection
<1>5. CASE UpdateLost
  <2>1. /\ In("tracking")' = In("tracking") /\ Pending' = Pending
        /\ pc = "low"
    BY <1>1, <1>5 DEF UpdateLost, In, Expiring, TypeOK, Lists, Pending
  <2>2. JustLost' \in SUBSET JustLost
    <3>1. \A b \in Boxes : OneMore(lostCnt[b]) = 1 => lostCnt[b] = 0
      BY <1>1 DEF OneMore, CountCap, TypeOK
    <3>2. ASSUME NEW b \in JustLost' PROVE b \in JustLost
      <4>1. b \in Boxes /\ list'[b] \in {"lost", "remain"}
        BY DEF JustLost
      <4>2. /\ list[b] = "remain"
            /\ list'[b] = "lost"
            /\ lostCnt'[b] = OneMore(lostCnt[b])
        BY <1>1, <1>5, <2>1, <4>1 DEF UpdateLost, TypeOK, Lists, Placed
      <4> QED BY <3>1, <4>2 DEF JustLost
    <3> QED BY <3>2
  <2>3. /\ Cardinality(JustLost') <= Cardinality(JustLost)
        /\ Cardinality(JustLost') \in Nat
    <3>1. JustLost' \in SUBSET Boxes
      BY <1>1, <2>2
    <3> QED BY <1>1, <2>2, <3>1, BoxesCount
  <2>4. Cardinality(JustLost) <= MaxDets
    BY <2>1 DEF Counted
  <2> QED BY <1>1, <2>1, <2>3, <2>4 DEF Counted
<1>6. CASE AddTrack
  <2> PICK b \in In("free") : SetTracking(b)
    BY <1>6 DEF AddTrack
  <2>1. /\ In("tracking")' = In("tracking") \cup {b} /\ b \in Boxes
        /\ JustLost' = JustLost
    BY <1>1 DEF SetTracking, In, JustLost, TypeOK, Lists
  <2>2. /\ Cardinality(In("tracking")') <= Cardinality(In("tracking")) + 1
        /\ Cardinality(In("tracking")') \in Nat
    <3>1. In("tracking")' \in SUBSET Boxes
      BY <1>1, <2>1
    <3> QED BY <1>1, <2>1, <3>1, BoxesCount
  <2>3. Pending' = Pending - 1
    BY <1>1, <1>6 DEF AddTrack, Pending
  <2> QED BY <1>1, <1>6, <2>1, <2>2, <2>3 DEF AddTrack, Counted
<1>7. CASE RefuseTrack
  <2>1. /\ In("tracking")' = In("tracking") /\ JustLost' = JustLost
        /\ Pending' = Pending - 1 /\ pc = "births"
    BY <1>1, <1>7 DEF RefuseTrack, boxVars, In, JustLost, Pending
  <2> QED BY <1>1, <2>1 DEF Counted
<1> QED
  BY <1>2, <1>3, <1>4, <1>5, <1>6, <1>7 DEF Next, MatchHigh, MatchLow

\* The invariant holds in every behaviour.
LEMMA Invariance == Spec => []IndInv
BY InitEstablishesIndInv, NextKeepsIndInv, PTL DEF Spec

\* Every variable stays in its type (tracker.c, pp_thread.c:235-283): no count
\* or id leaves its range, for any number of boxes and frames.
THEOREM TypeCorrect == Spec => []TypeOK
<1>1. IndInv => TypeOK
  BY DEF IndInv
<1> QED BY <1>1, Invariance, PTL

\* The persons handed to the fusion thread are those of this frame, all of them
\* if there is room (pp_thread.c:267).
THEOREM PersonsAreOfThisFrame == Spec => []PersonsAreCurrent
<1>1. IndInv => PersonsAreCurrent
  BY DEF IndInv
<1> QED BY <1>1, Invariance, PTL

\* Track ids are unique and never come back (tracker.c:133).
THEOREM TrackIdsAreUnique == Spec => []IdsNeverReused
<1>1. IndInv => IdsNeverReused
  <2> SUFFICES ASSUME IndInv PROVE IdsNeverReused
    OBVIOUS
  <2>1. \A b \in Boxes : tracking[b] => list[b] # "free"
    BY DEF IndInv, Placed
  <2> QED BY <2>1 DEF IndInv, Named, IdsNeverReused
<1> QED BY <1>1, Invariance, PTL

\* A lost track outlives the limit only if the host lowered it (tracker.c:242).
THEOREM OverdueTracksWereOvertaken == Spec => []OverdueOnlyIfLowered
<1>1. IndInv => OverdueOnlyIfLowered
  BY DEF IndInv, Due, OverdueOnlyIfLowered, In
<1> QED BY <1>1, Invariance, PTL

\* A person is refused a track only where an older lost track holds its box: two
\* boxes per detection are enough for two frames (tracker.c:127).
THEOREM OldTracksTakeTheBoxes == Spec => []RefusedOnlyByOldTracks
<1>1. Init => Counted
  <2> SUFFICES ASSUME Init PROVE Counted
    OBVIOUS
  <2>1. In("tracking") = {} /\ Pending = 0 /\ pc = "idle"
    BY DEF Init, In, Pending, NoDets
  <2> QED BY <2>1, FS_EmptySet, TrackerAssumption DEF Counted
<1>2. IndInv /\ Counted => RefusedOnlyByOldTracks
  <2> SUFFICES ASSUME IndInv, Counted, pc = "births", births > 0, In("free") = {},
                      ~ \E b \in In("lost") : lostCnt[b] >= 2
               PROVE  FALSE
    BY DEF RefusedOnlyByOldTracks
  <2>1. TypeOK /\ Placed
    BY DEF IndInv
  <2>2. Boxes = In("tracking") \cup JustLost
    <3> SUFFICES ASSUME NEW b \in Boxes
                 PROVE  b \in In("tracking") \cup JustLost
      BY DEF In, JustLost
    <3>1. list[b] \in {"tracking", "lost"} /\ lostCnt[b] \in Nat
      BY <2>1 DEF TypeOK, Placed, Lists, In, CountCap
    <3>2. list[b] = "lost" => lostCnt[b] = 1
      BY <2>1, <3>1 DEF Placed, In
    <3> QED BY <3>1, <3>2 DEF In, JustLost
  <2>3. /\ IsFiniteSet(In("tracking")) /\ IsFiniteSet(JustLost)
        /\ Cardinality(In("tracking")) \in Nat /\ Cardinality(JustLost) \in Nat
    BY BoxesCount DEF In, JustLost
  <2>4. Cardinality(Boxes) <= Cardinality(In("tracking")) + Cardinality(JustLost)
    <3>1. In("tracking") \cap JustLost \in SUBSET In("tracking")
      OBVIOUS
    <3>2. Cardinality(In("tracking") \cap JustLost) \in Nat
      BY <2>3, <3>1, FS_Subset, FS_CardinalityType
    <3>3. Cardinality(In("tracking") \cup JustLost)
          = Cardinality(In("tracking")) + Cardinality(JustLost)
            - Cardinality(In("tracking") \cap JustLost)
      BY <2>3, FS_Union
    <3> QED BY <2>2, <2>3, <3>2, <3>3
  <2>5. Cardinality(In("tracking")) < MaxDets /\ Cardinality(JustLost) <= MaxDets
    BY <2>1, <2>3, TrackerAssumption DEF Counted, Pending, TypeOK
  <2> QED BY <2>3, <2>4, <2>5, TrackerAssumption
<1> QED
  BY <1>1, <1>2, Invariance, InitEstablishesIndInv, NextKeepsCounted, PTL
  DEF Spec
=============================================================================
