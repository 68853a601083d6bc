--------------------------- MODULE Pipeline_proof ---------------------------
(***************************************************************************)
(* Proofs about Pipeline, for any number of buffers, slots and frames.     *)
(*                                                                         *)
(* The drop count of a frame is exact because frames leave the input queue *)
(* in the order they entered it: Done, the frames that have left it, are   *)
(* all older than those that wait (InOrder), the one in the NN thread's    *)
(* hand is the youngest of them, and each of them was either inferred,     *)
(* counted as dropped or is still in hand (Counted).                       *)
(*                                                                         *)
(* The second part follows the frames on to the host: what was handed over *)
(* is older than what the NN thread has in hand, and each party passes on  *)
(* nothing older than before (Onward).                                     *)
(***************************************************************************)
EXTENDS Pipeline, FiniteSetTheorems, TLAPS

-----------------------------------------------------------------------------
(* The inductive invariant. *)

\* The frames that have left the input queue.
Done == queued \ {inWaiting[i] : i \in 1 .. Len(inWaiting)}

\* The NN thread has a frame in hand that still has to be inferred.
Undecided == nnPC \in {"drain", "output", "run"}

\* A thread holds a buffer exactly where its code has one.
Control ==
  /\ nnPC = "input" <=> inHand = NULL
  /\ nnPC = "ready" => inHand \in inferred
  /\ Undecided => inHand \notin inferred
  /\ ppPC \in {"reserve", "publish", "release"} <=> outHand # NULL
  /\ logPC = "send" => pinned["log"] # NULL

\* Frames wait in the order they were captured, behind all that left the queue.
InOrder ==
  /\ queued \subseteq 1 .. captured
  /\ \A i \in 1 .. Len(inWaiting) :
       /\ inWaiting[i] \in queued
       /\ \A j \in 1 .. Len(inWaiting) : i < j => inWaiting[i] < inWaiting[j]
       /\ \A d \in Done : d < inWaiting[i]
  /\ inHand # NULL => inHand \in Done /\ \A d \in Done : d <= inHand
  /\ inferred \subseteq Done

\* Every frame that left the queue was dropped, inferred, or is in hand.
Counted ==
  /\ inDiscarded \in Nat
  /\ inDiscarded + Cardinality(inferred) + (IF Undecided THEN 1 ELSE 0)
       = Cardinality(Done)

IndInv == TypeOK /\ Control /\ InOrder /\ Counted /\ DropsAccounted

-----------------------------------------------------------------------------

\* Sets of frames are finite.
LEMMA FramesAreFinite ==
  ASSUME NEW S \in SUBSET Frames
  PROVE  IsFiniteSet(S) /\ Cardinality(S) \in Nat /\ Cardinality(S) <= MaxFrames
<1>1. /\ IsFiniteSet(1 .. MaxFrames) /\ Cardinality(1 .. MaxFrames) <= MaxFrames
      /\ Cardinality(1 .. MaxFrames) \in Nat
  <2>1. 1 \in Int /\ MaxFrames \in Int /\ MaxFrames \in Nat
    BY PipelineAssumption
  <2>2. /\ IsFiniteSet(1 .. MaxFrames)
        /\ Cardinality(1 .. MaxFrames) = IF 1 > MaxFrames THEN 0 ELSE MaxFrames - 1 + 1
    BY ONLY <2>1, FS_Interval
  <2> QED BY <2>1, <2>2
<1>2. IsFiniteSet(S) /\ Cardinality(S) <= Cardinality(1 .. MaxFrames)
  BY <1>1, FS_Subset DEF Frames
<1>3. Cardinality(S) \in Nat
  BY <1>2, FS_CardinalityType
<1> QED BY <1>1, <1>2, <1>3, PipelineAssumption

\* The initial state satisfies the invariant.
LEMMA InitEstablishesIndInv == Init => IndInv
<1> SUFFICES ASSUME Init PROVE IndInv
  OBVIOUS
<1> USE PipelineAssumption DEF Init
<1>1. /\ inWaiting = <<>> /\ inHand = NULL /\ inDiscarded = 0
      /\ outWaiting = <<>> /\ outHand = NULL
  BY DEF In!Init, Out!Init
<1>2. TypeOK
  <2>1. In!Occupied = 0 /\ Out!Occupied = 0
    BY <1>1 DEF In!Occupied, Out!Occupied
  <2>2. inWaiting \in Seq(Frames) /\ outWaiting \in Seq(Frames)
    BY <1>1
  <2>3. drops \in [Frames -> 0 .. MaxFrames]
    BY DEF Frames
  <2>4. pinned \in [Readers -> 0 .. MaxFrames \cup {NULL}]
    OBVIOUS
  <2>5. 0 <= InputNb - 1 /\ 0 <= OutputNb /\ 0 \in 0 .. MaxFrames
    OBVIOUS
  <2> QED BY <1>1, <2>1, <2>2, <2>3, <2>4, <2>5 DEF TypeOK
<1>3. Control
  BY <1>1 DEF Control, Undecided
<1>4. Done = {}
  BY DEF Done
<1>5. InOrder
  BY <1>1, <1>4 DEF InOrder
<1>6. Counted
  BY <1>1, <1>4, FS_EmptySet DEF Counted, Undecided
<1>7. DropsAccounted
  BY DEF DropsAccounted
<1> QED BY <1>2, <1>3, <1>5, <1>6, <1>7 DEF IndInv

-----------------------------------------------------------------------------
(* The steps that touch the input queue. *)

\* Everything the counts depend on.
inputVars == <<captured, queued, inWaiting, inHand, inDiscarded, drops, inferred>>

\* The camera interrupt: a new frame is younger than all others.
LEMMA FrameEventPreserves == IndInv /\ FrameEvent => IndInv'
<1> SUFFICES ASSUME IndInv, FrameEvent PROVE IndInv'
  OBVIOUS
<1> USE PipelineAssumption
<1>1. /\ captured \in Nat /\ captured < MaxFrames /\ captured' = captured + 1
      /\ inWaiting \in Seq(Frames) /\ queued \subseteq 1 .. captured
      /\ UNCHANGED <<outVars, nnVars, ppVars, updated, readVars>>
      /\ nnPC' = nnPC /\ inferred' = inferred /\ drops' = drops
  BY DEF FrameEvent, IndInv, TypeOK, InOrder, nnVars
<1>2. CASE ~(In!Occupied < InputNb - 1)
  <2>1. UNCHANGED <<inVars, queued>>
    BY <1>2 DEF FrameEvent
  <2>2. TypeOK' /\ Control'
    BY <1>1, <2>1 DEF IndInv, TypeOK, Control, Undecided, Frames, In!Occupied,
       Out!Occupied, inVars, outVars, nnVars, ppVars, readVars
  <2>3. Done' = Done
    BY <2>1 DEF Done, inVars
  <2>4. Counted' /\ DropsAccounted'
    BY <1>1, <2>1, <2>3 DEF IndInv, Counted, Undecided, DropsAccounted, UpTo, inVars
  <2>5. InOrder'
    <3>1. queued' \subseteq 1 .. captured'
      BY <1>1, <2>1
    <3> QED BY <1>1, <2>1, <2>3, <3>1 DEF IndInv, InOrder, inVars
  <2> QED BY <2>2, <2>4, <2>5 DEF IndInv
<1>3. CASE In!Occupied < InputNb - 1
  <2>1. /\ inWaiting' = Append(inWaiting, captured')
        /\ UNCHANGED <<inHand, inDelivered, inDiscarded>>
        /\ queued' = queued \cup {captured'}
    BY <1>3 DEF FrameEvent, In!Publish
  <2>2. /\ inWaiting' \in Seq(Frames) /\ Len(inWaiting') = Len(inWaiting) + 1
        /\ inWaiting'[Len(inWaiting) + 1] = captured'
        /\ \A i \in 1 .. Len(inWaiting) : inWaiting'[i] = inWaiting[i]
        /\ Len(inWaiting) \in Nat
    BY <1>1, <2>1 DEF Frames
  <2>3. TypeOK'
    <3>1. In!Occupied' <= InputNb - 1
      BY <1>3, <2>1, <2>2 DEF In!Occupied
    <3> QED BY <1>1, <2>1, <2>2, <3>1 DEF IndInv, TypeOK, Frames, Out!Occupied,
       outVars, nnVars, ppVars, readVars
  <2>4. Control'
    BY <1>1, <2>1 DEF IndInv, Control, Undecided, outVars, nnVars, ppVars, readVars
  <2>5. {inWaiting'[i] : i \in 1 .. Len(inWaiting')}
          = {inWaiting[i] : i \in 1 .. Len(inWaiting)} \cup {captured'}
    BY <2>2
  <2>6. captured' \notin queued
    BY <1>1
  <2>7. Done' = Done
    BY <2>1, <2>5, <2>6 DEF Done
  <2>8. InOrder'
    <3>1. queued' \subseteq 1 .. captured'
      BY <1>1, <2>1
    <3>2. ASSUME NEW i \in 1 .. Len(inWaiting')
          PROVE  /\ inWaiting'[i] \in queued'
                 /\ \A j \in 1 .. Len(inWaiting') : i < j => inWaiting'[i] < inWaiting'[j]
                 /\ \A d \in Done' : d < inWaiting'[i]
      <4>1. CASE i = Len(inWaiting) + 1
        BY <1>1, <2>1, <2>2, <2>7, <4>1 DEF Done
      <4>2. CASE i # Len(inWaiting) + 1
        <5>1. i \in 1 .. Len(inWaiting) /\ inWaiting'[i] = inWaiting[i]
          BY <2>2, <4>2
        <5>2. inWaiting[i] \in queued /\ \A d \in Done : d < inWaiting[i]
          BY <5>1 DEF IndInv, InOrder
        <5>3. ASSUME NEW j \in 1 .. Len(inWaiting'), i < j
              PROVE  inWaiting'[i] < inWaiting'[j]
          <6>1. CASE j = Len(inWaiting) + 1
            <7>1. inWaiting[i] \in 1 .. captured
              BY <1>1, <5>2
            <7>2. inWaiting'[j] = captured + 1
              BY <1>1, <2>2, <6>1
            <7> QED BY <1>1, <5>1, <7>1, <7>2
          <6>2. CASE j # Len(inWaiting) + 1
            <7>1. j \in 1 .. Len(inWaiting) /\ inWaiting'[j] = inWaiting[j]
              BY <2>2, <6>2
            <7> QED BY <5>1, <5>3, <7>1 DEF IndInv, InOrder
          <6> QED BY <6>1, <6>2
        <5> QED BY <2>1, <2>7, <5>1, <5>2, <5>3
      <4> QED BY <4>1, <4>2
    <3>3. /\ inHand' # NULL => inHand' \in Done' /\ \A d \in Done' : d <= inHand'
          /\ inferred' \subseteq Done'
      BY <1>1, <2>1, <2>7 DEF IndInv, InOrder
    <3> QED BY <3>1, <3>2, <3>3 DEF InOrder
  <2>9. Counted'
    BY <1>1, <2>1, <2>7 DEF IndInv, Counted, Undecided
  <2>10. DropsAccounted'
    <3> SUFFICES ASSUME NEW f \in inferred
                 PROVE  UpTo(queued', f) = UpTo(queued, f)
      BY <1>1 DEF DropsAccounted, IndInv
    <3>1. f <= captured /\ f \in Nat
      BY <1>1 DEF IndInv, InOrder, Done
    <3> QED BY <1>1, <2>1, <3>1 DEF UpTo
  <2> QED BY <2>3, <2>4, <2>8, <2>9, <2>10 DEF IndInv
<1> QED BY <1>2, <1>3

\* Taking a frame: it is the oldest that waits.
LEMMA TakeInputPreserves == IndInv /\ TakeInput => IndInv'
<1> SUFFICES ASSUME IndInv, TakeInput PROVE IndInv'
  OBVIOUS
<1> USE PipelineAssumption
<1>1. /\ inWaiting \in Seq(Frames) /\ inWaiting # <<>> /\ inHand = NULL
      /\ inHand' = inWaiting[1] /\ inWaiting' = Tail(inWaiting)
      /\ nnPC = "input" /\ nnPC' = "drain"
      /\ UNCHANGED <<camVars, outVars, drops, inferred, ppVars, updated, readVars>>
      /\ UNCHANGED <<captured, queued, inDiscarded>>
      /\ queued \subseteq Frames /\ inferred \subseteq Frames
  BY DEF TakeInput, In!Take, IndInv, TypeOK, camVars
<1>2. /\ Len(inWaiting) \in Nat \ {0} /\ inWaiting' \in Seq(Frames)
      /\ Len(inWaiting') = Len(inWaiting) - 1
      /\ \A i \in 1 .. Len(inWaiting') :
           i + 1 \in 1 .. Len(inWaiting) /\ inWaiting'[i] = inWaiting[i + 1]
      /\ 1 \in 1 .. Len(inWaiting) /\ inWaiting[1] \in Frames
  BY <1>1
<1>3. TypeOK'
  <2>1. In!Occupied' = In!Occupied
    <3>1. inHand' # NULL
      BY <1>1, <1>2 DEF Frames
    <3> QED BY <1>1, <1>2, <3>1 DEF In!Occupied
  <2> QED BY <1>1, <1>2, <2>1 DEF IndInv, TypeOK, Out!Occupied, camVars, outVars,
       ppVars, readVars
<1>4. \A i \in 1 .. Len(inWaiting') : inWaiting[1] < inWaiting'[i]
  BY <1>2 DEF IndInv, InOrder
<1>5. /\ inWaiting[1] \in queued /\ inWaiting[1] \notin Done
      /\ \A d \in Done : d < inWaiting[1]
  BY <1>2 DEF IndInv, InOrder, Done
<1>6. Done' = Done \cup {inWaiting[1]}
  <2>1. {inWaiting[i] : i \in 1 .. Len(inWaiting)}
          = {inWaiting'[i] : i \in 1 .. Len(inWaiting')} \cup {inWaiting[1]}
    <3>1. \A i \in 1 .. Len(inWaiting) :
            i = 1 \/ (i - 1 \in 1 .. Len(inWaiting') /\ inWaiting'[i - 1] = inWaiting[i])
      BY <1>2
    <3> QED BY <1>2, <3>1
  <2>2. inWaiting[1] \notin {inWaiting'[i] : i \in 1 .. Len(inWaiting')}
    <3>1. \A i \in 1 .. Len(inWaiting') : inWaiting'[i] # inWaiting[1]
      <4> TAKE i \in 1 .. Len(inWaiting')
      <4>1. inWaiting[1] < inWaiting'[i]
        BY <1>4
      <4>2. inWaiting[1] \in Int /\ inWaiting'[i] \in Int
        BY <1>2 DEF Frames
      <4> QED BY <4>1, <4>2
    <3> QED BY <3>1
  <2> QED BY <1>1, <1>5, <2>1, <2>2 DEF Done
<1>7. Control'
  BY <1>1, <1>2, <1>5 DEF IndInv, Control, Undecided, InOrder, outVars, ppVars,
     readVars, Frames
<1>8. InOrder'
  <2>1. ASSUME NEW i \in 1 .. Len(inWaiting')
        PROVE  /\ inWaiting'[i] \in queued'
               /\ \A j \in 1 .. Len(inWaiting') : i < j => inWaiting'[i] < inWaiting'[j]
               /\ \A d \in Done' : d < inWaiting'[i]
    BY <1>1, <1>2, <1>4, <1>6 DEF IndInv, InOrder
  <2>2. inHand' \in Done' /\ \A d \in Done' : d <= inHand'
    <3>1. Done \subseteq Nat /\ inWaiting[1] \in Nat
      <4>1. Done \subseteq queued /\ queued \subseteq Frames /\ Frames \subseteq Nat
        BY <1>1 DEF Done, Frames
      <4> QED BY <1>2, <4>1
    <3> QED BY <1>1, <1>5, <1>6, <3>1
  <2>3. queued' \subseteq 1 .. captured' /\ inferred' \subseteq Done'
    BY <1>1, <1>6 DEF IndInv, InOrder
  <2> QED BY <2>1, <2>2, <2>3 DEF InOrder
<1>9. Counted'
  <2>1. IsFiniteSet(Done) /\ Cardinality(Done) \in Nat
    BY <1>1, FramesAreFinite DEF Done
  <2>2. Cardinality(Done') = Cardinality(Done) + 1
    BY <1>5, <1>6, <2>1, FS_AddElement
  <2>3. Cardinality(inferred) \in Nat /\ Cardinality(inferred') = Cardinality(inferred)
    BY <1>1, FramesAreFinite
  <2> QED BY <1>1, <2>1, <2>2, <2>3 DEF IndInv, Counted, Undecided
<1>10. DropsAccounted'
  BY <1>1 DEF IndInv, DropsAccounted, UpTo
<1> QED BY <1>3, <1>7, <1>8, <1>9, <1>10 DEF IndInv

\* Skipping a frame: it is counted.
LEMMA SkipStalePreserves == IndInv /\ SkipStale => IndInv'
<1> SUFFICES ASSUME IndInv, SkipStale PROVE IndInv'
  OBVIOUS
<1> USE PipelineAssumption
<1>1. /\ inHand # NULL /\ inHand' = NULL /\ nnPC = "drain" /\ nnPC' = "input"
      /\ inDiscarded' = inDiscarded + 1
      /\ UNCHANGED <<captured, queued, inWaiting, drops, inferred>>
      /\ UNCHANGED <<outVars, ppVars, updated, readVars>>
      /\ inWaiting \in Seq(Frames) /\ inferred \subseteq Frames
  BY DEF SkipStale, In!Discard, IndInv, TypeOK, camVars
<1>2. TypeOK'
  <2>1. In!Occupied' <= InputNb - 1
    BY <1>1 DEF In!Occupied, IndInv, TypeOK
  <2> QED BY <1>1, <2>1 DEF IndInv, TypeOK, Out!Occupied, outVars, ppVars, readVars
<1>3. Control'
  BY <1>1 DEF IndInv, Control, Undecided, outVars, ppVars, readVars
<1>4. Done' = Done
  BY <1>1 DEF Done
<1>5. InOrder' /\ DropsAccounted'
  BY <1>1, <1>4 DEF IndInv, InOrder, DropsAccounted, UpTo
<1>6. Counted'
  <2>1. Cardinality(inferred) \in Nat
    BY <1>1, FramesAreFinite
  <2> QED BY <1>1, <1>4, <2>1 DEF IndInv, Counted, Undecided
<1> QED BY <1>2, <1>3, <1>5, <1>6 DEF IndInv

\* The inference is done: with the drops until now the count is exact.
LEMMA FinishInferencePreserves == IndInv /\ FinishInference => IndInv'
<1> SUFFICES ASSUME IndInv, FinishInference PROVE IndInv'
  OBVIOUS
<1> USE PipelineAssumption
<1>1. /\ nnPC = "run" /\ nnPC' = "ready" /\ inHand # NULL
      /\ drops' = [drops EXCEPT ![inHand] = inDiscarded]
      /\ inferred' = inferred \cup {inHand} /\ inHand \notin inferred
      /\ UNCHANGED <<captured, queued, inWaiting, inHand, inDiscarded>>
      /\ UNCHANGED <<outVars, ppVars, updated, readVars>>
      /\ inHand \in Frames /\ drops \in [Frames -> 0 .. MaxFrames]
      /\ queued \subseteq Frames /\ inferred \subseteq Frames
  BY DEF FinishInference, IndInv, TypeOK, Control, Undecided, camVars, inVars
<1>2. /\ inHand \in Done /\ \A d \in Done : d <= inHand
      /\ inferred \subseteq Done /\ Done \subseteq Frames
  BY <1>1 DEF IndInv, InOrder, Done
<1>3. Done' = Done
  BY <1>1 DEF Done
<1>4. /\ IsFiniteSet(inferred) /\ Cardinality(inferred) \in Nat
      /\ Cardinality(Done) \in 0 .. MaxFrames
  BY <1>1, <1>2, FramesAreFinite
<1>5. Cardinality(inferred') = Cardinality(inferred) + 1
  BY <1>1, <1>4, FS_AddElement
<1>6. /\ inDiscarded \in Nat
      /\ inDiscarded + Cardinality(inferred) + 1 = Cardinality(Done)
  BY <1>1 DEF IndInv, Counted, Undecided
<1>7. TypeOK'
  <2>1. inDiscarded \in 0 .. MaxFrames
    BY <1>4, <1>6
  <2>2. drops' \in [Frames -> 0 .. MaxFrames]
    BY <1>1, <2>1
  <2> QED BY <1>1, <2>2 DEF IndInv, TypeOK, In!Occupied, Out!Occupied, outVars,
       ppVars, readVars
<1>8. Control'
  BY <1>1 DEF IndInv, Control, Undecided, outVars, ppVars, readVars
<1>9. InOrder'
  BY <1>1, <1>2, <1>3 DEF IndInv, InOrder
<1>10. Counted'
  BY <1>1, <1>3, <1>4, <1>5, <1>6 DEF Counted, Undecided
<1>11. DropsAccounted'
  <2>1. ASSUME NEW f \in inferred
        PROVE  drops'[f] + Cardinality(UpTo(inferred', f)) = Cardinality(UpTo(queued', f))
    <3>1. f \in Frames /\ f # inHand /\ f <= inHand
      BY <1>1, <1>2
    <3>2. UpTo(inferred', f) = UpTo(inferred, f)
      BY <1>1, <3>1 DEF UpTo, Frames
    <3> QED BY <1>1, <3>1, <3>2 DEF IndInv, DropsAccounted
  <2>2. drops'[inHand] + Cardinality(UpTo(inferred', inHand))
          = Cardinality(UpTo(queued', inHand))
    <3>1. UpTo(inferred', inHand) = inferred'
      BY <1>1, <1>2 DEF UpTo, Frames
    <3>2. UpTo(queued', inHand) = Done
      <4>1. \A w \in queued \ Done : inHand < w
        BY <1>2 DEF IndInv, InOrder, Done
      <4>2. Done \subseteq queued /\ queued \subseteq Nat /\ inHand \in Nat
        BY <1>1 DEF Frames, Done
      <4>3. ASSUME NEW w \in queued PROVE w <= inHand <=> w \in Done
        BY <1>2, <4>1, <4>2
      <4> QED BY <1>1, <4>2, <4>3 DEF UpTo
    <3> QED BY <1>1, <1>4, <1>5, <1>6, <3>1, <3>2
  <2> QED BY <1>1, <2>1, <2>2 DEF DropsAccounted
<1> QED BY <1>7, <1>8, <1>9, <1>10, <1>11 DEF IndInv

\* Handing the output over: the input buffer is released.
LEMMA HandOverPreserves == IndInv /\ HandOver => IndInv'
<1> SUFFICES ASSUME IndInv, HandOver PROVE IndInv'
  OBVIOUS
<1> USE PipelineAssumption
<1>1. /\ nnPC = "ready" /\ nnPC' = "input" /\ inHand # NULL /\ inHand' = NULL
      /\ UNCHANGED <<captured, queued, inWaiting, inDiscarded, drops, inferred>>
      /\ UNCHANGED <<ppVars, updated, readVars, outHand>>
      /\ Out!Occupied < OutputNb /\ outWaiting' = Append(outWaiting, inHand)
      /\ inHand \in Frames /\ inWaiting \in Seq(Frames) /\ outWaiting \in Seq(Frames)
      /\ outHand \in Frames \cup {NULL}
  BY DEF HandOver, In!Release, Out!Publish, IndInv, TypeOK, camVars
<1>2. TypeOK'
  <2>1. /\ outWaiting' \in Seq(Frames) /\ Len(outWaiting') = Len(outWaiting) + 1
        /\ Len(outWaiting) \in Nat
    BY <1>1
  <2>2. Out!Occupied' <= OutputNb
    BY <1>1, <2>1 DEF Out!Occupied
  <2>3. In!Occupied' <= InputNb - 1
    BY <1>1 DEF In!Occupied, IndInv, TypeOK
  <2> QED BY <1>1, <2>1, <2>2, <2>3 DEF IndInv, TypeOK, ppVars, readVars
<1>3. Control'
  BY <1>1 DEF IndInv, Control, Undecided, ppVars, readVars
<1>4. Done' = Done
  BY <1>1 DEF Done
<1>5. InOrder' /\ Counted' /\ DropsAccounted'
  BY <1>1, <1>4 DEF IndInv, InOrder, Counted, Undecided, DropsAccounted, UpTo
<1> QED BY <1>2, <1>3, <1>5 DEF IndInv

-----------------------------------------------------------------------------
(* The steps that leave the input queue alone. *)

\* They leave the counts as they are, if the NN thread stays on its side.
LEMMA CountsStay ==
  ASSUME IndInv, UNCHANGED inputVars, Undecided' = Undecided
  PROVE  InOrder' /\ Counted' /\ DropsAccounted'
<1>1. Done' = Done
  BY DEF Done, inputVars
<1> QED
  BY <1>1 DEF IndInv, InOrder, Counted, DropsAccounted, UpTo, inputVars

\* The NN thread's steps between taking a frame and its inference.
LEMMA NNWaitPreserves == IndInv /\ (KeepLatest \/ GetOutput) => IndInv'
<1> SUFFICES ASSUME IndInv, KeepLatest \/ GetOutput PROVE IndInv'
  OBVIOUS
<1>1. /\ UNCHANGED inputVars /\ Undecided /\ Undecided'
      /\ nnPC' \in {"output", "run"}
      /\ UNCHANGED <<inVars, outVars, ppVars, updated, readVars>>
  BY DEF KeepLatest, GetOutput, Undecided, inputVars, camVars, inVars
<1>2. TypeOK' /\ Control'
  BY <1>1 DEF IndInv, TypeOK, Control, Undecided, In!Occupied, Out!Occupied,
     inputVars, inVars, outVars, ppVars, readVars
<1>3. Undecided' = Undecided
  BY <1>1 DEF Undecided
<1> QED BY <1>1, <1>2, <1>3, CountsStay DEF IndInv

\* The PP thread.
LEMMA PPPreserves == IndInv /\ PP => IndInv'
<1> SUFFICES ASSUME IndInv, PP PROVE IndInv'
  OBVIOUS
<1> USE PipelineAssumption
<1>1. UNCHANGED inputVars /\ UNCHANGED <<inVars, nnVars, readVars>>
  BY DEF PP, TakeOutput, Reserve, Publish, ReleaseOutput, SignalUpdate, inputVars,
     camVars, inVars, nnVars, readVars
<1>2. InOrder' /\ Counted' /\ DropsAccounted'
  BY <1>1, CountsStay DEF Undecided, nnVars
<1>3. CASE TakeOutput
  <2>1. /\ outWaiting \in Seq(Frames) /\ outWaiting # <<>> /\ outHand = NULL
        /\ outHand' = Head(outWaiting) /\ outWaiting' = Tail(outWaiting)
        /\ ppPC' = "reserve" /\ UNCHANGED <<reserved, published, answered, updated>>
    BY <1>3 DEF TakeOutput, Out!Take, IndInv, TypeOK
  <2>2. /\ outHand' \in Frames /\ outWaiting' \in Seq(Frames)
        /\ Len(outWaiting') = Len(outWaiting) - 1 /\ Len(outWaiting) \in Nat
    BY <2>1
  <2>3. Out!Occupied' = Out!Occupied
    <3>1. outHand' # NULL
      BY <2>2 DEF Frames
    <3> QED BY <2>1, <2>2, <3>1 DEF Out!Occupied
  <2>4. TypeOK'
    BY <1>1, <2>1, <2>2, <2>3 DEF IndInv, TypeOK, In!Occupied, inputVars, inVars,
       nnVars, readVars
  <2>5. outHand' # NULL
    BY <2>2 DEF Frames
  <2>6. Control'
    BY <1>1, <2>1, <2>5 DEF IndInv, Control, Undecided, inputVars, inVars, nnVars,
       readVars
  <2> QED BY <1>2, <2>4, <2>6 DEF IndInv
<1>4. CASE Reserve \/ Publish \/ SignalUpdate
  <2>1. /\ UNCHANGED outVars /\ UNCHANGED answered
        /\ published' = published \/ (published' = outHand /\ outHand # NULL)
        /\ ppPC' \in {"publish", "release", "wait"}
        /\ ppPC' \in {"publish", "release"} <=> outHand # NULL
        /\ updated' \in BOOLEAN /\ reserved' \in BOOLEAN
    <3>1. reserved \in BOOLEAN /\ updated \in BOOLEAN
      BY DEF IndInv, TypeOK
    <3>2. ppPC \in {"reserve", "publish", "release"} <=> outHand # NULL
      BY DEF IndInv, Control
    <3>3. CASE Reserve
      BY <3>1, <3>2, <3>3 DEF Reserve
    <3>4. CASE Publish
      BY <3>1, <3>2, <3>4 DEF Publish
    <3>5. CASE SignalUpdate
      <4>1. updated' \in BOOLEAN
        BY <3>1, <3>5 DEF SignalUpdate
      <4>2. /\ UNCHANGED <<outVars, answered, published, reserved>>
            /\ ppPC = "signal" /\ ppPC' = "wait"
        BY <3>5 DEF SignalUpdate
      <4>3. outHand = NULL
        BY <3>2, <4>2
      <4> QED BY <3>1, <4>1, <4>2, <4>3
    <3> QED BY <1>4, <3>3, <3>4, <3>5
  <2>2. TypeOK'
    <3>1. published' \in 0 .. MaxFrames
      BY <2>1 DEF IndInv, TypeOK, Frames
    <3>2. In!Occupied' = In!Occupied /\ Out!Occupied' = Out!Occupied
      BY <1>1, <2>1 DEF In!Occupied, Out!Occupied, inVars, outVars
    <3> QED BY <1>1, <2>1, <3>1, <3>2 DEF IndInv, TypeOK, inputVars, inVars,
         nnVars, outVars, readVars
  <2>3. Control'
    BY <1>1, <2>1 DEF IndInv, Control, Undecided, inputVars, inVars, nnVars,
       outVars, readVars
  <2> QED BY <1>2, <2>2, <2>3 DEF IndInv
<1>5. CASE ReleaseOutput
  <2>1. /\ outHand # NULL /\ outHand' = NULL /\ outWaiting' = outWaiting
        /\ answered' = outHand /\ ppPC' = "signal"
        /\ UNCHANGED <<reserved, published, updated>>
        /\ outWaiting \in Seq(Frames)
    BY <1>5 DEF ReleaseOutput, Out!Release, IndInv, TypeOK
  <2>2. Out!Occupied' <= OutputNb
    BY <2>1 DEF Out!Occupied, IndInv, TypeOK
  <2>3. TypeOK' /\ Control'
    BY <1>1, <2>1, <2>2 DEF IndInv, TypeOK, Control, Undecided, In!Occupied,
       inputVars, inVars, nnVars, readVars, Frames
  <2> QED BY <1>2, <2>3 DEF IndInv
<1> QED BY <1>3, <1>4, <1>5 DEF PP

\* The readers.
LEMMA ReadersPreserve == IndInv /\ (Log \/ UI) => IndInv'
<1> SUFFICES ASSUME IndInv, Log \/ UI PROVE IndInv'
  OBVIOUS
<1> USE PipelineAssumption
<1>1. UNCHANGED inputVars /\ UNCHANGED <<inVars, outVars, nnVars, ppVars>>
  BY DEF Log, LogWake, LogAcquire, LogSend, UI, DrawAcquire, DrawRelease,
     inputVars, camVars, inVars, nnVars
<1>2. /\ pinned' \in [Readers -> 0 .. MaxFrames \cup {NULL}]
      /\ updated' \in BOOLEAN /\ logPC' \in {"wait", "acquire", "send"}
      /\ sent' \in 0 .. MaxFrames
      /\ logPC' = "send" => pinned'["log"] # NULL
  <2>1. /\ pinned \in [Readers -> 0 .. MaxFrames \cup {NULL}]
        /\ published \in 0 .. MaxFrames /\ sent \in 0 .. MaxFrames
        /\ updated \in BOOLEAN /\ logPC \in {"wait", "acquire", "send"}
        /\ logPC = "send" => pinned["log"] # NULL
        /\ "log" \in Readers /\ "ui" \in Readers /\ NULL \notin 0 .. MaxFrames
    BY DEF IndInv, TypeOK, Control, Readers
  <2>2. CASE LogWake
    BY <2>1, <2>2 DEF LogWake
  <2>3. CASE LogAcquire
    BY <2>1, <2>3 DEF LogAcquire, Pin
  <2>4. CASE LogSend
    BY <2>1, <2>4 DEF LogSend, Unpin
  <2>5. CASE DrawAcquire
    BY <2>1, <2>5 DEF DrawAcquire, Pin
  <2>6. CASE DrawRelease
    BY <2>1, <2>6 DEF DrawRelease, Unpin
  <2> QED BY <2>2, <2>3, <2>4, <2>5, <2>6 DEF Log, UI
<1>3. TypeOK' /\ Control'
  BY <1>1, <1>2 DEF IndInv, TypeOK, Control, Undecided, In!Occupied, Out!Occupied,
     inputVars, inVars, outVars, nnVars, ppVars
<1>4. InOrder' /\ Counted' /\ DropsAccounted'
  BY <1>1, CountsStay DEF Undecided, nnVars
<1> QED BY <1>3, <1>4 DEF IndInv

-----------------------------------------------------------------------------

\* Every reachable state satisfies the invariant.
LEMMA IndInvHolds == Spec => []IndInv
<1>1. ASSUME IndInv, UNCHANGED vars PROVE IndInv'
  <2>1. UNCHANGED inputVars /\ Undecided' = Undecided
    BY <1>1 DEF vars, camVars, inVars, nnVars, inputVars, Undecided
  <2>2. TypeOK' /\ Control'
    BY <1>1 DEF vars, camVars, inVars, outVars, nnVars, ppVars, readVars, IndInv,
       TypeOK, Control, Undecided, In!Occupied, Out!Occupied
  <2> QED BY <1>1, <2>1, <2>2, CountsStay DEF IndInv
<1>2. IndInv /\ [Next]_vars => IndInv'
  BY <1>1, FrameEventPreserves, TakeInputPreserves, SkipStalePreserves,
     FinishInferencePreserves, HandOverPreserves, NNWaitPreserves, PPPreserves,
     ReadersPreserve
  DEF Next, NN
<1> QED BY <1>2, InitEstablishesIndInv, PTL DEF Spec

\* Every variable of the pipeline stays in its type, and no queue holds more
\* than its buffers (cam_pipe.c, nn_thread.c, pp_thread.c, comm_log.c).
THEOREM TypeCorrect == Spec => []TypeOK
<1> QED BY IndInvHolds, PTL DEF IndInv

\* The drop count sent with a frame's detections is exact, for any number of
\* buffers and frames and any interleaving of camera and threads
\* (nn_thread.c:157-199).
THEOREM DropCountsAreExact == Spec => []DropsAccounted
<1> QED BY IndInvHolds, PTL DEF IndInv

-----------------------------------------------------------------------------
(* The way out: the output queue, PP and comm_log. *)

\* The outputs that were put ready and that PP is not past.
Over ==
  {outWaiting[i] : i \in 1 .. Len(outWaiting)} \cup ({outHand} \ {NULL})
    \cup {answered, outNewest}

\* They are of frames inferred before the one the NN thread is about to hand
\* over, and wait in that order.
OutputInOrder ==
  /\ Over \subseteq inferred \cup {0}
  /\ nnPC = "ready" => \A f \in Over : f < inHand
  /\ \A i \in 1 .. Len(outWaiting) :
       /\ answered < outWaiting[i]
       /\ outHand # NULL => outHand < outWaiting[i]
       /\ \A j \in 1 .. Len(outWaiting) : i < j => outWaiting[i] < outWaiting[j]
  /\ outHand # NULL => answered < outHand

\* The NN thread has an output buffer while it infers, and until it hands over.
Granted == nnPC \in {"run", "ready"} => Out!Occupied < OutputNb

\* PP publishes what it is not past, and comm_log sends what was published.
Passed ==
  /\ published <= answered \/ (ppPC = "release" /\ published = outHand)
  /\ pinned["log"] # NULL => sent <= pinned["log"] /\ pinned["log"] <= published
  /\ sent <= published

Onward == OutputInOrder /\ Granted /\ Passed

\* Steps that leave the output queue alone.
LEMMA OutputStays ==
  ASSUME OutputInOrder, Granted, UNCHANGED outVars, UNCHANGED <<answered, inferred>>,
         nnPC' = "ready" => nnPC = "ready" /\ inHand' = inHand,
         nnPC' = "run" => nnPC = "run"
  PROVE  OutputInOrder' /\ Granted'
<1>1. Over' = Over /\ Out!Occupied' = Out!Occupied
  BY DEF Over, Out!Occupied, outVars
<1>2. OutputInOrder'
  BY <1>1 DEF OutputInOrder, outVars
<1>3. Granted'
  BY <1>1 DEF Granted
<1> QED BY <1>2, <1>3

\* The camera and the NN thread up to the inference.
LEMMA InputKeepsOnward ==
  ASSUME IndInv, Onward, FrameEvent \/ TakeInput \/ SkipStale \/ KeepLatest \/ GetOutput
  PROVE  Onward'
<1>1. UNCHANGED outVars /\ UNCHANGED ppVars /\ UNCHANGED readVars /\ UNCHANGED inferred
  BY DEF FrameEvent, TakeInput, SkipStale, KeepLatest, GetOutput, nnVars
<1>2. Passed'
  BY <1>1 DEF Onward, Passed, outVars, ppVars, readVars
<1>3. CASE GetOutput
  <2>1. Over' = Over /\ Out!Occupied' = Out!Occupied
    BY <1>1 DEF Over, Out!Occupied, outVars, ppVars
  <2>2. nnPC' = "run" /\ Out!Occupied < OutputNb
    BY <1>3 DEF GetOutput
  <2>3. OutputInOrder'
    BY <1>1, <2>1, <2>2 DEF Onward, OutputInOrder, outVars, ppVars
  <2> QED BY <1>2, <2>1, <2>2, <2>3 DEF Onward, Granted
<1>4. CASE FrameEvent \/ TakeInput \/ SkipStale \/ KeepLatest
  <2>1. /\ nnPC' = "ready" => nnPC = "ready" /\ inHand' = inHand
        /\ nnPC' = "run" => nnPC = "run"
    BY <1>4 DEF FrameEvent, TakeInput, SkipStale, KeepLatest, In!Publish, inVars, nnVars
  <2>2. OutputInOrder' /\ Granted'
    BY <1>1, <2>1, OutputStays DEF Onward, ppVars
  <2> QED BY <1>2, <2>2 DEF Onward
<1> QED BY <1>3, <1>4

\* The inference is done: its frame is younger than all that went over.
LEMMA FinishInferenceKeepsOnward ==
  ASSUME IndInv, Onward, FinishInference
  PROVE  Onward'
<1>1. /\ UNCHANGED outVars /\ UNCHANGED ppVars /\ UNCHANGED readVars
      /\ inferred' = inferred \cup {inHand} /\ inHand' = inHand
      /\ nnPC = "run" /\ nnPC' = "ready"
  BY DEF FinishInference, inVars
<1>2. Passed'
  BY <1>1 DEF Onward, Passed, outVars, ppVars, readVars
<1>3. Over' = Over /\ Out!Occupied' = Out!Occupied
  BY <1>1 DEF Over, Out!Occupied, outVars, ppVars
<1>4. Granted'
  BY <1>1, <1>3 DEF Onward, Granted
<1>5. \A f \in Over : f < inHand
  <2> TAKE f \in Over
  <2>1. /\ inHand \in Frames /\ inferred \subseteq Frames /\ inHand \notin inferred
        /\ inferred \subseteq Done /\ \A d \in Done : d <= inHand
    BY <1>1 DEF IndInv, TypeOK, Control, Undecided, InOrder
  <2>2. f \in inferred \cup {0}
    BY DEF Onward, OutputInOrder
  <2>3. CASE f = 0
    BY <2>1, <2>3 DEF Frames
  <2>4. CASE f \in inferred
    <3>1. f <= inHand /\ f # inHand /\ f \in Nat /\ inHand \in Nat
      BY <2>1, <2>4 DEF Frames
    <3> QED BY <3>1
  <2> QED BY <2>2, <2>3, <2>4
<1>6. OutputInOrder'
  BY <1>1, <1>3, <1>5 DEF Onward, OutputInOrder, outVars, ppVars
<1> QED BY <1>2, <1>4, <1>6 DEF Onward

\* Handing over: the output goes behind the others.
LEMMA HandOverKeepsOnward ==
  ASSUME IndInv, Onward, HandOver
  PROVE  Onward'
<1>1. /\ UNCHANGED ppVars /\ UNCHANGED readVars /\ UNCHANGED <<inferred, outHand>>
      /\ nnPC = "ready" /\ nnPC' = "input"
      /\ outWaiting' = Append(outWaiting, inHand) /\ outNewest' = inHand
      /\ outWaiting \in Seq(Frames) /\ inHand \in Frames /\ inHand \in inferred
  BY DEF HandOver, In!Release, Out!Publish, IndInv, TypeOK, Control
<1>2. Passed' /\ Granted'
  BY <1>1 DEF Onward, Passed, Granted, ppVars, readVars
<1> DEFINE n == Len(outWaiting)
<1>3. /\ n \in Nat /\ Len(outWaiting') = n + 1 /\ outWaiting'[n + 1] = inHand
      /\ \A i \in 1 .. n : outWaiting'[i] = outWaiting[i]
      /\ \A i \in 1 .. n + 1 : i \in 1 .. n \/ i = n + 1
  BY <1>1
<1> HIDE DEF n
<1>4. \A f \in Over : f < inHand
  BY <1>1 DEF Onward, OutputInOrder
<1>5. /\ answered \in Over /\ (outHand # NULL => outHand \in Over)
      /\ \A i \in 1 .. n : outWaiting[i] \in Over
  BY DEF Over, n
<1>6. Over' \subseteq inferred' \cup {0}
  <2> SUFFICES ASSUME NEW f \in Over' PROVE f \in Over \cup {inHand}
    BY <1>1 DEF Onward, OutputInOrder
  <2>1. \/ \E i \in 1 .. Len(outWaiting') : f = outWaiting'[i]
        \/ (f = outHand' /\ outHand' # NULL) \/ f = answered' \/ f = outNewest'
    BY DEF Over
  <2>2. CASE \E i \in 1 .. Len(outWaiting') : f = outWaiting'[i]
    BY <1>3, <1>5, <2>2
  <2>3. CASE (f = outHand' /\ outHand' # NULL) \/ f = answered' \/ f = outNewest'
    BY <1>1, <1>5, <2>3 DEF ppVars
  <2> QED BY <2>1, <2>2, <2>3
<1>7. ASSUME NEW i \in 1 .. Len(outWaiting')
      PROVE  /\ answered < outWaiting'[i]
             /\ outHand # NULL => outHand < outWaiting'[i]
             /\ \A j \in 1 .. Len(outWaiting') :
                  i < j => outWaiting'[i] < outWaiting'[j]
  <2>1. CASE i = n + 1
    <3>1. \A j \in 1 .. Len(outWaiting') : ~(i < j)
      BY <1>3, <2>1
    <3> QED BY <1>3, <1>4, <1>5, <2>1, <3>1
  <2>2. CASE i \in 1 .. n
    <3>1. /\ outWaiting'[i] = outWaiting[i] /\ outWaiting[i] < inHand
          /\ answered < outWaiting[i]
          /\ outHand # NULL => outHand < outWaiting[i]
          /\ \A j \in 1 .. n : i < j => outWaiting[i] < outWaiting[j]
      BY <1>3, <1>4, <1>5, <2>2 DEF Onward, OutputInOrder, n
    <3>2. ASSUME NEW j \in 1 .. Len(outWaiting'), i < j
          PROVE  outWaiting'[i] < outWaiting'[j]
      <4>1. j \in 1 .. n \/ j = n + 1
        BY <1>3
      <4> QED BY <1>3, <3>1, <3>2, <4>1
    <3> QED BY <3>1, <3>2
  <2> QED BY <1>3, <2>1, <2>2
<1>8. outHand' # NULL => answered' < outHand'
  BY <1>1 DEF Onward, OutputInOrder, ppVars
<1>9. OutputInOrder'
  BY <1>1, <1>6, <1>7, <1>8 DEF OutputInOrder, ppVars
<1> QED BY <1>2, <1>9 DEF Onward

\* PP takes the oldest output, and is past it when it releases it.
LEMMA PPKeepsOnward ==
  ASSUME IndInv, Onward, PP
  PROVE  Onward'
<1>1. UNCHANGED nnVars /\ UNCHANGED inHand /\ UNCHANGED readVars
  BY DEF PP, TakeOutput, Reserve, Publish, ReleaseOutput, SignalUpdate, inVars,
     nnVars, readVars
<1>2. /\ outHand \in Frames \cup {NULL} /\ outWaiting \in Seq(Frames)
      /\ answered \in Nat /\ published \in Nat /\ sent \in Nat
      /\ pinned["log"] \in Nat \cup {NULL} /\ NULL \notin Nat /\ Frames \subseteq Nat
      /\ ppPC \in {"reserve", "publish", "release"} <=> outHand # NULL
  <2>1. "log" \in Readers
    BY DEF Readers
  <2>2. pinned["log"] \in Nat \cup {NULL}
    BY <2>1 DEF IndInv, TypeOK
  <2> QED BY <2>2, PipelineAssumption DEF IndInv, TypeOK, Control, Frames
<1>3. CASE TakeOutput
  <2>1. /\ ppPC = "wait" /\ ppPC' = "reserve" /\ outWaiting # <<>> /\ outHand = NULL
        /\ outHand' = Head(outWaiting) /\ outWaiting' = Tail(outWaiting)
        /\ UNCHANGED <<published, answered, outNewest>>
    BY <1>3 DEF TakeOutput, Out!Take
  <2>2. PICK n \in Nat : n = Len(outWaiting)
    BY <1>2
  <2>3. /\ n > 0 /\ outHand' = outWaiting[1] /\ Len(outWaiting') = n - 1
        /\ \A i \in 1 .. n - 1 : outWaiting'[i] = outWaiting[i + 1] /\ i + 1 \in 1 .. n
        /\ 1 \in 1 .. n /\ outWaiting[1] \in Frames
    BY <1>2, <2>1, <2>2
  <2>4. outHand' # NULL
    BY <1>2, <2>3
  <2>5. Over' \subseteq Over
    <3> SUFFICES ASSUME NEW f \in Over' PROVE f \in Over
      OBVIOUS
    <3>1. CASE \E i \in 1 .. Len(outWaiting') : f = outWaiting'[i]
      BY <2>2, <2>3, <3>1 DEF Over
    <3>2. CASE f = outHand'
      BY <2>2, <2>3, <3>2 DEF Over
    <3>3. CASE f = answered' \/ f = outNewest'
      BY <2>1, <3>3 DEF Over
    <3> QED BY <3>1, <3>2, <3>3 DEF Over
  <2>6. OutputInOrder'
    <3>1. /\ \A i \in 1 .. n : answered < outWaiting[i]
          /\ \A i, j \in 1 .. n : i < j => outWaiting[i] < outWaiting[j]
      BY <2>2 DEF Onward, OutputInOrder
    <3>2. ASSUME NEW i \in 1 .. n - 1
          PROVE  /\ answered' < outWaiting'[i] /\ outHand' < outWaiting'[i]
                 /\ \A j \in 1 .. n - 1 : i < j => outWaiting'[i] < outWaiting'[j]
      <4>1. i + 1 \in 1 .. n /\ 1 < i + 1
        BY <2>3
      <4>2. ASSUME NEW j \in 1 .. n - 1, i < j
            PROVE  outWaiting'[i] < outWaiting'[j]
        BY <2>3, <3>1, <4>1, <4>2
      <4> QED BY <2>1, <2>3, <3>1, <4>1, <4>2
    <3>3. answered' < outHand'
      BY <2>1, <2>3, <3>1
    <3>4. Over' \subseteq inferred' \cup {0} /\ (nnPC' = "ready" => \A f \in Over' : f < inHand')
      BY <1>1, <2>5 DEF Onward, OutputInOrder, nnVars
    <3> QED BY <2>3, <3>2, <3>3, <3>4 DEF OutputInOrder
  <2>7. Granted'
    <3>1. Out!Occupied' = Out!Occupied
      BY <2>1, <2>2, <2>3, <2>4 DEF Out!Occupied
    <3> QED BY <1>1, <3>1 DEF Onward, Granted, nnVars
  <2>8. Passed'
    BY <1>1, <2>1 DEF Onward, Passed, readVars
  <2> QED BY <2>6, <2>7, <2>8 DEF Onward
<1>4. CASE Reserve \/ Publish \/ SignalUpdate
  <2>1. UNCHANGED outVars /\ UNCHANGED answered
    BY <1>4 DEF Reserve, Publish, SignalUpdate
  <2>2. OutputInOrder' /\ Granted'
    BY <1>1, <2>1, OutputStays DEF Onward, nnVars
  <2>3. Passed'
    <3>1. CASE Reserve
      BY <1>1, <2>1, <3>1 DEF Reserve, Onward, Passed, outVars, readVars
    <3>2. CASE Publish
      <4>1. published <= answered /\ answered < outHand /\ outHand \in Nat
        BY <1>2, <3>2 DEF Publish, Onward, Passed, OutputInOrder
      <4>2. /\ published' = published \/ published' = outHand
            /\ ppPC' = "release" /\ UNCHANGED <<outHand, answered, pinned, sent>>
        BY <1>1, <2>1, <3>2 DEF Publish, outVars, readVars
      <4>3. published <= published' /\ published' \in Nat
        BY <1>2, <4>1, <4>2
      <4>4. published' <= answered \/ published' = outHand
        BY <4>1, <4>2
      <4>5. sent <= published'
        BY <1>2, <4>3 DEF Onward, Passed
      <4>6. pinned["log"] # NULL => sent <= pinned["log"] /\ pinned["log"] <= published'
        BY <1>2, <4>3 DEF Onward, Passed
      <4> QED BY <4>2, <4>4, <4>5, <4>6 DEF Passed
    <3>3. CASE SignalUpdate
      <4>1. published <= answered
        BY <3>3 DEF SignalUpdate, Onward, Passed
      <4> QED BY <1>1, <2>1, <3>3, <4>1 DEF SignalUpdate, Onward, Passed, outVars, readVars
    <3> QED BY <1>4, <3>1, <3>2, <3>3
  <2> QED BY <2>2, <2>3 DEF Onward
<1>5. CASE ReleaseOutput
  <2>1. /\ outHand # NULL /\ outHand' = NULL /\ outWaiting' = outWaiting
        /\ answered' = outHand /\ UNCHANGED <<published, outNewest>>
    BY <1>5 DEF ReleaseOutput, Out!Release
  <2>2. Over' \subseteq Over
    BY <2>1 DEF Over
  <2>3. OutputInOrder'
    BY <1>1, <2>1, <2>2 DEF Onward, OutputInOrder, nnVars
  <2>4. Granted'
    <3>1. Out!Occupied' <= Out!Occupied /\ Out!Occupied' \in Nat /\ Out!Occupied \in Nat
      BY <1>2, <2>1 DEF Out!Occupied
    <3> QED BY <1>1, <3>1, PipelineAssumption DEF Onward, Granted, nnVars
  <2>5. Passed'
    <3>1. answered < outHand /\ outHand \in Nat
      BY <1>2, <2>1 DEF Onward, OutputInOrder
    <3>2. published <= outHand
      BY <1>2, <3>1 DEF Onward, Passed
    <3> QED BY <1>1, <2>1, <3>2 DEF Onward, Passed, readVars
  <2> QED BY <2>3, <2>4, <2>5 DEF Onward
<1> QED BY <1>3, <1>4, <1>5 DEF PP

\* The readers.
LEMMA ReadersKeepOnward ==
  ASSUME IndInv, Onward, Log \/ UI
  PROVE  Onward'
<1>1. UNCHANGED <<inHand, outVars, nnVars, ppVars>>
  BY DEF Log, LogWake, LogAcquire, LogSend, UI, DrawAcquire, DrawRelease, inVars
<1>2. OutputInOrder' /\ Granted'
  BY <1>1, OutputStays DEF Onward, nnVars, ppVars
<1>3. /\ published \in Nat /\ sent \in Nat /\ NULL \notin Nat
      /\ pinned \in [Readers -> Nat \cup {NULL}] /\ Readers = {"log", "ui"}
      /\ logPC = "send" => pinned["log"] # NULL
  BY PipelineAssumption DEF IndInv, TypeOK, Control, Readers
<1>4. /\ sent <= published
      /\ pinned["log"] # NULL => sent <= pinned["log"] /\ pinned["log"] <= published
  BY DEF Onward, Passed
<1>5. /\ sent' <= published
      /\ pinned'["log"] # NULL => sent' <= pinned'["log"] /\ pinned'["log"] <= published
  <2>1. CASE LogWake
    BY <1>4, <2>1 DEF LogWake
  <2>2. CASE LogAcquire
    BY <1>3, <1>4, <2>2 DEF LogAcquire, Pin
  <2>3. CASE LogSend
    BY <1>3, <1>4, <2>3 DEF LogSend, Unpin
  <2>4. CASE DrawAcquire
    BY <1>3, <1>4, <2>4 DEF DrawAcquire, Pin
  <2>5. CASE DrawRelease
    BY <1>3, <1>4, <2>5 DEF DrawRelease, Unpin
  <2> QED BY <2>1, <2>2, <2>3, <2>4, <2>5 DEF Log, UI
<1>6. Passed'
  BY <1>1, <1>5 DEF Onward, Passed, outVars, ppVars
<1> QED BY <1>2, <1>6 DEF Onward

\* Every reachable state satisfies Onward.
LEMMA OnwardHolds == Spec => []Onward
<1>1. Init => Onward
  <2> SUFFICES ASSUME Init PROVE Onward
    OBVIOUS
  <2>1. /\ outWaiting = <<>> /\ outHand = NULL /\ outNewest = 0 /\ answered = 0
        /\ nnPC = "input" /\ published = 0 /\ sent = 0 /\ pinned["log"] = NULL
    BY DEF Init, Out!Init, Readers
  <2>2. Over = {0}
    BY <2>1 DEF Over
  <2> QED BY <2>1, <2>2 DEF Onward, OutputInOrder, Granted, Passed
<1>2. IndInv /\ Onward /\ [Next]_vars => Onward'
  <2> SUFFICES ASSUME IndInv, Onward, [Next]_vars PROVE Onward'
    OBVIOUS
  <2>1. CASE UNCHANGED vars
    <3>1. Passed'
      BY <2>1 DEF vars, outVars, ppVars, readVars, Onward, Passed
    <3>2. OutputInOrder' /\ Granted'
      BY <2>1, OutputStays DEF vars, inVars, nnVars, ppVars, Onward
    <3> QED BY <3>1, <3>2 DEF Onward
  <2> QED BY <2>1, InputKeepsOnward, FinishInferenceKeepsOnward, HandOverKeepsOnward,
       PPKeepsOnward, ReadersKeepOnward
    DEF Next, NN
<1> QED BY <1>1, <1>2, IndInvHolds, PTL DEF Spec

\* When an inference is done, the output buffer the NN thread got before it is
\* still free for it, and the frame is newer than all that were put ready: the
\* put of BQUE_PutReady cannot fail (nn_thread.c:166-219).
HandOverSucceeds ==
  nnPC = "ready" => Out!Occupied < OutputNb /\ outNewest < inHand

THEOREM HandOverAlwaysSucceeds == Spec => []HandOverSucceeds
<1>1. Onward => HandOverSucceeds
  BY DEF Onward, Granted, OutputInOrder, Over, HandOverSucceeds
<1> QED BY <1>1, OnwardHolds, PTL

\* What PP is done with, what it has published and what comm_log has sent to
\* the host never go back to an older frame, however the threads interleave
\* and whatever is skipped on the way (pp_thread.c, comm_log.c:111-118).
NeverGoesBack == answered <= answered' /\ published <= published' /\ sent <= sent'

THEOREM ResultsNeverGoBack == Spec => [][NeverGoesBack]_vars
<1>1. IndInv /\ Onward /\ [Next]_vars => [NeverGoesBack]_vars
  <2> SUFFICES ASSUME IndInv, Onward, Next PROVE NeverGoesBack
    OBVIOUS
  <2>1. /\ answered \in Nat /\ published \in Nat /\ sent \in Nat
        /\ outHand \in Nat \cup {NULL} /\ NULL \notin Nat
        /\ pinned["log"] \in Nat \cup {NULL}
        /\ ppPC \in {"reserve", "publish", "release"} <=> outHand # NULL
        /\ logPC = "send" => pinned["log"] # NULL
    <3>1. "log" \in Readers
      BY DEF Readers
    <3>2. pinned["log"] \in Nat \cup {NULL}
      BY <3>1 DEF IndInv, TypeOK
    <3> QED BY <3>2, PipelineAssumption DEF IndInv, TypeOK, Control, Frames
  <2>2. CASE Publish
    <3>1. published <= answered /\ answered < outHand /\ outHand \in Nat
      BY <2>1, <2>2 DEF Publish, Onward, Passed, OutputInOrder
    <3>2. /\ UNCHANGED <<answered, sent>>
          /\ published' = published \/ published' = outHand
      BY <2>2 DEF Publish, readVars
    <3> QED BY <2>1, <3>1, <3>2 DEF NeverGoesBack
  <2>3. CASE ReleaseOutput
    <3>1. answered < outHand /\ outHand \in Nat
      BY <2>1, <2>3 DEF ReleaseOutput, Onward, OutputInOrder
    <3>2. UNCHANGED <<published, sent>> /\ answered' = outHand
      BY <2>3 DEF ReleaseOutput, readVars
    <3> QED BY <2>1, <3>1, <3>2 DEF NeverGoesBack
  <2>4. CASE LogSend
    <3>1. sent <= pinned["log"] /\ sent' = pinned["log"]
      BY <2>1, <2>4 DEF LogSend, Onward, Passed
    <3>2. UNCHANGED <<answered, published>>
      BY <2>4 DEF LogSend, ppVars
    <3> QED BY <2>1, <3>1, <3>2 DEF NeverGoesBack
  <2>5. CASE \/ FrameEvent \/ NN \/ TakeOutput \/ Reserve \/ SignalUpdate
             \/ LogWake \/ LogAcquire \/ UI
    <3>1. UNCHANGED <<answered, published, sent>>
      BY <2>5 DEF FrameEvent, NN, TakeInput, SkipStale, KeepLatest, GetOutput,
         FinishInference, HandOver, TakeOutput, Reserve, SignalUpdate, LogWake,
         LogAcquire, UI, DrawAcquire, DrawRelease, ppVars, readVars
    <3> QED BY <2>1, <3>1 DEF NeverGoesBack
  <2> QED BY <2>2, <2>3, <2>4, <2>5 DEF Next, PP, Log
<1> QED BY <1>1, IndInvHolds, OnwardHolds, PTL DEF Spec
=============================================================================
