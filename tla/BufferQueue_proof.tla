------------------------- MODULE BufferQueue_proof -------------------------
(***************************************************************************)
(* Proofs about BufferQueue for every number of buffers.                   *)
(*                                                                         *)
(* NoBufferLost and OwnersApart are not inductive: the buffer an index     *)
(* points at is only known to be the right one because of where the other  *)
(* index is.  IndInv says so: going round the ring from free_idx one meets *)
(* the free buffers, the one in the consumer's hand, the ready ones and    *)
(* the producer's own, each group as long as its count.                    *)
(*                                                                         *)
(* The second part proves the refinement of FrameChannel.                  *)
(***************************************************************************)
EXTENDS BufferQueue, TLAPS

\* The producer's buffers are the last ones before free_idx, in order.
ProducerPositions ==
  \A k \in 1 .. Len(prodHeld) :
    prodHeld[k] = Ahead(freeIdx, BufferNb - Len(prodHeld) + k - 1)

\* The ready buffers come before those, and the consumer's before these.
ConsumerPositions ==
  /\ readyIdx = Ahead(freeIdx, BufferNb - Len(prodHeld) - ReadyCount)
  /\ consBuf # NULL =>
       consBuf = Ahead(freeIdx, BufferNb - Len(prodHeld) - ReadyCount - 1)

\* Between its steps the consumer holds a buffer exactly where the code does.
ConsumerControl ==
  /\ consPC = "index" => consBuf = NULL
  /\ consPC \in {"drain", "skip"} => consBuf # NULL

IndInv ==
  /\ TypeOK
  /\ NoBufferLost
  /\ ProducerPositions
  /\ ConsumerPositions
  /\ ConsumerControl

-----------------------------------------------------------------------------

\* The index update of bqueue.c wraps around: (i + 1) % buffer_nb is the next
\* buffer of the ring.
LEMMA FollowingIsAhead ==
  ASSUME NEW i \in Buffers
  PROVE  /\ Following(i) = Ahead(i, 1)
         /\ Following(i) \in Buffers
<1>1. BufferNb \in Nat \ {0} /\ i \in 0 .. BufferNb - 1
  BY QueueAssumption DEF Buffers
<1>2. CASE i + 1 = BufferNb
  <2>1. BufferNb % BufferNb = 0
    BY <1>1, SMT
  <2> QED BY <1>1, <1>2, <2>1 DEF Following, Ahead, Buffers
<1>3. CASE i + 1 # BufferNb
  <2>1. i + 1 \in 0 .. BufferNb - 1
    BY <1>1, <1>3
  <2>2. (i + 1) % BufferNb = i + 1
    BY <1>1, <2>1, SMT
  <2> QED BY <1>1, <2>1, <2>2 DEF Following, Ahead, Buffers
<1> QED BY <1>2, <1>3

\* One step on from the buffer d places ahead is the buffer d + 1 places ahead.
LEMMA AheadOne ==
  ASSUME NEW i \in Buffers, NEW d \in 0 .. BufferNb - 1
  PROVE  Ahead(Ahead(i, d), 1) = Ahead(i, d + 1)
<1>1. BufferNb \in Nat \ {0} /\ i \in 0 .. BufferNb - 1
  BY QueueAssumption DEF Buffers
<1> QED BY <1>1 DEF Ahead

\* Going on from the buffer c places ahead, and buffers at different places.
LEMMA AheadMoves ==
  ASSUME NEW i \in Buffers, NEW c \in 0 .. BufferNb, NEW d \in 0 .. BufferNb
  PROVE  /\ Ahead(i, c) \in Buffers
         /\ c + d <= BufferNb => Ahead(Ahead(i, c), d) = Ahead(i, c + d)
         /\ c < d /\ d < BufferNb => Ahead(i, c) # Ahead(i, d)
<1>1. /\ BufferNb \in Nat \ {0} /\ i \in Nat /\ i < BufferNb
      /\ c \in Nat /\ c <= BufferNb /\ d \in Nat /\ d <= BufferNb
  BY QueueAssumption DEF Buffers
<1>2. Ahead(i, c) \in Buffers
  BY <1>1 DEF Ahead, Buffers
<1>3. ASSUME c + d <= BufferNb
      PROVE  Ahead(Ahead(i, c), d) = Ahead(i, c + d)
  <2>1. CASE i + c < BufferNb
    BY <1>1, <1>3, <2>1 DEF Ahead
  <2>2. CASE ~(i + c < BufferNb)
    BY <1>1, <1>3, <2>2 DEF Ahead
  <2> QED BY <2>1, <2>2
<1>4. ASSUME c < d, d < BufferNb
      PROVE  Ahead(i, c) # Ahead(i, d)
  BY <1>1, <1>4 DEF Ahead
<1> QED BY <1>2, <1>3, <1>4

\* The four groups of buffers have sizes, which add up to the ring.
LEMMA GroupSizes ==
  ASSUME TypeOK
  PROVE  /\ FreeCount \in Nat /\ freeSem <= FreeCount
         /\ ReadyCount \in Nat /\ readySem <= ReadyCount
         /\ InHandCount \in {0, 1}
         /\ Len(prodHeld) \in Nat
<1>1. BufferNb \in Nat \ {0}
  BY QueueAssumption
<1>2. freeSem \in Nat /\ readySem \in Nat
  BY <1>1 DEF TypeOK
<1>3. FreeCount = freeSem \/ FreeCount = freeSem + 1
  BY <1>2 DEF FreeCount
<1>4. ReadyCount = readySem \/ ReadyCount = readySem + 1
  BY <1>2 DEF ReadyCount
<1>5. InHandCount \in {0, 1}
  BY DEF InHandCount
<1>6. Len(prodHeld) \in Nat
  BY DEF TypeOK
<1> QED BY <1>2, <1>3, <1>4, <1>5, <1>6

\* Initially every buffer is free.
LEMMA InitEstablishesIndInv == Init => IndInv
<1> SUFFICES ASSUME Init PROVE IndInv
  OBVIOUS
<1>1. TypeOK
  BY QueueAssumption DEF Init, TypeOK, Buffers, Calls
<1>2. NoBufferLost /\ ProducerPositions /\ ConsumerPositions /\ ConsumerControl
  BY QueueAssumption
  DEF Init, NoBufferLost, FreeCount, ReadyCount, InHandCount,
      ProducerPositions, ConsumerPositions, ConsumerControl, Ahead
<1> QED BY <1>1, <1>2 DEF IndInv

\* Every step of producer and consumer keeps the order of the ring.
LEMMA StepKeepsIndInv == IndInv /\ [Next]_vars => IndInv'
<1> SUFFICES ASSUME IndInv, [Next]_vars PROVE IndInv'
  OBVIOUS
<1> USE QueueAssumption
<1>0. BufferNb \in Nat \ {0} /\ NULL \notin Buffers
  BY DEF Buffers
<1>s. /\ FreeCount \in Nat /\ ReadyCount \in Nat /\ InHandCount \in {0, 1}
      /\ Len(prodHeld) \in Nat /\ readySem <= ReadyCount
      /\ FreeCount + Len(prodHeld) + ReadyCount + InHandCount = BufferNb
      /\ freeSem \in Nat /\ readySem \in Nat /\ freeSem <= FreeCount
  BY <1>0, GroupSizes DEF IndInv, NoBufferLost, TypeOK
<1>1. CASE GetFree
  <2>1. TypeOK'
    BY <1>1 DEF GetFree, IndInv, TypeOK, sems, consVars
  <2>2. /\ FreeCount' = FreeCount
        /\ UNCHANGED <<prodHeld, readySem, consPC, consBuf, health, freeIdx,
                       readyIdx>>
    BY <1>1 DEF GetFree, IndInv, TypeOK, FreeCount, consVars
  <2> QED
    BY <2>1, <2>2 DEF IndInv, NoBufferLost, ProducerPositions,
       ConsumerPositions, ConsumerControl, ReadyCount, InHandCount, Ahead
<1>2. CASE GetFreeIndex
  <2>1. /\ freeIdx \in Buffers
        /\ freeIdx' = Ahead(freeIdx, 1)
        /\ freeIdx' \in Buffers
    BY <1>2, FollowingIsAhead DEF GetFreeIndex, IndInv, TypeOK
  <2>2. /\ prodHeld' \in Seq(Buffers)
        /\ Len(prodHeld') = Len(prodHeld) + 1
        /\ \A k \in 1 .. Len(prodHeld) : prodHeld'[k] = prodHeld[k]
        /\ prodHeld'[Len(prodHeld) + 1] = freeIdx
    BY <1>2, <2>1 DEF GetFreeIndex, IndInv, TypeOK
  <2>3. TypeOK'
    BY <1>2, <2>1, <2>2 DEF GetFreeIndex, IndInv, TypeOK, sems, consVars
  <2>4. /\ FreeCount' = FreeCount - 1 /\ FreeCount >= 1
        /\ UNCHANGED <<readySem, consPC, consBuf, health, readyIdx>>
    BY <1>2, <1>s DEF GetFreeIndex, IndInv, TypeOK, FreeCount, sems, consVars
  <2>5. NoBufferLost'
    <3>1. ReadyCount' = ReadyCount /\ InHandCount' = InHandCount
      BY <2>4 DEF ReadyCount, InHandCount
    <3> QED BY <1>s, <2>2, <2>4, <3>1 DEF IndInv, NoBufferLost
  <2>6. ProducerPositions'
    <3> SUFFICES ASSUME NEW k \in 1 .. Len(prodHeld')
                 PROVE  prodHeld'[k] =
                          Ahead(freeIdx', BufferNb - Len(prodHeld') + k - 1)
      BY DEF ProducerPositions, Ahead
    <3>1. Len(prodHeld) \in Nat /\ Len(prodHeld') <= BufferNb
      BY <1>s, <2>2, <2>4
    <3>2. CASE k = Len(prodHeld) + 1
      BY <3>1, <3>2, <2>1, <2>2 DEF Ahead, Buffers
    <3>3. CASE k # Len(prodHeld) + 1
      <4>1. k \in 1 .. Len(prodHeld)
        BY <3>1, <3>3, <2>2
      <4>2. prodHeld[k] = Ahead(freeIdx, BufferNb - Len(prodHeld) + k - 1)
        BY <4>1 DEF IndInv, ProducerPositions
      <4> DEFINE d == BufferNb - Len(prodHeld') + k - 1
      <4>3. d \in 0 .. BufferNb /\ 1 \in 0 .. BufferNb /\ 1 + d <= BufferNb
        BY <1>0, <2>2, <3>1, <4>1
      <4>4. 1 + d = BufferNb - Len(prodHeld) + k - 1
        BY <1>0, <2>2, <3>1, <4>1
      <4> HIDE DEF d
      <4>5. Ahead(Ahead(freeIdx, 1), d) = Ahead(freeIdx, 1 + d)
        BY <2>1, <4>3, AheadMoves
      <4>6. prodHeld'[k] = Ahead(freeIdx', d)
        BY <2>1, <2>2, <4>1, <4>2, <4>4, <4>5
      <4> QED BY <4>6 DEF d
    <3> QED BY <3>2, <3>3
  <2>7. ConsumerPositions'
    <3>1. /\ ReadyCount' = ReadyCount /\ ReadyCount \in Nat
          /\ Len(prodHeld) \in Nat
          /\ Len(prodHeld') + ReadyCount + InHandCount <= BufferNb
      BY <1>s, <2>2, <2>4 DEF ReadyCount
    <3> DEFINE d == BufferNb - Len(prodHeld') - ReadyCount
    <3>2. /\ d \in 0 .. BufferNb /\ 1 \in 0 .. BufferNb /\ 1 + d <= BufferNb
          /\ 1 + d = BufferNb - Len(prodHeld) - ReadyCount
      BY <1>0, <1>s, <2>2, <3>1
    <3>3. readyIdx' = Ahead(freeIdx', d)
      <4>1. readyIdx = Ahead(freeIdx, 1 + d)
        BY <3>2 DEF IndInv, ConsumerPositions
      <4> HIDE DEF d
      <4> QED BY <2>1, <2>4, <3>2, <4>1, AheadMoves
    <3>4. consBuf' # NULL => consBuf' = Ahead(freeIdx', d - 1)
      <4> SUFFICES ASSUME consBuf # NULL PROVE consBuf = Ahead(freeIdx', d - 1)
        BY <2>4
      <4>1. consBuf = Ahead(freeIdx, 1 + d - 1) /\ InHandCount = 1
        BY <3>2 DEF IndInv, ConsumerPositions, InHandCount
      <4>2. d - 1 \in 0 .. BufferNb /\ 1 + (d - 1) = 1 + d - 1
        BY <1>0, <1>s, <3>1, <3>2, <4>1
      <4> DEFINE e == d - 1
      <4>3. Ahead(freeIdx', e) = Ahead(freeIdx, 1 + e)
        <5>1. e \in 0 .. BufferNb /\ 1 + e <= BufferNb
          BY <1>0, <3>2, <4>2
        <5> HIDE DEF e, d
        <5> QED BY <2>1, <3>2, <5>1, AheadMoves
      <4> QED BY <4>1, <4>2, <4>3
    <3> QED BY <2>4, <3>1, <3>3, <3>4 DEF ConsumerPositions, Ahead
  <2>8. ConsumerControl'
    BY <2>4 DEF IndInv, ConsumerControl
  <2> QED BY <2>3, <2>5, <2>6, <2>7, <2>8 DEF IndInv
<1>3. CASE Fill
  <2>1. TypeOK'
    BY <1>3 DEF Fill, IndInv, TypeOK, sems, consVars
  <2> QED
    BY <1>3, <2>1 DEF Fill, IndInv, NoBufferLost, ProducerPositions,
       ConsumerPositions, ConsumerControl, FreeCount, ReadyCount, InHandCount,
       Ahead, sems, consVars
<1>4. CASE PutReady
  <2>1. /\ prodHeld \in Seq(Buffers) /\ prodHeld # <<>>
        /\ prodHeld' = Tail(prodHeld)
    BY <1>4 DEF PutReady, IndInv, TypeOK
  <2>2. /\ prodHeld' \in Seq(Buffers)
        /\ Len(prodHeld) \in Nat \ {0}
        /\ Len(prodHeld') = Len(prodHeld) - 1
        /\ \A k \in 1 .. Len(prodHeld') : prodHeld'[k] = prodHeld[k + 1]
        /\ Head(prodHeld) \in Buffers
    BY <2>1
  <2>3. readySem < BufferNb
    BY <1>0, <1>s, <2>2
  <2>4. /\ readySem' = readySem + 1 /\ health' = "running"
        /\ UNCHANGED <<freeSem, freeIdx, readyIdx, prodPC, consPC, consBuf>>
    BY <1>4, <2>3 DEF PutReady, consVars, IndInv, NoBufferLost
  <2>5. TypeOK'
    BY <1>4, <2>2, <2>3, <2>4 DEF PutReady, IndInv, TypeOK, consVars
  <2>6. /\ ReadyCount' = ReadyCount + 1 /\ ReadyCount \in Nat
        /\ FreeCount' = FreeCount /\ InHandCount' = InHandCount
    BY <1>s, <2>4 DEF ReadyCount, FreeCount, InHandCount
  <2>7. NoBufferLost'
    <3>1. Len(prodHeld') = Len(prodHeld) - 1
      BY <2>2
    <3> QED BY <1>s, <2>4, <2>6, <3>1 DEF NoBufferLost
  <2>8. ProducerPositions'
    BY <2>2, <2>4 DEF IndInv, ProducerPositions, Ahead
  <2>9. ConsumerPositions' /\ ConsumerControl'
    BY <2>2, <2>4, <2>6 DEF IndInv, ConsumerPositions, ConsumerControl, Ahead
  <2> QED BY <2>5, <2>7, <2>8, <2>9 DEF IndInv
<1>5. ASSUME NEW call \in Calls, GetReady(call) PROVE IndInv'
  <2>1. TypeOK'
    BY <1>5 DEF GetReady, IndInv, TypeOK, prodVars
  <2>2. /\ ReadyCount' = ReadyCount
        /\ consPC' = "index" /\ consBuf = NULL
        /\ UNCHANGED <<freeSem, prodHeld, prodPC, consBuf, health, freeIdx,
                       readyIdx>>
    BY <1>5 DEF GetReady, IndInv, TypeOK, ReadyCount, prodVars
  <2> QED
    BY <2>1, <2>2 DEF IndInv, NoBufferLost, ProducerPositions,
       ConsumerPositions, ConsumerControl, FreeCount, InHandCount, Ahead
<1>6. CASE GetReadyIndex
  <2>1. /\ readyIdx \in Buffers
        /\ readyIdx' = Ahead(readyIdx, 1) /\ readyIdx' \in Buffers
        /\ consBuf' = readyIdx /\ consPC' \in {"idle", "drain"}
        /\ consPC = "index" /\ consBuf = NULL
        /\ UNCHANGED <<freeSem, readySem, prodHeld, prodPC, health, freeIdx>>
    BY <1>6, FollowingIsAhead
    DEF GetReadyIndex, IndInv, TypeOK, ConsumerControl, sems, prodVars
  <2>2. TypeOK'
    BY <1>6, <2>1 DEF GetReadyIndex, IndInv, TypeOK, sems, prodVars
  <2>3. /\ ReadyCount = ReadyCount' + 1 /\ ReadyCount' \in Nat
        /\ FreeCount' = FreeCount /\ FreeCount \in Nat
        /\ InHandCount = 0 /\ InHandCount' = 1
        /\ Len(prodHeld) \in Nat /\ freeIdx \in Buffers
    BY <1>0, <1>s, <2>1
    DEF IndInv, TypeOK, ReadyCount, FreeCount, InHandCount
  <2>4. NoBufferLost'
    BY <1>s, <2>1, <2>3 DEF IndInv, NoBufferLost
  <2>5. ProducerPositions' /\ ConsumerControl'
    BY <1>0, <2>1 DEF IndInv, ProducerPositions, ConsumerControl, Ahead
  <2>6. ConsumerPositions'
    <3>1. /\ readyIdx = Ahead(freeIdx, BufferNb - Len(prodHeld) - ReadyCount)
          /\ Len(prodHeld) + ReadyCount <= BufferNb
      <4>1. readyIdx = Ahead(freeIdx, BufferNb - Len(prodHeld) - ReadyCount)
        BY DEF IndInv, ConsumerPositions
      <4>2. FreeCount + Len(prodHeld) + ReadyCount = BufferNb /\ ReadyCount \in Nat
        <5>1. InHandCount = 0
          BY <2>3
        <5>2. FreeCount + Len(prodHeld) + ReadyCount + 0 = BufferNb
          BY <1>s, <5>1
        <5> QED BY <1>s, <5>2
      <4> QED BY <2>3, <4>1, <4>2
    <3>2. readyIdx' = Ahead(freeIdx', BufferNb - Len(prodHeld') - ReadyCount')
      <4>1. readyIdx' = Ahead(freeIdx, BufferNb - Len(prodHeld) - ReadyCount + 1)
        <5>1. BufferNb - Len(prodHeld) - ReadyCount \in 0 .. BufferNb - 1
          BY <1>0, <2>3, <3>1
        <5> QED BY <5>1, <2>1, <2>3, <3>1, AheadOne
      <4>2. BufferNb - Len(prodHeld) - ReadyCount + 1
              = BufferNb - Len(prodHeld') - ReadyCount'
        BY <1>0, <1>s, <2>1, <2>3
      <4> QED BY <2>1, <4>1, <4>2
    <3>3. consBuf' = Ahead(freeIdx', BufferNb - Len(prodHeld') - ReadyCount' - 1)
      <4>1. BufferNb - Len(prodHeld') - ReadyCount' - 1
              = BufferNb - Len(prodHeld) - ReadyCount
        BY <1>0, <2>1, <2>3
      <4> QED BY <2>1, <3>1, <4>1
    <3> QED BY <3>2, <3>3 DEF ConsumerPositions, Ahead
  <2> QED BY <2>2, <2>4, <2>5, <2>6 DEF IndInv
<1>7. CASE DrainTake
  <2>1. TypeOK'
    BY <1>7 DEF DrainTake, IndInv, TypeOK, prodVars
  <2>2. /\ ReadyCount' = ReadyCount
        /\ consPC = "drain" /\ consPC' = "skip"
        /\ UNCHANGED <<freeSem, prodHeld, prodPC, consBuf, health, freeIdx,
                       readyIdx>>
    BY <1>7 DEF DrainTake, IndInv, TypeOK, ReadyCount, prodVars
  <2> QED
    BY <2>1, <2>2 DEF IndInv, NoBufferLost, ProducerPositions,
       ConsumerPositions, ConsumerControl, FreeCount, InHandCount, Ahead
<1>8. CASE DrainFree
  <2>1. /\ consPC = "skip" /\ consPC' = "index"
        /\ consBuf # NULL /\ consBuf' = NULL
        /\ freeSem' = freeSem + 1
        /\ UNCHANGED <<readySem, prodHeld, prodPC, health, freeIdx, readyIdx>>
    BY <1>8 DEF DrainFree, IndInv, ConsumerControl, prodVars
  <2>2. /\ FreeCount' = FreeCount + 1 /\ ReadyCount' = ReadyCount
        /\ InHandCount = 1 /\ InHandCount' = 0
    BY <1>s, <2>1 DEF FreeCount, ReadyCount, InHandCount
  <2>3. NoBufferLost'
    BY <1>s, <2>1, <2>2 DEF IndInv, NoBufferLost
  <2>4. freeSem' \in 0 .. BufferNb
    BY <1>0, <1>s, <2>1, <2>2
  <2>5. TypeOK'
    BY <1>8, <2>4 DEF DrainFree, IndInv, TypeOK, prodVars
  <2> QED
    BY <2>1, <2>2, <2>3, <2>5 DEF IndInv, ProducerPositions,
       ConsumerPositions, ConsumerControl, Ahead
<1>9. CASE DrainDone
  <2>1. TypeOK'
    BY <1>9 DEF DrainDone, IndInv, TypeOK, sems, prodVars
  <2> QED
    BY <1>9, <2>1 DEF DrainDone, IndInv, NoBufferLost, ProducerPositions,
       ConsumerPositions, ConsumerControl, FreeCount, ReadyCount, InHandCount,
       Ahead, sems, prodVars
<1>10. CASE PutFree
  <2>1. /\ consPC = "idle" /\ consPC' = "idle"
        /\ consBuf # NULL /\ consBuf' = NULL
        /\ freeSem' = freeSem + 1
        /\ UNCHANGED <<readySem, prodHeld, prodPC, health, freeIdx, readyIdx>>
    BY <1>10 DEF PutFree, prodVars
  <2>2. /\ FreeCount' = FreeCount + 1 /\ ReadyCount' = ReadyCount
        /\ InHandCount = 1 /\ InHandCount' = 0
    BY <1>s, <2>1 DEF FreeCount, ReadyCount, InHandCount
  <2>3. NoBufferLost'
    BY <1>s, <2>1, <2>2 DEF IndInv, NoBufferLost
  <2>4. freeSem' \in 0 .. BufferNb
    BY <1>0, <1>s, <2>1, <2>2
  <2>5. TypeOK'
    BY <1>10, <2>4 DEF PutFree, IndInv, TypeOK, prodVars
  <2> QED
    BY <2>1, <2>2, <2>3, <2>5 DEF IndInv, ProducerPositions,
       ConsumerPositions, ConsumerControl, Ahead
<1>11. CASE UNCHANGED vars
  <2>1. TypeOK'
    BY <1>11 DEF vars, IndInv, TypeOK
  <2> QED
    BY <1>11, <2>1 DEF vars, IndInv, NoBufferLost, ProducerPositions,
       ConsumerPositions, ConsumerControl, FreeCount, ReadyCount, InHandCount,
       Ahead
<1> QED
  BY <1>1, <1>2, <1>3, <1>4, <1>5, <1>6, <1>7, <1>8, <1>9, <1>10, <1>11
  DEF Next, Producer, Consumer, Finished

-----------------------------------------------------------------------------

\* The order of the ring separates the owners.
LEMMA IndInvSeparatesOwners == IndInv => OwnersApart
<1> SUFFICES ASSUME IndInv,
                    NEW k \in 1 .. Len(prodHeld)
             PROVE  /\ prodHeld[k] # consBuf
                    /\ \A j \in 1 .. ReadyCount : prodHeld[k] # ReadyBuffers[j]
                    /\ \A j \in 1 .. Len(prodHeld) :
                         j # k => prodHeld[j] # prodHeld[k]
  BY DEF OwnersApart
<1>1. /\ BufferNb \in Nat \ {0} /\ freeIdx \in Buffers /\ readyIdx \in Buffers
      /\ Len(prodHeld) \in Nat /\ ReadyCount \in Nat /\ FreeCount \in Nat
      /\ InHandCount \in {0, 1}
      /\ FreeCount + Len(prodHeld) + ReadyCount + InHandCount = BufferNb
  BY QueueAssumption, GroupSizes DEF IndInv, TypeOK, NoBufferLost
<1>2. prodHeld[k] = Ahead(freeIdx, BufferNb - Len(prodHeld) + k - 1)
  BY DEF IndInv, ProducerPositions
<1>3. prodHeld[k] # consBuf
  <2>1. CASE consBuf = NULL
    BY <1>1, <1>2, <2>1, QueueAssumption DEF Ahead, Buffers
  <2>2. CASE consBuf # NULL
    <3>1. /\ consBuf = Ahead(freeIdx, BufferNb - Len(prodHeld) - ReadyCount - 1)
          /\ InHandCount = 1
      BY <2>2 DEF IndInv, ConsumerPositions, InHandCount
    <3> QED BY <1>1, <1>2, <3>1 DEF Ahead, Buffers
  <2> QED BY <2>1, <2>2
<1>4. ASSUME NEW j \in 1 .. ReadyCount PROVE prodHeld[k] # ReadyBuffers[j]
  <2>1. ReadyBuffers[j] = Ahead(readyIdx, j - 1)
    BY DEF ReadyBuffers
  <2>2. readyIdx = Ahead(freeIdx, BufferNb - Len(prodHeld) - ReadyCount)
    BY DEF IndInv, ConsumerPositions
  <2> DEFINE c == BufferNb - Len(prodHeld) - ReadyCount
             d == BufferNb - Len(prodHeld) + k - 1
             e == j - 1
  <2>3. /\ c \in 0 .. BufferNb /\ e \in 0 .. BufferNb /\ d \in 0 .. BufferNb
        /\ c + e \in 0 .. BufferNb /\ c + e < d /\ d < BufferNb
    BY <1>1
  <2> HIDE DEF c, d, e
  <2>4. Ahead(Ahead(freeIdx, c), e) = Ahead(freeIdx, c + e)
    BY <1>1, <2>3, AheadMoves
  <2>5. Ahead(freeIdx, c + e) # Ahead(freeIdx, d)
    BY <1>1, <2>3, AheadMoves
  <2> USE DEF c, d, e
  <2> QED BY <1>2, <2>1, <2>2, <2>4, <2>5
<1>5. ASSUME NEW j \in 1 .. Len(prodHeld), j # k
      PROVE  prodHeld[j] # prodHeld[k]
  <2>1. prodHeld[j] = Ahead(freeIdx, BufferNb - Len(prodHeld) + j - 1)
    BY DEF IndInv, ProducerPositions
  <2> QED BY <1>1, <1>2, <1>5, <2>1 DEF Ahead, Buffers
<1> QED BY <1>3, <1>4, <1>5

\* IndInv holds in every reachable state.
THEOREM IndInvHolds == Spec => []IndInv
<1> QED BY InitEstablishesIndInv, StepKeepsIndInv, PTL DEF Spec

\* Type correctness of bqueue.c: indices stay inside the ring and semaphore
\* counts never exceed the number of buffers.
THEOREM TypeCorrect == Spec => []TypeOK
<1>1. IndInv => TypeOK
  BY DEF IndInv
<1> QED BY <1>1, IndInvHolds, PTL

\* For any number of buffers, no interleaving leaks a buffer or counts one
\* twice, and the ceiling put of BQUE_PutReady never fails.
THEOREM NoBufferIsLost == Spec => []NoBufferLost
<1>1. IndInv => NoBufferLost
  BY DEF IndInv
<1> QED BY <1>1, IndInvHolds, PTL

\* For any number of buffers, the camera DMA or the NPU never writes a buffer
\* that the consumer reads or is about to read.
THEOREM OwnersAreApart == Spec => []OwnersApart
<1> QED BY IndInvHolds, IndInvSeparatesOwners, PTL

-----------------------------------------------------------------------------
(* The ring implements the channel. *)

\* The channel's queue and hand, as Channel maps them.
Waiting == [k \in 1 .. ReadyCount |-> frame[ReadyBuffers[k]]]
InHand == IF consBuf = NULL THEN NULL ELSE frame[consBuf]
Discarded == frameDrops + skipCount

\* Between two calls no skips are left to be reported, and a call skips only if it
\* is BQUE_GetReadyLatest.
SkipsInCall ==
  /\ consPC \in {"drain", "skip"} => consCall = "GetReadyLatest"
  /\ consPC = "idle" \/ (consPC = "index" /\ consCall = "GetReady") => skipCount = 0

\* The frame published last is in the last ready buffer, or else in the hand.
NewestLast ==
  /\ ReadyCount > 0 => frame[Ahead(readyIdx, ReadyCount - 1)] = published
  /\ ReadyCount = 0 /\ consBuf # NULL => frame[consBuf] = published

\* One waiting frame per ready buffer, in ring order.
InRingOrder ==
  /\ ReadyCount \in 0 .. BufferNb
  /\ Waiting \in Seq(Nat) /\ Len(Waiting) = ReadyCount
  /\ \A k \in 1 .. ReadyCount :
       /\ Ahead(readyIdx, k - 1) \in Buffers
       /\ Waiting[k] = frame[Ahead(readyIdx, k - 1)]

\* A list of n elements is a sequence, and a sequence goes on with its tail.
LEMMA ListIsSeq ==
  ASSUME NEW S, NEW n \in Nat, NEW w, w = [k \in 1 .. n |-> w[k]],
         \A k \in 1 .. n : w[k] \in S
  PROVE  w \in Seq(S) /\ Len(w) = n
  OBVIOUS

LEMMA IsTail ==
  ASSUME NEW S, NEW w \in Seq(S), NEW v \in Seq(S), Len(w) > 0,
         Len(v) = Len(w) - 1, \A k \in 1 .. Len(w) - 1 : v[k] = w[k + 1]
  PROVE  w # <<>> /\ Head(w) = w[1] /\ v = Tail(w)
<1>1. w # <<>> /\ Head(w) = w[1]
  OBVIOUS
<1>2. /\ Tail(w) \in Seq(S) /\ Len(Tail(w)) = Len(w) - 1
      /\ \A k \in 1 .. Len(w) - 1 : Tail(w)[k] = w[k + 1]
  OBVIOUS
<1>3. Len(v) = Len(Tail(w)) /\ \A k \in 1 .. Len(v) : v[k] = Tail(w)[k]
  BY <1>2
<1> QED BY <1>1, <1>2, <1>3

\* The mapped sequence has one frame per ready buffer, in ring order.
LEMMA WaitingInOrder == IndInv => InRingOrder
<1> SUFFICES ASSUME IndInv PROVE InRingOrder
  OBVIOUS
<1> USE QueueAssumption
<1>1. /\ BufferNb \in Nat \ {0} /\ readyIdx \in 0 .. BufferNb - 1
      /\ ReadyCount \in 0 .. BufferNb /\ frame \in [Buffers -> Nat]
  <2>1. /\ BufferNb \in Nat \ {0} /\ readyIdx \in 0 .. BufferNb - 1
        /\ frame \in [Buffers -> Nat]
    BY DEF IndInv, TypeOK, Buffers
  <2>2. /\ FreeCount \in Nat /\ Len(prodHeld) \in Nat /\ ReadyCount \in Nat
        /\ InHandCount \in Nat
        /\ FreeCount + Len(prodHeld) + ReadyCount + InHandCount = BufferNb
    BY GroupSizes DEF IndInv, NoBufferLost
  <2> QED BY <2>1, <2>2
<1>2. \A k \in 1 .. ReadyCount :
        /\ Ahead(readyIdx, k - 1) \in Buffers
        /\ Waiting[k] = frame[Ahead(readyIdx, k - 1)]
  BY <1>1 DEF Waiting, ReadyBuffers, Ahead, Buffers
<1>3. Waiting = [k \in 1 .. ReadyCount |-> Waiting[k]]
  BY DEF Waiting
<1>4. \A k \in 1 .. ReadyCount : Waiting[k] \in Nat
  BY <1>1, <1>2
<1> HIDE DEF Waiting
<1>5. Waiting \in Seq(Nat) /\ Len(Waiting) = ReadyCount
  <2>1. ReadyCount \in Nat
    BY <1>1
  <2> QED BY <1>3, <1>4, <2>1, ListIsSeq
<1> QED BY <1>1, <1>2, <1>5 DEF InRingOrder

\* The same after a step.
LEMMA WaitingInOrderNext == IndInv' => InRingOrder'
<1> QED BY WaitingInOrder, PTL

\* A step that leaves the ready buffers and the hand alone is none of the
\* channel's.
LEMMA QuietStepStutters ==
  ASSUME IndInv, ReadyCount' = ReadyCount, Discarded' = Discarded,
         UNCHANGED <<readyIdx, consBuf, published, delivered>>,
         \A k \in 1 .. ReadyCount :
           frame'[Ahead(readyIdx, k - 1)] = frame[Ahead(readyIdx, k - 1)],
         consBuf # NULL => frame'[consBuf] = frame[consBuf]
  PROVE  UNCHANGED Channel!vars
<1>1. InHand' = InHand
  BY DEF InHand
<1>2. Waiting' = Waiting
  BY DEF Waiting, ReadyBuffers, Ahead
<1> QED BY <1>1, <1>2 DEF Channel!vars, Waiting, InHand, Discarded

\* The ring begins as an empty channel.
LEMMA InitImplementsChannel == Init => Channel!Init
<1> SUFFICES ASSUME Init PROVE Channel!Init
  OBVIOUS
<1>1. ReadyCount = 0
  BY DEF Init, ReadyCount
<1>2. Waiting = <<>>
  BY <1>1 DEF Waiting
<1>3. InHand = NULL /\ published = 0 /\ delivered = 0 /\ Discarded = 0
  BY DEF Init, InHand, Discarded
<1> QED BY <1>2, <1>3 DEF Channel!Init, Waiting, InHand, Discarded

\* The buffer that is put ready follows the last ready one.
LEMMA NextReadyIsHead ==
  ASSUME IndInv, prodHeld # <<>>
  PROVE  Ahead(readyIdx, ReadyCount) = Head(prodHeld)
<1>1. /\ BufferNb \in Nat \ {0} /\ freeIdx \in 0 .. BufferNb - 1
      /\ Len(prodHeld) \in Nat \ {0} /\ Head(prodHeld) = prodHeld[1]
      /\ FreeCount \in Nat /\ ReadyCount \in Nat /\ InHandCount \in {0, 1}
      /\ FreeCount + Len(prodHeld) + ReadyCount + InHandCount = BufferNb
  BY QueueAssumption, GroupSizes DEF IndInv, TypeOK, NoBufferLost, Buffers
<1>2. prodHeld[1] = Ahead(freeIdx, BufferNb - Len(prodHeld))
  BY <1>1 DEF IndInv, ProducerPositions
<1>3. readyIdx = Ahead(freeIdx, BufferNb - Len(prodHeld) - ReadyCount)
  BY DEF IndInv, ConsumerPositions
<1> QED BY <1>1, <1>2, <1>3 DEF Ahead

\* Putting a buffer ready appends its frame.
LEMMA PutReadyPublishes ==
  ASSUME IndInv, IndInv', PutReady
  PROVE  Channel!Publish
<1> USE QueueAssumption
<1>1. /\ BufferNb \in Nat \ {0} /\ freeIdx \in 0 .. BufferNb - 1
      /\ prodHeld \in Seq(Buffers) /\ Len(prodHeld) \in Nat \ {0}
      /\ Head(prodHeld) = prodHeld[1] /\ Head(prodHeld) \in Buffers
      /\ FreeCount \in Nat /\ ReadyCount \in Nat /\ InHandCount \in {0, 1}
      /\ FreeCount + Len(prodHeld) + ReadyCount + InHandCount = BufferNb
      /\ readySem \in Nat /\ readySem <= ReadyCount
  <2>1. /\ prodHeld \in Seq(Buffers) /\ prodHeld # <<>>
        /\ BufferNb \in Nat \ {0} /\ freeIdx \in 0 .. BufferNb - 1
    BY DEF PutReady, IndInv, TypeOK, Buffers
  <2>2. /\ Len(prodHeld) \in Nat \ {0} /\ Head(prodHeld) = prodHeld[1]
        /\ Head(prodHeld) \in Buffers
    BY <2>1
  <2>3. /\ FreeCount \in Nat /\ ReadyCount \in Nat /\ InHandCount \in {0, 1}
        /\ FreeCount + Len(prodHeld) + ReadyCount + InHandCount = BufferNb
    BY GroupSizes DEF IndInv, NoBufferLost
  <2>4. readySem \in Nat /\ readySem <= ReadyCount
    BY DEF IndInv, TypeOK, ReadyCount
  <2> QED BY <2>1, <2>2, <2>3, <2>4
<1>2. /\ ReadyCount' = ReadyCount + 1
      /\ UNCHANGED <<readyIdx, consBuf, frame, delivered, frameDrops, skipCount>>
  BY <1>1 DEF PutReady, ReadyCount, consVars
<1>3. Ahead(readyIdx, ReadyCount) = Head(prodHeld)
  BY <1>1, NextReadyIsHead
<1>4. published' > published /\ published' = frame[Head(prodHeld)]
  BY <1>1 DEF PutReady, IndInv, TypeOK
<1>5. Waiting' = Append(Waiting, published')
  <2> DEFINE W == Waiting
             V == Waiting'
  <2>1. W \in Seq(Nat) /\ Len(W) = ReadyCount
    BY WaitingInOrder DEF InRingOrder
  <2>2. V \in Seq(Nat) /\ Len(V) = ReadyCount + 1
    BY <1>2, WaitingInOrderNext DEF InRingOrder
  <2>3. published' \in Nat
    BY <1>1, <1>4 DEF IndInv, TypeOK
  <2>4. \A k \in 1 .. ReadyCount + 1 : V[k] = Append(W, published')[k]
    <3> SUFFICES ASSUME NEW k \in 1 .. ReadyCount + 1
                 PROVE  V[k] = Append(W, published')[k]
      OBVIOUS
    <3>1. V[k] = frame[Ahead(readyIdx, k - 1)]
      <4>1. V[k] = frame'[Ahead(readyIdx', k - 1)]
        BY <1>2, WaitingInOrderNext DEF InRingOrder, Ahead
      <4> QED BY <1>2, <4>1
    <3>2. CASE k = ReadyCount + 1
      BY <1>1, <1>3, <1>4, <2>1, <2>3, <3>1, <3>2
    <3>3. CASE k # ReadyCount + 1
      <4>1. k \in 1 .. ReadyCount
        BY <1>1, <3>3
      <4>2. W[k] = frame[Ahead(readyIdx, k - 1)]
        BY <4>1, WaitingInOrder DEF InRingOrder
      <4> HIDE DEF W, V
      <4> QED BY <2>1, <2>3, <3>1, <4>1, <4>2
    <3> QED BY <3>2, <3>3
  <2> HIDE DEF W, V
  <2>5. Append(W, published') \in Seq(Nat) /\ Len(Append(W, published')) = Len(V)
    BY <2>1, <2>2, <2>3
  <2>6. V = Append(W, published')
    BY <2>2, <2>4, <2>5
  <2> QED BY <2>6 DEF W, V
<1>6. Channel!Occupied < BufferNb
  <2>1. Len(Waiting) = ReadyCount
    BY WaitingInOrder DEF InRingOrder
  <2>2. (IF InHand = NULL THEN 0 ELSE 1) = InHandCount
    BY DEF InHand, InHandCount, IndInv, TypeOK
  <2> QED BY <1>1, <2>1, <2>2 DEF Channel!Occupied, Waiting, InHand
<1>7. InHand' = InHand /\ Discarded' = Discarded
  BY <1>2 DEF InHand, Discarded
<1> QED
  BY <1>2, <1>4, <1>5, <1>6, <1>7 DEF Channel!Publish, Waiting, InHand, Discarded

\* Reading the index takes the oldest frame.
LEMMA GetReadyIndexTakes ==
  ASSUME IndInv, IndInv', GetReadyIndex
  PROVE  Channel!Take
<1> USE QueueAssumption
<1>1. /\ BufferNb \in Nat \ {0} /\ readyIdx \in Buffers
      /\ ReadyCount \in 1 .. BufferNb /\ ReadyCount' = ReadyCount - 1
      /\ consBuf = NULL /\ consBuf' = readyIdx
      /\ readyIdx' = Ahead(readyIdx, 1)
      /\ frame \in [Buffers -> Nat] /\ NULL \notin Buffers
      /\ UNCHANGED <<frame, published, delivered, frameDrops, skipCount>>
  <2>1. /\ readySem \in Nat /\ consPC = "index" /\ consPC' \in {"idle", "drain"}
        /\ UNCHANGED <<readySem, frame, published, delivered, frameDrops, skipCount>>
    BY DEF GetReadyIndex, IndInv, TypeOK, sems, prodVars
  <2>2. ReadyCount = readySem + 1 /\ ReadyCount' = readySem
    BY <2>1 DEF ReadyCount
  <2>3. ReadyCount \in 1 .. BufferNb
    BY <2>1, <2>2, WaitingInOrder DEF InRingOrder
  <2>4. /\ readyIdx \in Buffers /\ consBuf = NULL /\ consBuf' = readyIdx
        /\ readyIdx' = Ahead(readyIdx, 1) /\ frame \in [Buffers -> Nat]
    BY FollowingIsAhead DEF GetReadyIndex, IndInv, TypeOK, ConsumerControl
  <2> QED BY <2>1, <2>2, <2>3, <2>4 DEF Buffers
<1> DEFINE W == Waiting
           V == Waiting'
<1>2. W \in Seq(Nat) /\ Len(W) = ReadyCount /\ V \in Seq(Nat) /\ Len(V) = ReadyCount - 1
  BY <1>1, WaitingInOrder, WaitingInOrderNext DEF InRingOrder
<1>3. \A k \in 1 .. ReadyCount - 1 : V[k] = W[k + 1]
  <2> SUFFICES ASSUME NEW k \in 1 .. ReadyCount - 1 PROVE V[k] = W[k + 1]
    OBVIOUS
  <2>1. V[k] = frame'[Ahead(readyIdx', k - 1)]
    BY <1>1, WaitingInOrderNext DEF InRingOrder, Ahead
  <2>2. W[k + 1] = frame[Ahead(readyIdx, k)]
    <3>1. k + 1 \in 1 .. ReadyCount /\ (k + 1) - 1 = k
      BY <1>1
    <3>2. W[k + 1] = frame[Ahead(readyIdx, (k + 1) - 1)]
      BY <3>1, WaitingInOrder DEF InRingOrder
    <3> QED BY <3>1, <3>2
  <2>3. Ahead(Ahead(readyIdx, 1), k - 1) = Ahead(readyIdx, k)
    BY <1>1 DEF Ahead, Buffers
  <2> QED BY <1>1, <2>1, <2>2, <2>3
<1>4. W[1] = frame[readyIdx]
  <2>1. W[1] = frame[Ahead(readyIdx, 1 - 1)]
    BY <1>1, WaitingInOrder DEF InRingOrder
  <2>2. Ahead(readyIdx, 1 - 1) = readyIdx
    BY <1>1 DEF Ahead, Buffers
  <2> QED BY <2>1, <2>2
<1> HIDE DEF W, V
<1>5. W # <<>> /\ Head(W) = frame[readyIdx] /\ V = Tail(W)
  <2>1. Len(W) > 0 /\ Len(V) = Len(W) - 1 /\ W \in Seq(Nat) /\ V \in Seq(Nat)
    BY <1>1, <1>2
  <2>2. \A k \in 1 .. Len(W) - 1 : V[k] = W[k + 1]
    BY <1>2, <1>3
  <2> QED BY <1>4, <2>1, <2>2, IsTail
<1>6. InHand = NULL /\ InHand' = frame[readyIdx] /\ Discarded' = Discarded
  BY <1>1 DEF InHand, Discarded
<1> QED
  BY <1>1, <1>5, <1>6 DEF W, V, Channel!Take, Waiting, InHand, Discarded

\* Giving a stale buffer back discards its frame: a newer one is waiting.
LEMMA DrainFreeDiscards ==
  ASSUME IndInv, DrainFree
  PROVE  Channel!Discard
<1> USE QueueAssumption
<1>1. /\ ReadyCount \in Nat \ {0} /\ ReadyCount' = ReadyCount
      /\ consBuf # NULL /\ consBuf' = NULL /\ frame[consBuf] \in Nat
      /\ UNCHANGED <<readyIdx, frame, published, delivered, frameDrops>>
      /\ skipCount' = skipCount + 1 /\ skipCount \in Nat /\ frameDrops \in Nat
  BY GroupSizes
  DEF DrainFree, IndInv, TypeOK, ConsumerControl, ReadyCount, prodVars
<1>2. Waiting' = Waiting
  BY <1>1 DEF Waiting, ReadyBuffers, Ahead
<1>3. Waiting # <<>>
  BY <1>1, WaitingInOrder DEF InRingOrder
<1>4. InHand # NULL /\ InHand' = NULL /\ Discarded' = Discarded + 1
  BY <1>1 DEF InHand, Discarded
<1> QED
  BY <1>1, <1>2, <1>3, <1>4 DEF Channel!Discard, Waiting, InHand, Discarded

\* Giving the buffer back after use releases its frame.
LEMMA PutFreeReleases ==
  ASSUME IndInv, PutFree
  PROVE  Channel!Release
<1> USE QueueAssumption
<1>1. /\ ReadyCount' = ReadyCount /\ consBuf # NULL /\ consBuf' = NULL
      /\ frame[consBuf] \in Nat /\ delivered' = delivered + 1
      /\ UNCHANGED <<readyIdx, frame, published, frameDrops, skipCount>>
  BY DEF PutFree, IndInv, TypeOK, ReadyCount, prodVars
<1>2. Waiting' = Waiting
  BY <1>1 DEF Waiting, ReadyBuffers, Ahead
<1>3. InHand # NULL /\ InHand' = NULL /\ Discarded' = Discarded
  BY <1>1 DEF InHand, Discarded
<1> QED
  BY <1>1, <1>2, <1>3 DEF Channel!Release, Waiting, InHand, Discarded

\* A frame written by the producer touches no frame of the channel.
LEMMA FillStutters == ASSUME IndInv, Fill PROVE UNCHANGED Channel!vars
<1> USE QueueAssumption
<1>1. /\ prodHeld \in Seq(Buffers) /\ Len(prodHeld) \in Nat \ {0}
      /\ Head(prodHeld) = prodHeld[1] /\ frame \in [Buffers -> Nat]
      /\ frame' = [frame EXCEPT ![prodHeld[1]] = filled + 1]
      /\ UNCHANGED <<readyIdx, consBuf, published, delivered, frameDrops, skipCount>>
  BY DEF Fill, IndInv, TypeOK, sems, consVars
<1>2. ReadyCount' = ReadyCount /\ Discarded' = Discarded
  BY DEF Fill, ReadyCount, Discarded, sems, consVars
<1>3. OwnersApart
  BY IndInvSeparatesOwners
<1>4. \A k \in 1 .. ReadyCount :
        frame'[Ahead(readyIdx, k - 1)] = frame[Ahead(readyIdx, k - 1)]
  <2> SUFFICES ASSUME NEW k \in 1 .. ReadyCount
               PROVE  frame'[Ahead(readyIdx, k - 1)] = frame[Ahead(readyIdx, k - 1)]
    OBVIOUS
  <2>1. ReadyBuffers[k] = Ahead(readyIdx, k - 1) /\ Ahead(readyIdx, k - 1) \in Buffers
    BY WaitingInOrder DEF InRingOrder, ReadyBuffers
  <2>2. prodHeld[1] # Ahead(readyIdx, k - 1)
    BY <1>1, <1>3, <2>1 DEF OwnersApart
  <2> QED BY <1>1, <2>1, <2>2
<1>5. consBuf # NULL => frame'[consBuf] = frame[consBuf]
  BY <1>1, <1>3 DEF OwnersApart, IndInv, TypeOK
<1> QED BY <1>1, <1>2, <1>4, <1>5, QuietStepStutters

\* The steps between a semaphore call and the index access are the ring's own.
LEMMA SemaphoreStepsStutter ==
  ASSUME IndInv, SkipsInCall,
         \/ GetFree \/ GetFreeIndex \/ DrainTake \/ DrainDone
         \/ \E call \in Calls : GetReady(call)
         \/ UNCHANGED vars
  PROVE  UNCHANGED Channel!vars
<1>1. /\ ReadyCount' = ReadyCount
      /\ UNCHANGED <<readyIdx, consBuf, published, delivered, frame>>
  BY DEF IndInv, TypeOK, GetFree, GetFreeIndex, DrainTake, DrainDone, GetReady,
         vars, sems, prodVars, consVars, ReadyCount
<1>2. Discarded' = Discarded
  <2>1. CASE \E call \in Calls : GetReady(call)
    BY <2>1 DEF IndInv, TypeOK, GetReady, Discarded, SkipsInCall
  <2>2. CASE ~\E call \in Calls : GetReady(call)
    BY <2>2 DEF IndInv, TypeOK, GetFree, GetFreeIndex, DrainTake, DrainDone,
                vars, sems, prodVars, consVars, Discarded
  <2> QED BY <2>1, <2>2
<1> QED BY <1>1, <1>2, QuietStepStutters

\* Every step of the ring is one of the channel's, or none.
LEMMA StepImplementsChannel ==
  IndInv /\ IndInv' /\ SkipsInCall /\ [Next]_vars => [Channel!Next]_(Channel!vars)
<1> SUFFICES ASSUME IndInv, IndInv', SkipsInCall, [Next]_vars
             PROVE  Channel!Next \/ UNCHANGED Channel!vars
  OBVIOUS
<1>1. CASE PutReady
  BY <1>1, PutReadyPublishes DEF Channel!Next
<1>2. CASE GetReadyIndex
  BY <1>2, GetReadyIndexTakes DEF Channel!Next
<1>3. CASE DrainFree
  BY <1>3, DrainFreeDiscards DEF Channel!Next
<1>4. CASE PutFree
  BY <1>4, PutFreeReleases DEF Channel!Next
<1>5. CASE Fill
  BY <1>5, FillStutters
<1>6. CASE \/ GetFree \/ GetFreeIndex \/ DrainTake \/ DrainDone
           \/ \E call \in Calls : GetReady(call)
           \/ UNCHANGED vars
  BY <1>6, SemaphoreStepsStutter
<1> QED
  BY <1>1, <1>2, <1>3, <1>4, <1>5, <1>6 DEF Next, Producer, Consumer, Finished

\* Skips are counted inside one call.
LEMMA StepKeepsSkipsInCall == IndInv /\ SkipsInCall /\ [Next]_vars => SkipsInCall'
<1> SUFFICES ASSUME IndInv, SkipsInCall, [Next]_vars PROVE SkipsInCall'
  OBVIOUS
<1> USE DEF SkipsInCall
<1>1. CASE Producer \/ Finished \/ UNCHANGED vars
  BY <1>1 DEF Producer, GetFree, GetFreeIndex, Fill, PutReady, Finished, vars,
              consVars
<1>2. ASSUME NEW call \in Calls, GetReady(call) PROVE SkipsInCall'
  BY <1>2 DEF GetReady
<1>3. CASE GetReadyIndex
  BY <1>3 DEF GetReadyIndex, IndInv, TypeOK, Calls
<1>4. CASE DrainTake \/ DrainFree \/ DrainDone
  BY <1>4 DEF DrainTake, DrainFree, DrainDone
<1>5. CASE PutFree
  BY <1>5 DEF PutFree
<1> QED BY <1>1, <1>2, <1>3, <1>4, <1>5 DEF Next, Consumer

\* The newest frame stays the last one.
LEMMA StepKeepsNewestLast ==
  IndInv /\ IndInv' /\ NewestLast /\ [Next]_vars => NewestLast'
<1> SUFFICES ASSUME IndInv, IndInv', NewestLast, [Next]_vars PROVE NewestLast'
  OBVIOUS
<1> USE QueueAssumption
<1>0. /\ BufferNb \in Nat \ {0} /\ readyIdx \in Buffers /\ ReadyCount \in 0 .. BufferNb
      /\ readySem \in Nat /\ frame \in [Buffers -> Nat] /\ NULL \notin Buffers
  <2>1. ReadyCount \in 0 .. BufferNb
    BY WaitingInOrder DEF InRingOrder
  <2>2. /\ readyIdx \in Buffers /\ readySem \in Nat /\ frame \in [Buffers -> Nat]
    BY DEF IndInv, TypeOK
  <2> QED BY <2>1, <2>2 DEF Buffers
<1>1. CASE PutReady
  <2>1. /\ ReadyCount' = ReadyCount + 1
        /\ UNCHANGED <<readyIdx, frame>>
        /\ published' = frame[Head(prodHeld)]
    <3>1. readySem < BufferNb
      BY <1>0, <1>1, GroupSizes DEF PutReady, IndInv, NoBufferLost, TypeOK
    <3> QED BY <1>0, <1>1, <3>1 DEF PutReady, ReadyCount, consVars
  <2>2. Ahead(readyIdx, ReadyCount) = Head(prodHeld)
    BY <1>1, NextReadyIsHead DEF PutReady
  <2>3. ReadyCount' - 1 = ReadyCount /\ ReadyCount' # 0
    BY <1>0, <2>1
  <2>4. Ahead(readyIdx', ReadyCount' - 1) = Head(prodHeld)
    BY <2>1, <2>2, <2>3 DEF Ahead
  <2> QED BY <2>1, <2>3, <2>4 DEF NewestLast
<1>2. CASE Fill
  <2>1. /\ prodHeld \in Seq(Buffers) /\ Len(prodHeld) \in Nat \ {0}
        /\ frame' = [frame EXCEPT ![prodHeld[1]] = filled + 1]
        /\ UNCHANGED <<readyIdx, consBuf, published>> /\ ReadyCount' = ReadyCount
    BY <1>2 DEF Fill, IndInv, TypeOK, ReadyCount, sems, consVars
  <2>2. OwnersApart
    BY IndInvSeparatesOwners
  <2>3. CASE ReadyCount > 0
    <3>1. ReadyCount \in 1 .. ReadyCount
      BY <1>0, <2>3
    <3>2. /\ ReadyBuffers[ReadyCount] = Ahead(readyIdx, ReadyCount - 1)
          /\ Ahead(readyIdx, ReadyCount - 1) \in Buffers
      BY <3>1, WaitingInOrder DEF InRingOrder, ReadyBuffers
    <3>3. prodHeld[1] # Ahead(readyIdx, ReadyCount - 1)
      BY <2>1, <2>2, <3>1, <3>2 DEF OwnersApart
    <3>4. frame'[Ahead(readyIdx, ReadyCount - 1)] = published
      BY <1>0, <2>1, <2>3, <3>2, <3>3 DEF NewestLast
    <3> QED BY <1>0, <2>1, <2>3, <3>4 DEF NewestLast, Ahead
  <2>4. CASE ReadyCount = 0
    <3>1. 1 \in 1 .. Len(prodHeld) /\ prodHeld[1] # consBuf
      BY <2>1, <2>2 DEF OwnersApart
    <3>2. consBuf # NULL => consBuf \in Buffers /\ frame \in [Buffers -> Nat]
      BY DEF IndInv, TypeOK
    <3>3. consBuf # NULL => frame'[consBuf] = frame[consBuf]
      BY <2>1, <3>1, <3>2
    <3> QED BY <1>0, <2>1, <2>4, <3>3 DEF NewestLast
  <2> QED BY <1>0, <2>3, <2>4
<1>3. CASE GetReadyIndex
  <2>1. /\ ReadyCount = readySem + 1 /\ ReadyCount' = readySem
        /\ consBuf' = readyIdx /\ readyIdx' = Ahead(readyIdx, 1)
        /\ UNCHANGED <<frame, published>>
    BY <1>3, <1>0, FollowingIsAhead
    DEF GetReadyIndex, ReadyCount, sems, prodVars, IndInv, TypeOK
  <2>2. CASE readySem = 0
    <3>1. Ahead(readyIdx, ReadyCount - 1) = readyIdx
      BY <1>0, <2>1, <2>2 DEF Ahead, Buffers
    <3> QED BY <1>0, <2>1, <2>2, <3>1 DEF NewestLast
  <2>3. CASE readySem > 0
    <3>1. Ahead(Ahead(readyIdx, 1), readySem - 1) = Ahead(readyIdx, readySem)
      BY <1>0, <2>1, <2>3 DEF Ahead, Buffers
    <3>2. ReadyCount - 1 = readySem
      BY <1>0, <2>1
    <3>3. frame[Ahead(readyIdx, readySem)] = published
      BY <1>0, <2>1, <2>3, <3>2 DEF NewestLast
    <3>4. frame'[Ahead(readyIdx', ReadyCount' - 1)] = published'
      BY <2>1, <3>1, <3>3 DEF Ahead
    <3> QED BY <1>0, <2>1, <2>3, <3>4 DEF NewestLast
  <2> QED BY <1>0, <2>2, <2>3
<1>4. CASE DrainFree \/ PutFree
  <2>1. /\ ReadyCount' = ReadyCount /\ consBuf' = NULL
        /\ UNCHANGED <<readyIdx, frame, published>>
    BY <1>4 DEF DrainFree, PutFree, ReadyCount, prodVars
  <2> QED BY <2>1 DEF NewestLast, Ahead
<1>5. CASE \/ GetFree \/ GetFreeIndex \/ DrainTake \/ DrainDone
           \/ \E call \in Calls : GetReady(call)
           \/ UNCHANGED vars
  <2>1. /\ ReadyCount' = ReadyCount
        /\ UNCHANGED <<readyIdx, consBuf, published, frame>>
    BY <1>0, <1>5 DEF GetFree, GetFreeIndex, DrainTake, DrainDone, GetReady,
       vars, sems, prodVars, consVars, ReadyCount
  <2> QED BY <2>1 DEF NewestLast, Ahead
<1> QED
  BY <1>1, <1>2, <1>3, <1>4, <1>5 DEF Next, Producer, Consumer, Finished

\* The detailed queue implements the abstract one: the ring of bqueue.c, with its
\* unlocked indices and split calls, behaves as an atomic bounded channel that
\* neither loses, repeats, reorders nor overwrites a frame, for any number of
\* buffers.
THEOREM QueueImplementsChannel == Spec => ImplementsChannel
<1>1. Init => SkipsInCall
  BY DEF Init, SkipsInCall
<1>2. Spec => []SkipsInCall
  BY <1>1, IndInvHolds, StepKeepsSkipsInCall, PTL DEF Spec
<1> QED
  BY <1>2, IndInvHolds, InitImplementsChannel, StepImplementsChannel, PTL
  DEF Spec, ImplementsChannel, Channel!Spec

\* BQUE_GetReadyLatest returns the newest frame published at the moment it finds
\* the queue drained (bqueue.c:138-169).
THEOREM LatestIsNewest == Spec => ReturnsNewest
<1>1. Init => NewestLast
  BY DEF Init, NewestLast, ReadyCount
<1>2. Spec => []NewestLast
  BY <1>1, IndInvHolds, StepKeepsNewestLast, PTL DEF Spec
<1>3. IndInv /\ NewestLast /\ [Next]_vars =>
        [consPC = "drain" /\ consPC' = "idle" => frame[consBuf] = published]_vars
  <2> SUFFICES ASSUME IndInv, NewestLast, Next, consPC = "drain", consPC' = "idle"
               PROVE  frame[consBuf] = published
    OBVIOUS
  <2>1. DrainDone
    BY DEF Next, Producer, Consumer, Finished, GetFree, GetFreeIndex, Fill,
       PutReady, GetReady, GetReadyIndex, DrainTake, DrainFree, PutFree, vars,
       consVars
  <2>2. ReadyCount = 0 /\ consBuf # NULL
    BY <2>1 DEF DrainDone, ReadyCount, IndInv, ConsumerControl
  <2> QED BY <2>2 DEF NewestLast
<1> QED BY <1>2, <1>3, IndInvHolds, PTL DEF Spec, ReturnsNewest
=============================================================================
