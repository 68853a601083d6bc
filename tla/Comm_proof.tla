----------------------------- MODULE Comm_proof -----------------------------
(***************************************************************************)
(* Proofs about the two halves of the host link: CommTx, for any ring, any *)
(* number of senders and of calls, and CommRx, for any ring, any lengths   *)
(* and any number of frames.                                               *)
(*                                                                         *)
(* In CommTx the semaphores count slots, the indices name them.  Ring says *)
(* that the two agree: the slots in use are those from tx_dequeue_idx on,  *)
(* as many as were unlocked and not freed, and tx_enqueue_idx is the next  *)
(* one.  That a sender does not look whether its slot is in use is safe    *)
(* because it holds a count of tx_free_sem, which SlotsConserved bounds.   *)
(*                                                                         *)
(* In CommRx there are no counts, only the two indices.  InRing says that  *)
(* they delimit the bytes that came, were not lost and were not taken, in  *)
(* order; Counted bounds everything by the stream; Aligned says where in   *)
(* it the parser is as long as nothing is lost.                            *)
(***************************************************************************)
EXTENDS CommTx, CommRx, FiniteSetTheorems, TLAPS

-----------------------------------------------------------------------------
(* The transmit half: the inductive invariant. *)

\* The slot k places after i in the ring, for k in 0 .. Depth.
Ahead(i, k) == IF i + k < Depth THEN i + k ELSE i + k - Depth

\* The senders that have filled a slot and not signalled it.
Signalling == {s \in Senders : sndPC[s] = "signal"}

Busy == IF txPC = "idle" THEN 0 ELSE 1

\* The number of slots in use.
Filled == ready + Cardinality(Signalling) + Busy

Ring ==
  /\ enqueue = Ahead(dequeue, Filled)
  /\ \A k \in 0 .. Filled - 1 :
       lens[Ahead(dequeue, k)] = 1 /\ bufs[Ahead(dequeue, k)] # NONE
  /\ txPC # "idle" => txSlot = dequeue

\* The sender with the mutex works on the slot at tx_enqueue_idx.
Owners ==
  \A s \in Senders :
    /\ sndPC[s] \in {"encode", "unlock"} => mutex = s /\ sndSlot[s] = enqueue
    /\ sndPC[s] = "unlock" => bufs[sndSlot[s]] # NONE
    /\ sndPC[s] # "idle" => calls[s] > 0

\* The transfer that runs is that of the thread, and unsignalled.
Wire ==
  /\ dma # NONE => done = 0 /\ dma = txSlot /\ txPC \in {"wait", "abort"}
  /\ txPC = "start" => done = 0 /\ attempt < StartTries

IndInv == TypeOK /\ SlotsConserved /\ Ring /\ Owners /\ Wire

-----------------------------------------------------------------------------
(* Sizes and positions. *)

\* The index update of comm_tx.c wraps around.
LEMMA FollowingIsAhead ==
  ASSUME NEW i \in Slots
  PROVE  Following(i) = Ahead(i, 1) /\ Following(i) \in Slots
<1>1. Depth \in Nat \ {0} /\ i \in 0 .. Depth - 1
  BY TxAssumption DEF Slots
<1>2. CASE i + 1 = Depth
  <2>1. Depth % Depth = 0
    BY <1>1, SMT
  <2> QED
    BY <1>1, <1>2, <2>1 DEF Following, Ahead, Slots
<1>3. CASE i + 1 # Depth
  <2>1. i + 1 \in 0 .. Depth - 1
    BY <1>1, <1>3
  <2>2. (i + 1) % Depth = i + 1
    BY <1>1, <2>1, SMT
  <2> QED
    BY <1>1, <2>1, <2>2 DEF Following, Ahead, Slots
<1> QED
  BY <1>2, <1>3

\* Steps around the ring.
LEMMA AheadSteps ==
  ASSUME NEW i \in Slots, NEW k \in 0 .. Depth - 1
  PROVE  /\ Ahead(i, k) \in Slots
         /\ Following(Ahead(i, k)) = Ahead(i, k + 1)
         /\ Ahead(Following(i), k) = Ahead(i, k + 1)
         /\ k > 0 => Ahead(i, k) # i
         /\ Ahead(i, 0) = i
<1>1. Depth \in Nat \ {0} /\ i \in 0 .. Depth - 1
  BY TxAssumption DEF Slots
<1>2. Ahead(i, k) \in Slots
  BY <1>1 DEF Ahead, Slots
<1>3. Following(i) = Ahead(i, 1) /\ Following(Ahead(i, k)) = Ahead(Ahead(i, k), 1)
  BY <1>2, FollowingIsAhead
<1> QED
  BY <1>1, <1>2, <1>3 DEF Ahead

\* The groups of senders are finite, and a sender that has a slot and has not
\* filled it yet makes the difference.
LEMMA Groups ==
  ASSUME TypeOK
  PROVE  /\ IsFiniteSet(Sending) /\ IsFiniteSet(Signalling)
         /\ Cardinality(Sending) \in Nat /\ Cardinality(Signalling) \in Nat
         /\ Cardinality(Signalling) <= Cardinality(Sending)
         /\ \A s \in Sending \ Signalling :
              Cardinality(Signalling) + 1 <= Cardinality(Sending)
<1>1. IsFiniteSet(Sending) /\ IsFiniteSet(Signalling)
  BY TxAssumption, FS_Subset DEF Sending, Signalling
<1>2. Signalling \subseteq Sending
  BY DEF Sending, Signalling
<1>3. Cardinality(Sending) \in Nat /\ Cardinality(Signalling) \in Nat
  BY <1>1, FS_CardinalityType
<1>4. Cardinality(Signalling) <= Cardinality(Sending)
  BY <1>1, <1>2, FS_Subset
<1>5. ASSUME NEW s \in Sending \ Signalling
      PROVE  Cardinality(Signalling) + 1 <= Cardinality(Sending)
  <2>1. Cardinality(Signalling \cup {s}) = Cardinality(Signalling) + 1
    BY <1>1, <1>5, FS_AddElement
  <2>2. Signalling \cup {s} \subseteq Sending
    BY <1>2, <1>5
  <2> QED
    BY <1>1, <2>1, <2>2, FS_Subset
<1> QED
  BY <1>1, <1>3, <1>4, <1>5

\* How far the ring is filled.
LEMMA Room ==
  ASSUME TypeOK, SlotsConserved
  PROVE  /\ Filled \in 0 .. Depth /\ Busy \in {0, 1}
         /\ Filled >= Busy
         /\ \A s \in Sending \ Signalling : Filled < Depth
<1>1. Depth \in Nat /\ free \in Nat /\ ready \in Nat
  BY TxAssumption DEF TypeOK
<1>2. Busy \in {0, 1} /\ free + Cardinality(Sending) + ready + Busy = Depth
  BY DEF Busy, SlotsConserved
<1> QED
  BY <1>1, <1>2, Groups DEF Filled

-----------------------------------------------------------------------------
(* The initial state. *)

LEMMA InitEstablishes == Init => IndInv
<1> SUFFICES ASSUME Init PROVE IndInv
  OBVIOUS
<1> USE TxAssumption
<1>1. Sending = {} /\ Signalling = {} /\ Cardinality({}) = 0
  BY FS_EmptySet DEF Init, Sending, Signalling
<1>2. TypeOK
  BY DEF Init, TypeOK, Slots
<1>3. SlotsConserved
  BY <1>1 DEF Init, SlotsConserved
<1>4. Filled = 0
  BY <1>1 DEF Init, Filled, Busy
<1>5. Ring
  BY <1>4 DEF Init, Ring, Ahead
<1>6. Owners /\ Wire
  BY DEF Init, Owners, Wire
<1> QED
  BY <1>2, <1>3, <1>5, <1>6 DEF IndInv

-----------------------------------------------------------------------------
(* The senders. *)

\* A slot is claimed: only the counts change.
LEMMA ClaimKeeps ==
  ASSUME IndInv, NEW s \in Senders, Claim(s)
  PROVE  IndInv'
<1> USE TxAssumption DEF IndInv, Claim, threadVars, wireVars
<1>1. sndPC'[s] = "lock" /\ \A r \in Senders \ {s} : sndPC'[r] = sndPC[r]
  BY DEF TypeOK
<1>2. Sending' = Sending \cup {s} /\ s \notin Sending /\ Signalling' = Signalling
  BY <1>1 DEF Sending, Signalling
<1>3. Cardinality(Sending') = Cardinality(Sending) + 1
  BY <1>2, Groups, FS_AddElement
<1>4. free \in Nat /\ ready \in Nat /\ Depth \in Nat
  BY DEF TypeOK
<1>5. SlotsConserved'
  BY <1>3, <1>4, Groups DEF SlotsConserved
<1>6. calls[s] \in 0 .. MaxSends /\ calls'[s] = calls[s] + 1
  BY DEF TypeOK
<1>7. TypeOK'
  <2>1. calls' \in [Senders -> 0 .. MaxSends]
    BY <1>6 DEF TypeOK
  <2>2. sndPC' \in [Senders -> {"idle", "lock", "encode", "unlock", "signal"}]
    BY DEF TypeOK
  <2>3. free' \in 0 .. Depth
    BY <1>4 DEF TypeOK
  <2> QED
    BY <2>1, <2>2, <2>3 DEF TypeOK
<1>8. Ring'
  <2>1. Filled' = Filled
    BY <1>2 DEF Filled, Busy
  <2> QED
    BY <2>1 DEF Ring, Ahead
<1>9. Owners'
  <2> SUFFICES ASSUME NEW r \in Senders
      PROVE  /\ sndPC'[r] \in {"encode", "unlock"} => mutex' = r /\ sndSlot'[r] = enqueue'
             /\ sndPC'[r] = "unlock" => bufs'[sndSlot'[r]] # NONE
             /\ sndPC'[r] # "idle" => calls'[r] > 0
    BY DEF Owners
  <2>1. CASE r = s
    BY <1>1, <1>6, <2>1
  <2>2. CASE r # s
    <3>1. calls'[r] = calls[r]
      BY <2>2 DEF TypeOK
    <3> QED
      BY <1>1, <2>2, <3>1 DEF Owners
  <2> QED
    BY <2>1, <2>2
<1>10. Wire'
  BY DEF Wire
<1> QED
  BY <1>5, <1>7, <1>8, <1>9, <1>10

\* A message is dropped.
LEMMA DropKeeps ==
  ASSUME IndInv, NEW s \in Senders, Drop(s)
  PROVE  IndInv'
<1> USE TxAssumption DEF IndInv, Drop, threadVars, wireVars
<1>1. calls[s] \in 0 .. MaxSends /\ calls' = [calls EXCEPT ![s] = calls[s] + 1]
  BY DEF TypeOK
<1>2. calls' \in [Senders -> 0 .. MaxSends] /\ \A r \in Senders : calls'[r] >= calls[r]
  BY <1>1 DEF TypeOK
<1>3. TypeOK'
  BY <1>2 DEF TypeOK
<1>4. SlotsConserved'
  BY DEF SlotsConserved, Sending
<1>5. Ring'
  BY DEF Ring, Filled, Signalling, Busy, Ahead
<1>6. Owners'
  <2>1. \A r \in Senders : calls[r] > 0 => calls'[r] > 0
    BY <1>2 DEF TypeOK
  <2> QED
    BY <2>1 DEF Owners
<1>7. Wire'
  BY DEF Wire
<1> QED
  BY <1>3, <1>4, <1>5, <1>6, <1>7

\* The steps of a sender that neither claim nor fill nor signal a slot.
LEMMA SameCounts ==
  ASSUME IndInv, NEW s \in Senders, NEW at \in {"encode", "unlock"},
         sndPC[s] \in {"lock", "encode"},
         sndPC' = [sndPC EXCEPT ![s] = at],
         UNCHANGED <<free, ready, txPC>>
  PROVE  /\ SlotsConserved' /\ Filled' = Filled
         /\ sndPC' \in [Senders -> {"idle", "lock", "encode", "unlock", "signal"}]
         /\ sndPC'[s] = at /\ \A r \in Senders \ {s} : sndPC'[r] = sndPC[r]
<1> USE DEF IndInv
<1>1. sndPC'[s] = at /\ \A r \in Senders \ {s} : sndPC'[r] = sndPC[r]
  BY DEF TypeOK
<1>2. Sending' = Sending
  BY <1>1 DEF Sending
<1>3. Signalling' = Signalling
  BY <1>1 DEF Signalling
<1>4. SlotsConserved'
  BY <1>2 DEF SlotsConserved
<1>5. Filled' = Filled
  BY <1>3 DEF Filled, Busy
<1>6. sndPC' \in [Senders -> {"idle", "lock", "encode", "unlock", "signal"}]
  BY DEF TypeOK
<1> QED
  BY <1>1, <1>4, <1>5, <1>6

\* The mutex is taken, and with it the slot at tx_enqueue_idx.
LEMMA LockKeeps ==
  ASSUME IndInv, NEW s \in Senders, Lock(s)
  PROVE  IndInv'
<1> USE TxAssumption DEF IndInv, Lock, threadVars, wireVars
<1>1. /\ SlotsConserved' /\ Filled' = Filled
      /\ sndPC' \in [Senders -> {"idle", "lock", "encode", "unlock", "signal"}]
      /\ sndPC'[s] = "encode" /\ \A r \in Senders \ {s} : sndPC'[r] = sndPC[r]
  BY SameCounts
<1>2. TypeOK'
  BY <1>1 DEF TypeOK
<1>3. Ring'
  BY <1>1 DEF Ring, Ahead
<1>4. Owners'
  <2>1. \A r \in Senders : sndPC[r] \notin {"encode", "unlock"}
    BY DEF Owners
  <2>2. sndSlot'[s] = enqueue' /\ mutex' = s
    BY DEF TypeOK
  <2> QED
    BY <1>1, <2>1, <2>2 DEF Owners
<1>5. Wire'
  BY DEF Wire
<1> QED
  BY <1>1, <1>2, <1>3, <1>4, <1>5

\* A frame is written into the slot at tx_enqueue_idx.
LEMMA EncodeKeeps ==
  ASSUME IndInv, NEW s \in Senders, Encode(s)
  PROVE  IndInv'
<1> USE TxAssumption DEF IndInv, Encode, threadVars, wireVars
<1>1. /\ SlotsConserved' /\ Filled' = Filled
      /\ sndPC' \in [Senders -> {"idle", "lock", "encode", "unlock", "signal"}]
      /\ sndPC'[s] = "unlock" /\ \A r \in Senders \ {s} : sndPC'[r] = sndPC[r]
  BY SameCounts
<1>2. <<s, calls[s]>> \in Frames /\ <<s, calls[s]>> # NONE
  <2>1. calls[s] \in 1 .. MaxSends
    BY DEF Owners, TypeOK
  <2>2. NONE \notin Senders \X Nat
    OBVIOUS
  <2>3. <<s, calls[s]>> \in Senders \X Nat
    BY <2>1
  <2> QED
    BY <2>1, <2>2, <2>3 DEF Frames
<1>3. sndSlot[s] \in Slots
  BY DEF TypeOK
<1>4. bufs' \in [Slots -> Frames \cup {NONE}]
  BY <1>2, <1>3 DEF TypeOK
<1>5. TypeOK'
  BY <1>1, <1>4 DEF TypeOK
<1>6. bufs'[sndSlot[s]] # NONE /\ \A i \in Slots : bufs[i] # NONE => bufs'[i] # NONE
  BY <1>2, <1>3 DEF TypeOK
<1>7. Ring'
  <2>1. \A k \in 0 .. Filled - 1 : Ahead(dequeue, k) \in Slots
    BY Room, AheadSteps DEF TypeOK
  <2> QED
    BY <1>1, <1>6, <2>1 DEF Ring, Ahead
<1>8. Owners'
  <2>1. \A r \in Senders : sndSlot[r] \in Slots
    BY DEF TypeOK
  <2> QED
    BY <1>1, <1>6, <2>1 DEF Owners
<1>9. Wire'
  BY DEF Wire
<1> QED
  BY <1>1, <1>5, <1>7, <1>8, <1>9

\* The filled slot joins those in use, and the next one is to be filled.
LEMMA UnlockKeeps ==
  ASSUME IndInv, NEW s \in Senders, Unlock(s)
  PROVE  IndInv'
<1> USE TxAssumption DEF IndInv, Unlock, threadVars, wireVars
<1>0. Depth \in Nat \ {0} /\ ready \in Nat /\ enqueue \in Slots /\ dequeue \in Slots
  BY DEF TypeOK
<1>1. sndPC'[s] = "signal" /\ \A r \in Senders \ {s} : sndPC'[r] = sndPC[r]
  BY DEF TypeOK
<1>2. Sending' = Sending /\ s \in Sending \ Signalling
  BY <1>1 DEF Sending, Signalling
<1>3. Signalling' = Signalling \cup {s}
  BY <1>1 DEF Signalling
<1>4. Cardinality(Signalling') = Cardinality(Signalling) + 1
  BY <1>2, <1>3, Groups, FS_AddElement
<1>5. SlotsConserved'
  BY <1>2 DEF SlotsConserved
<1>6. Filled \in 0 .. Depth - 1 /\ Filled' = Filled + 1
  <2>1. Filled \in 0 .. Depth /\ Filled < Depth
    BY <1>2, Room
  <2>2. Cardinality(Signalling) \in Nat /\ Busy \in {0, 1} /\ Busy' = Busy
    BY Groups, Room DEF Busy
  <2> QED
    BY <1>0, <1>4, <2>1, <2>2 DEF Filled
<1>7. enqueue = Ahead(dequeue, Filled) /\ enqueue' = Ahead(dequeue, Filled + 1)
  BY <1>0, <1>6, AheadSteps DEF Ring
<1>8. enqueue' \in Slots
  BY <1>0, FollowingIsAhead
<1>9. sndSlot[s] = enqueue /\ mutex = s /\ bufs[enqueue] # NONE
  BY DEF Owners
<1>10. /\ lens' \in [Slots -> {0, 1}]
       /\ lens'[enqueue] = 1 /\ \A i \in Slots : lens[i] = 1 => lens'[i] = 1
  BY <1>0, <1>9 DEF TypeOK
<1>11. TypeOK'
  <2>1. sndPC' \in [Senders -> {"idle", "lock", "encode", "unlock", "signal"}]
    BY DEF TypeOK
  <2> QED
    BY <1>8, <1>10, <2>1 DEF TypeOK
<1>12. Ring'
  <2>1. ASSUME NEW k \in 0 .. Filled' - 1
        PROVE  lens'[Ahead(dequeue, k)] = 1 /\ bufs[Ahead(dequeue, k)] # NONE
    <3>1. CASE k = Filled
      BY <1>7, <1>9, <1>10, <3>1
    <3>2. CASE k # Filled
      <4>1. k \in 0 .. Filled - 1 /\ k \in 0 .. Depth - 1
        BY <1>0, <1>6, <3>2
      <4>2. Ahead(dequeue, k) \in Slots
        BY <1>0, <4>1, AheadSteps
      <4> QED
        BY <1>10, <4>1, <4>2 DEF Ring
    <3> QED
      BY <3>1, <3>2
  <2> QED
    BY <1>6, <1>7, <2>1 DEF Ring, Ahead
<1>13. Owners'
  <2>1. \A r \in Senders \ {s} : sndPC[r] \notin {"encode", "unlock"}
    BY <1>9 DEF Owners
  <2> QED
    BY <1>1, <2>1 DEF Owners
<1>14. Wire'
  BY DEF Wire
<1> QED
  BY <1>5, <1>11, <1>12, <1>13, <1>14

\* A filled slot is signalled: one group loses it, tx_ready_sem gets it.
LEMMA SignalKeeps ==
  ASSUME IndInv, NEW s \in Senders, Signal(s)
  PROVE  IndInv'
<1> USE TxAssumption DEF IndInv, Signal, threadVars, wireVars
<1>1. sndPC'[s] = "idle" /\ \A r \in Senders \ {s} : sndPC'[r] = sndPC[r]
  BY DEF TypeOK
<1>2. /\ Sending' = Sending \ {s} /\ s \in Sending
      /\ Signalling' = Signalling \ {s} /\ s \in Signalling
  BY <1>1 DEF Sending, Signalling
<1>3. /\ Cardinality(Sending') = Cardinality(Sending) - 1
      /\ Cardinality(Signalling') = Cardinality(Signalling) - 1
  BY <1>2, Groups, FS_RemoveElement
<1>4. free \in Nat /\ ready \in Nat /\ Depth \in Nat
  BY DEF TypeOK
<1>5. Cardinality(Sending) \in Nat /\ Cardinality(Signalling) \in Nat
  BY Groups
<1>6. SlotsConserved'
  BY <1>3, <1>4, <1>5 DEF SlotsConserved
<1>7. Filled' = Filled
  <2>1. Busy' = Busy /\ Busy \in {0, 1}
    BY DEF Busy
  <2> QED
    BY <1>3, <1>4, <1>5, <2>1 DEF Filled
<1>8. TypeOK'
  <2>1. sndPC' \in [Senders -> {"idle", "lock", "encode", "unlock", "signal"}]
    BY DEF TypeOK
  <2>2. ready' <= Depth
    <3>1. Cardinality(Signalling) >= 1
      BY <1>2, Groups, FS_EmptySet, FS_CardinalityType, <1>5
    <3>2. Filled \in 0 .. Depth /\ Busy \in {0, 1}
      BY Room
    <3> QED
      BY <1>4, <1>5, <3>1, <3>2 DEF Filled
  <2> QED
    BY <1>4, <2>1, <2>2 DEF TypeOK
<1>9. Ring'
  BY <1>7 DEF Ring, Ahead
<1>10. Owners'
  BY <1>1 DEF Owners
<1>11. Wire'
  BY DEF Wire
<1> QED
  BY <1>6, <1>8, <1>9, <1>10, <1>11

-----------------------------------------------------------------------------
(* The comm_tx thread and the UART. *)

\* A ready slot becomes that of the thread.
LEMMA TakeReadyKeeps == ASSUME IndInv, TakeReady PROVE IndInv'
<1> USE TxAssumption DEF IndInv, TakeReady, senderVars, wireVars
<1>1. Sending' = Sending /\ Signalling' = Signalling
  BY DEF Sending, Signalling
<1>2. free \in Nat /\ ready \in Nat \ {0} /\ Depth \in Nat
  BY DEF TypeOK
<1>3. SlotsConserved'
  BY <1>1, <1>2, Groups DEF SlotsConserved
<1>4. Filled' = Filled
  BY <1>1, <1>2, Groups DEF Filled, Busy
<1>5. TypeOK'
  BY <1>2 DEF TypeOK
<1>6. Ring' /\ Owners' /\ Wire'
  BY <1>4 DEF Ring, Owners, Wire, Ahead
<1> QED
  BY <1>3, <1>5, <1>6

\* The oldest slot in use becomes free.
LEMMA FreeSlotKeeps == ASSUME IndInv, FreeSlot PROVE IndInv'
<1> USE TxAssumption DEF IndInv, FreeSlot, senderVars, wireVars
<1>0. Depth \in Nat \ {0} /\ free \in Nat /\ ready \in Nat /\ dequeue \in Slots
  BY DEF TypeOK
<1>1. Sending' = Sending /\ Signalling' = Signalling
  BY DEF Sending, Signalling
<1>2. Cardinality(Sending) \in Nat /\ Cardinality(Signalling) \in Nat
  BY Groups
<1>3. SlotsConserved'
  BY <1>0, <1>1, <1>2 DEF SlotsConserved
<1>4. Filled \in 1 .. Depth /\ Filled' = Filled - 1
  <2>1. Filled \in 0 .. Depth /\ Busy = 1 /\ Busy' = 0
    BY Room DEF Busy
  <2> QED
    BY <1>0, <1>1, <1>2, <2>1 DEF Filled
<1>5. dequeue' \in Slots /\ txSlot = dequeue
  BY <1>0, FollowingIsAhead DEF Ring
<1>6. /\ lens' \in [Slots -> {0, 1}]
      /\ \A i \in Slots \ {dequeue} : lens'[i] = lens[i]
  BY <1>0, <1>5 DEF TypeOK
<1>7. free' <= Depth
  BY <1>0, <1>1, <1>2 DEF SlotsConserved
<1>8. TypeOK'
  BY <1>0, <1>5, <1>6, <1>7 DEF TypeOK
<1>9. Ring'
  <2>1. \A k \in 0 .. Depth - 1 : Ahead(dequeue', k) = Ahead(dequeue, k + 1)
    BY <1>0, AheadSteps
  <2>2. enqueue' = Ahead(dequeue', Filled')
    BY <1>0, <1>4, <2>1 DEF Ring
  <2>3. ASSUME NEW k \in 0 .. Filled' - 1
        PROVE  lens'[Ahead(dequeue', k)] = 1 /\ bufs[Ahead(dequeue', k)] # NONE
    <3>1. k + 1 \in 1 .. Filled - 1 /\ k + 1 \in 0 .. Depth - 1 /\ k \in 0 .. Depth - 1
      BY <1>0, <1>4
    <3>2. Ahead(dequeue, k + 1) \in Slots \ {dequeue}
      BY <1>0, <3>1, AheadSteps
    <3> QED
      BY <1>6, <2>1, <3>1, <3>2 DEF Ring
  <2> QED
    BY <2>2, <2>3 DEF Ring, Ahead
<1>10. Owners'
  BY DEF Owners
<1>11. Wire'
  BY DEF Wire
<1> QED
  BY <1>3, <1>8, <1>9, <1>10, <1>11

\* The steps of a transfer touch neither the ring nor the senders.
LEMMA TransferKeeps ==
  ASSUME IndInv, TypeOK', Wire', txPC # "idle" <=> txPC' # "idle",
         UNCHANGED <<free, ready, lens, txSlot, dequeue, senderVars>>
  PROVE  IndInv'
<1> USE DEF IndInv, senderVars
<1>1. SlotsConserved'
  BY DEF SlotsConserved, Sending
<1>2. Filled' = Filled
  BY DEF Filled, Signalling, Busy
<1>3. Ring' /\ Owners'
  BY <1>2 DEF Ring, Owners, Ahead
<1> QED
  BY <1>1, <1>3

\* What the UART completes is the frame of the thread's slot.
LEMMA TxCpltKeeps == ASSUME IndInv, TxCplt PROVE IndInv'
<1> USE TxAssumption DEF IndInv, TxCplt, threadVars
<1>1. dma = dequeue /\ txPC # "idle" /\ done = 0
  BY DEF Wire, Ring
<1>2. Filled \in 1 .. Depth
  BY <1>1, Room DEF Busy
<1>3. bufs[dma] \in Frames
  <2>1. dequeue \in Slots /\ Ahead(dequeue, 0) = dequeue
    BY AheadSteps DEF TypeOK
  <2>2. bufs[Ahead(dequeue, 0)] # NONE
    BY <1>2 DEF Ring
  <2> QED
    BY <1>1, <2>1, <2>2 DEF TypeOK
<1>4. bufs[dma][1] \in Senders /\ bufs[dma][2] \in 0 .. MaxSends
  BY <1>3 DEF Frames
<1>5. onWire' \in [Senders -> 0 .. MaxSends]
  BY <1>4 DEF TypeOK
<1>6. TypeOK'
  BY <1>1, <1>3, <1>5 DEF TypeOK, senderVars
<1>7. Wire'
  BY <1>1 DEF Wire
<1> QED
  BY <1>6, <1>7, TransferKeeps

-----------------------------------------------------------------------------
(* All steps. *)

LEMMA Invariance == IndInv /\ [Next]_vars => IndInv'
<1> SUFFICES ASSUME IndInv, [Next]_vars PROVE IndInv'
  OBVIOUS
<1>1. CASE \E s \in Senders : Sender(s)
  BY <1>1, ClaimKeeps, DropKeeps, LockKeeps, EncodeKeeps, UnlockKeeps, SignalKeeps
     DEF Sender, FinishSend
<1>2. CASE TakeReady
  BY <1>2, TakeReadyKeeps
<1>3. CASE FreeSlot
  BY <1>3, FreeSlotKeeps
<1>4. CASE TxCplt
  BY <1>4, TxCpltKeeps
<1>5. CASE DrainOne \/ Drained \/ StartDma \/ StartFails \/ DoneInTime \/ TimesOut
           \/ Abort
  <2>1. TypeOK'
    BY <1>5, TxAssumption DEF DrainOne, Drained, StartDma, StartFails, DoneInTime,
       TimesOut, Abort, threadVars, senderVars, wireVars, IndInv, TypeOK, Wire
  <2>2. Wire'
    BY <1>5, TxAssumption DEF DrainOne, Drained, StartDma, StartFails, DoneInTime,
       TimesOut, Abort, threadVars, senderVars, wireVars, IndInv, TypeOK, Wire
  <2>3. UNCHANGED <<free, ready, lens, txSlot, dequeue, senderVars>>
    BY <1>5 DEF DrainOne, Drained, StartDma, StartFails, DoneInTime, TimesOut, Abort,
       threadVars
  <2>4. txPC # "idle" <=> txPC' # "idle"
    BY <1>5 DEF DrainOne, Drained, StartDma, StartFails, DoneInTime, TimesOut, Abort,
       threadVars
  <2> QED
    BY <2>1, <2>2, <2>3, <2>4, TransferKeeps
<1>6. CASE UNCHANGED vars
  <2>1. TypeOK' /\ Wire' /\ txPC' = txPC
    BY <1>6 DEF vars, IndInv, TypeOK, Wire
  <2> QED
    BY <1>6, <2>1, TransferKeeps DEF vars, senderVars
<1> QED
  BY <1>1, <1>2, <1>3, <1>4, <1>5, <1>6 DEF Next, TxThread, Finished

LEMMA Inductive == Spec => []IndInv
<1> QED
  BY InitEstablishes, Invariance, PTL DEF Spec

-----------------------------------------------------------------------------
(* Theorems. *)

\* The counts of the three semaphores, the two indices and all else keep their
\* types: tx_done_sem, which is drained before each transfer, never exceeds 1.
THEOREM TypeCorrect == Spec => []TypeOK
<1>1. IndInv => TypeOK
  BY DEF IndInv
<1> QED
  BY <1>1, Inductive, PTL

\* No slot of the ring is ever lost or counted twice.
THEOREM NoSlotIsLost == Spec => []SlotsConserved
<1>1. IndInv => SlotsConserved
  BY DEF IndInv
<1> QED
  BY <1>1, Inductive, PTL

\* A sender that writes a slot has the one after those in use.
LEMMA IndInvApart == IndInv => EncodesApart
<1> SUFFICES ASSUME IndInv, NEW s \in Senders, sndPC[s] \in {"encode", "unlock"}
    PROVE  /\ mutex = s
           /\ sndSlot[s] # dma
           /\ txPC # "idle" => sndSlot[s] # txSlot
  BY DEF EncodesApart
<1> USE TxAssumption DEF IndInv
<1>1. mutex = s /\ sndSlot[s] = Ahead(dequeue, Filled)
  BY DEF Owners, Ring
<1>2. s \in Sending \ Signalling
  BY DEF Sending, Signalling
<1>3. Filled \in 0 .. Depth - 1 /\ dequeue \in Slots
  <2>1. Filled \in 0 .. Depth /\ Filled < Depth
    BY <1>2, Room
  <2> QED
    BY <2>1 DEF TypeOK
<1>4. ASSUME txPC # "idle" PROVE sndSlot[s] # txSlot
  <2>1. Filled > 0 /\ txSlot = dequeue
    BY <1>3, <1>4, Room DEF Busy, Ring
  <2> QED
    BY <1>1, <1>3, <2>1, AheadSteps
<1>5. sndSlot[s] \in Slots /\ NONE \notin Slots
  BY DEF TypeOK, Slots
<1> QED
  BY <1>1, <1>4, <1>5 DEF Wire

\* A sender never writes the slot that is being sent.
THEOREM SendersStayApart == Spec => []EncodesApart
<1> QED
  BY IndInvApart, Inductive, PTL

\* Only finished frames are sent, the one of the thread's slot at a time.
THEOREM OnlyFinishedFramesAreSent == Spec => []SendsFinishedFrames
<1>1. IndInv => SendsFinishedFrames
  <2> SUFFICES ASSUME IndInv PROVE SendsFinishedFrames
    OBVIOUS
  <2> USE TxAssumption DEF IndInv
  <2>1. ASSUME txPC # "idle" PROVE lens[txSlot] = 1 /\ bufs[txSlot] # NONE
    <3>1. Filled \in 1 .. Depth /\ txSlot = dequeue
      BY <2>1, Room DEF Busy, Ring
    <3>2. Ahead(dequeue, 0) = dequeue
      BY AheadSteps DEF TypeOK
    <3> QED
      BY <3>1, <3>2 DEF Ring
  <2> QED
    BY <2>1 DEF Wire, SendsFinishedFrames
<1> QED
  BY <1>1, Inductive, PTL

-----------------------------------------------------------------------------
(* The order of the frames. *)

\* The frame k places after the oldest one in use.
At(k) == bufs[Ahead(dequeue, k)]

\* Call n of sender s is over, or at least the slot it claimed is filled.
NotYet(s, n) ==
  /\ n <= calls[s]
  /\ sndPC[s] \in {"lock", "encode", "unlock"} => n < calls[s]

\* The oldest frame in use is not on the wire.
Unsent == txPC \in {"idle", "drain", "start"} \/ dma # NONE

\* The frames in use are younger than those on the wire, in the order of their
\* sender's calls, and the one being filled is the youngest.
Order ==
  /\ \A k \in 0 .. Filled - 1 :
       /\ NotYet(At(k)[1], At(k)[2])
       /\ k > 0 \/ Unsent => At(k)[2] > onWire[At(k)[1]]
  /\ \A k, l \in 0 .. Filled - 1 : k < l /\ At(k)[1] = At(l)[1] => At(k)[2] < At(l)[2]
  /\ \A s \in Senders : NotYet(s, onWire[s])
  /\ \A s \in Senders : sndPC[s] = "unlock" => bufs[sndSlot[s]] = <<s, calls[s]>>

\* The completion the thread is about to accept is that of its frame.
Accepted == txPC = "wait" /\ done > 0 => lastSent = bufs[txSlot]

\* The frames in use are frames, the oldest at tx_dequeue_idx.
LEMMA FramesInUse ==
  ASSUME IndInv
  PROVE  /\ Filled \in 0 .. Depth
         /\ \A k \in 0 .. Filled - 1 :
              /\ Ahead(dequeue, k) \in Slots
              /\ At(k) \in Frames /\ At(k)[1] \in Senders /\ At(k)[2] \in Nat
         /\ txPC # "idle" => Filled > 0
         /\ Ahead(dequeue, 0) = dequeue /\ At(0) = bufs[dequeue]
<1> USE TxAssumption DEF IndInv
<1>1. Filled \in 0 .. Depth /\ dequeue \in Slots /\ Depth \in Nat
  BY Room DEF TypeOK
<1>2. ASSUME NEW k \in 0 .. Filled - 1
      PROVE  /\ Ahead(dequeue, k) \in Slots
             /\ At(k) \in Frames /\ At(k)[1] \in Senders /\ At(k)[2] \in Nat
  <2>1. k \in 0 .. Depth - 1
    BY <1>1
  <2>2. Ahead(dequeue, k) \in Slots
    BY <1>1, <2>1, AheadSteps
  <2>3. At(k) \in Frames \cup {NONE} /\ At(k) # NONE
    BY <2>2 DEF At, TypeOK, Ring
  <2> QED
    BY <2>2, <2>3 DEF Frames
<1>3. txPC # "idle" => Filled > 0
  BY <1>1, Room DEF Busy
<1>4. Ahead(dequeue, 0) = dequeue
  <2>1. 0 \in 0 .. Depth - 1
    OBVIOUS
  <2> QED
    BY <1>1, <2>1, AheadSteps
<1> QED
  BY <1>1, <1>2, <1>3, <1>4 DEF At

\* A step that leaves the frames in use alone and ends no call.
LEMMA SameFramesKeepOrder ==
  ASSUME IndInv, Order, Filled' = Filled, UNCHANGED onWire,
         \A k \in 0 .. Filled - 1 : At(k)' = At(k),
         Filled > 0 /\ Unsent' => Unsent,
         \A s \in Senders : \A n \in Nat : NotYet(s, n) => NotYet(s, n)',
         \A s \in Senders : sndPC'[s] = "unlock" => bufs'[sndSlot'[s]] = <<s, calls'[s]>>
  PROVE  Order'
<1>1. \A k \in 0 .. Filled - 1 : At(k)[1] \in Senders /\ At(k)[2] \in Nat
  BY FramesInUse
<1>2. Filled \in Nat
  BY FramesInUse
<1>3. \A s \in Senders : onWire[s] \in Nat
  BY DEF IndInv, TypeOK
<1>4. ASSUME NEW k \in 0 .. Filled - 1
      PROVE  /\ NotYet(At(k)[1], At(k)[2])'
             /\ k > 0 \/ Unsent' => At(k)'[2] > onWire'[At(k)'[1]]
  <2>1. NotYet(At(k)[1], At(k)[2])
    BY DEF Order
  <2>2. NotYet(At(k)[1], At(k)[2])'
    BY <1>1, <2>1 DEF NotYet
  <2>3. k > 0 \/ Unsent' => k > 0 \/ Unsent
    BY <1>2
  <2> QED
    BY <2>2, <2>3 DEF Order
<1>5. \A k, l \in 0 .. Filled' - 1 :
        k < l /\ At(k)'[1] = At(l)'[1] => At(k)'[2] < At(l)'[2]
  BY DEF Order
<1>6. \A s \in Senders : NotYet(s, onWire[s])'
  <2> TAKE s \in Senders
  <2>1. NotYet(s, onWire[s])
    BY DEF Order
  <2> QED
    BY <1>3, <2>1 DEF NotYet
<1> QED
  BY <1>4, <1>5, <1>6 DEF Order

\* A step that leaves the ring and the senders alone.
LEMMA ThreadKeepsOrder ==
  ASSUME IndInv, Order,
         TakeReady \/ DrainOne \/ Drained \/ StartDma \/ StartFails \/ DoneInTime
         \/ TimesOut \/ Abort \/ UNCHANGED vars
  PROVE  Order'
<1>1. UNCHANGED <<dequeue, senderVars, onWire>>
  BY DEF TakeReady, DrainOne, Drained, StartDma, StartFails, DoneInTime, TimesOut,
     Abort, vars, threadVars, wireVars, senderVars
<1>2. Filled' = Filled
  <2>1. Signalling' = Signalling
    BY <1>1 DEF Signalling, senderVars
  <2>2. ready \in Nat /\ Cardinality(Signalling) \in Nat
    BY Groups DEF IndInv, TypeOK
  <2>3. CASE TakeReady
    BY <2>1, <2>2, <2>3 DEF TakeReady, Filled, Busy
  <2>4. CASE ~TakeReady
    <3>1. ready' = ready /\ Busy' = Busy
      BY <2>4 DEF DrainOne, Drained, StartDma, StartFails, DoneInTime, TimesOut, Abort,
         vars, threadVars, Busy
    <3> QED
      BY <2>1, <3>1 DEF Filled
  <2> QED
    BY <2>3, <2>4
<1>3. \A k \in 0 .. Filled - 1 : At(k)' = At(k)
  BY <1>1 DEF At, Ahead, senderVars
<1>4. Unsent' => Unsent
  BY DEF TakeReady, DrainOne, Drained, StartDma, StartFails, DoneInTime, TimesOut,
     Abort, vars, threadVars, Unsent
<1>5. \A s \in Senders : \A n \in Nat : NotYet(s, n) => NotYet(s, n)'
  BY <1>1 DEF NotYet, senderVars
<1>6. \A s \in Senders : sndPC'[s] = "unlock" => bufs'[sndSlot'[s]] = <<s, calls'[s]>>
  BY <1>1 DEF Order, senderVars
<1> QED
  BY <1>1, <1>2, <1>3, <1>4, <1>5, <1>6, SameFramesKeepOrder

\* A sender that claims, is refused, locks, encodes or signals: the frames in use
\* stay, since it writes the slot after them.
LEMMA SenderKeepsOrder ==
  ASSUME IndInv, Order, NEW s \in Senders,
         Claim(s) \/ Drop(s) \/ Lock(s) \/ Encode(s) \/ Signal(s)
  PROVE  Order'
<1> USE TxAssumption DEF IndInv
<1>1. UNCHANGED <<dequeue, onWire, txPC, dma>>
  BY DEF Claim, Drop, Lock, Encode, Signal, threadVars, wireVars
<1>2. /\ \A r \in Senders \ {s} : sndPC'[r] = sndPC[r] /\ calls'[r] = calls[r]
      /\ sndPC[s] \in {"idle", "lock", "encode", "unlock", "signal"}
      /\ calls[s] \in Nat
  BY DEF Claim, Drop, Lock, Encode, Signal, TypeOK
<1>3. Filled' = Filled
  <2>1. ready \in Nat /\ Cardinality(Signalling) \in Nat /\ Busy \in {0, 1}
        /\ Busy' = Busy
    BY <1>1, Groups, Room DEF TypeOK, Busy
  <2>2. CASE Signal(s)
    <3>1. Signalling' = Signalling \ {s} /\ s \in Signalling /\ ready' = ready + 1
      BY <1>2, <2>2 DEF Signal, Signalling, TypeOK
    <3>2. Cardinality(Signalling') = Cardinality(Signalling) - 1
      BY <3>1, Groups, FS_RemoveElement
    <3> QED
      BY <2>1, <3>1, <3>2 DEF Filled
  <2>3. CASE Claim(s) \/ Drop(s) \/ Lock(s) \/ Encode(s)
    <3>1. sndPC[s] # "signal" /\ sndPC'[s] # "signal" /\ ready' = ready
      BY <2>3 DEF Claim, Drop, Lock, Encode, TypeOK
    <3>2. Signalling' = Signalling
      BY <1>2, <3>1 DEF Signalling
    <3> QED
      BY <2>1, <3>1, <3>2 DEF Filled
  <2> QED
    BY <2>2, <2>3
<1>4. \A k \in 0 .. Filled - 1 : At(k)' = At(k)
  <2>1. CASE Encode(s)
    <3> TAKE k \in 0 .. Filled - 1
    <3>1. s \in Sending \ Signalling
      BY <2>1 DEF Encode, Sending, Signalling
    <3>2. Filled \in Nat /\ Filled < Depth /\ dequeue \in Slots /\ Depth \in Nat
      BY <3>1, Room DEF TypeOK
    <3>3. sndSlot[s] = Ahead(dequeue, Filled)
      BY <2>1 DEF Encode, Owners, Ring
    <3>4. Ahead(dequeue, k) # Ahead(dequeue, Filled)
      BY <3>2 DEF Ahead, Slots
    <3>5. Ahead(dequeue, k) \in Slots
      BY FramesInUse
    <3> QED
      BY <1>1, <2>1, <3>3, <3>4, <3>5 DEF Encode, At, Ahead, TypeOK
  <2>2. CASE Claim(s) \/ Drop(s) \/ Lock(s) \/ Signal(s)
    BY <2>2 DEF Claim, Drop, Lock, Signal, threadVars, At, Ahead
  <2> QED
    BY <2>1, <2>2
<1>5. Unsent' => Unsent
  BY <1>1 DEF Unsent
<1>6. \A r \in Senders : \A n \in Nat : NotYet(r, n) => NotYet(r, n)'
  <2> TAKE r \in Senders
  <2> TAKE n \in Nat
  <2> HAVE NotYet(r, n)
  <2>1. CASE r # s
    BY <1>2, <2>1 DEF NotYet
  <2>2. CASE r = s /\ Claim(s)
    <3>1. calls'[s] = calls[s] + 1
      BY <2>2 DEF Claim, TypeOK
    <3> QED
      BY <1>2, <2>2, <3>1 DEF NotYet
  <2>3. CASE r = s /\ Drop(s)
    <3>1. calls'[s] = calls[s] + 1 /\ sndPC' = sndPC /\ sndPC[s] = "idle"
      BY <2>3 DEF Drop, TypeOK
    <3> QED
      BY <1>2, <2>3, <3>1 DEF NotYet
  <2>4. CASE r = s /\ (Lock(s) \/ Encode(s))
    <3>1. calls' = calls /\ sndPC[s] \in {"lock", "encode"}
      BY <2>4 DEF Lock, Encode
    <3> QED
      BY <2>4, <3>1 DEF NotYet
  <2>5. CASE r = s /\ Signal(s)
    <3>1. calls' = calls /\ sndPC'[s] = "idle"
      BY <2>5 DEF Signal, TypeOK
    <3> QED
      BY <2>5, <3>1 DEF NotYet
  <2> QED
    BY <2>1, <2>2, <2>3, <2>4, <2>5
<1>7. ASSUME NEW r \in Senders, sndPC'[r] = "unlock"
      PROVE  bufs'[sndSlot'[r]] = <<r, calls'[r]>>
  <2>1. CASE Encode(s)
    <3>1. \A q \in Senders \ {s} : sndPC[q] # "unlock"
      BY <2>1 DEF Encode, Owners
    <3>2. r = s
      BY <1>2, <1>7, <3>1
    <3> QED
      BY <2>1, <3>2 DEF Encode, TypeOK
  <2>2. CASE Claim(s) \/ Drop(s) \/ Lock(s) \/ Signal(s)
    <3>1. sndPC'[s] # "unlock" /\ UNCHANGED bufs
      BY <2>2 DEF Claim, Drop, Lock, Signal, TypeOK
    <3>2. sndSlot'[r] = sndSlot[r] /\ r # s
      BY <1>7, <2>2, <3>1 DEF Claim, Drop, Lock, Signal, TypeOK
    <3> QED
      BY <1>2, <1>7, <3>1, <3>2 DEF Order
  <2> QED
    BY <2>1, <2>2
<1> HIDE DEF IndInv
<1> QED
  BY <1>1, <1>3, <1>4, <1>5, <1>6, <1>7, SameFramesKeepOrder

\* A filled slot joins the frames in use, as the youngest.
LEMMA UnlockKeepsOrder ==
  ASSUME IndInv, Order, NEW s \in Senders, Unlock(s)
  PROVE  Order'
<1> USE TxAssumption
<1>1. /\ sndPC[s] = "unlock" /\ sndPC'[s] = "signal"
      /\ \A r \in Senders \ {s} : sndPC'[r] = sndPC[r]
      /\ UNCHANGED <<bufs, sndSlot, calls, dequeue, onWire, txPC, dma, ready>>
  BY DEF Unlock, threadVars, wireVars, IndInv, TypeOK
<1>2. Filled \in Nat /\ Filled' = Filled + 1
  <2>1. s \in Sending \ Signalling
    BY <1>1 DEF Sending, Signalling
  <2>2. Signalling' = Signalling \cup {s}
    BY <1>1 DEF Signalling
  <2>3. Cardinality(Signalling') = Cardinality(Signalling) + 1
    BY <2>1, <2>2, Groups, FS_AddElement DEF IndInv
  <2>4. ready \in Nat /\ Cardinality(Signalling) \in Nat /\ Busy \in {0, 1}
        /\ Busy' = Busy
    BY <1>1, Groups, Room DEF IndInv, TypeOK, Busy
  <2> QED
    BY <1>1, <2>3, <2>4 DEF Filled
<1>3. At(Filled) = <<s, calls[s]>>
  BY <1>1 DEF At, IndInv, Owners, Ring, Order
<1>4. \A k \in 0 .. Filled : At(k)' = At(k)
  BY <1>1 DEF At, Ahead
<1>5. /\ \A k \in 0 .. Filled - 1 : At(k)[1] \in Senders /\ At(k)[2] \in Nat
      /\ \A r \in Senders : onWire[r] \in Nat /\ calls[r] \in Nat
  BY FramesInUse DEF IndInv, TypeOK
<1>6. \A r \in Senders : \A n \in Nat : NotYet(r, n) => NotYet(r, n)'
  BY <1>1 DEF NotYet
<1>7. ASSUME NEW k \in 0 .. Filled' - 1
      PROVE  /\ NotYet(At(k)[1], At(k)[2])'
             /\ k > 0 \/ Unsent' => At(k)'[2] > onWire'[At(k)'[1]]
  <2>1. CASE k = Filled
    <3>1. onWire[s] < calls[s]
      BY <1>1, <1>5 DEF Order, NotYet
    <3>2. At(k)' = <<s, calls[s]>>
      BY <1>2, <1>3, <1>4, <2>1
    <3> QED
      BY <1>1, <1>5, <3>1, <3>2 DEF NotYet
  <2>2. CASE k \in 0 .. Filled - 1
    <3>1. At(k)' = At(k)
      BY <1>2, <1>4, <2>2
    <3>2. Unsent' <=> Unsent
      BY <1>1 DEF Unsent
    <3>3. NotYet(At(k)[1], At(k)[2])
      BY <2>2 DEF Order
    <3>4. NotYet(At(k)[1], At(k)[2])'
      BY <1>5, <1>6, <2>2, <3>1, <3>3 DEF NotYet
    <3> QED
      BY <1>1, <2>2, <3>1, <3>2, <3>4 DEF Order
  <2> QED
    BY <1>2, <2>1, <2>2
<1>8. ASSUME NEW k \in 0 .. Filled' - 1, NEW l \in 0 .. Filled' - 1, k < l,
             At(k)'[1] = At(l)'[1]
      PROVE  At(k)'[2] < At(l)'[2]
  <2>1. k \in 0 .. Filled - 1 /\ At(k)' = At(k)
    BY <1>2, <1>4, <1>8
  <2>2. CASE l = Filled
    <3>1. At(l)' = <<s, calls[s]>>
      BY <1>2, <1>3, <1>4, <2>2
    <3>2. At(k)[1] = s
      BY <1>8, <2>1, <3>1
    <3>3. At(k)[2] < calls[s]
      BY <1>1, <2>1, <3>2 DEF Order, NotYet
    <3> QED
      BY <2>1, <3>1, <3>3
  <2>3. CASE l \in 0 .. Filled - 1
    <3>1. At(l)' = At(l)
      BY <1>2, <1>4, <2>3
    <3>2. At(k)[1] = At(l)[1]
      BY <1>8, <2>1, <3>1
    <3>3. At(k)[2] < At(l)[2]
      BY <1>8, <2>1, <2>3, <3>2 DEF Order
    <3> QED
      BY <2>1, <3>1, <3>3
  <2> QED
    BY <1>2, <2>2, <2>3
<1>9. \A r \in Senders : NotYet(r, onWire[r])'
  <2> TAKE r \in Senders
  <2>1. NotYet(r, onWire[r])
    BY DEF Order
  <2> QED
    BY <1>1, <1>5, <1>6, <2>1 DEF NotYet
<1>10. \A r \in Senders : sndPC'[r] = "unlock" => bufs'[sndSlot'[r]] = <<r, calls'[r]>>
  BY <1>1 DEF Order
<1> QED
  BY <1>7, <1>8, <1>9, <1>10 DEF Order

\* The oldest frame leaves, and the next one is the oldest.
LEMMA FreeSlotKeepsOrder ==
  ASSUME IndInv, Order, FreeSlot
  PROVE  Order'
<1> USE TxAssumption
<1>1. /\ UNCHANGED <<senderVars, ready, onWire>>
      /\ txPC = "free" /\ txPC' = "idle" /\ dequeue' = Following(dequeue)
  BY DEF FreeSlot, wireVars
<1>2. Filled \in 1 .. Depth /\ Filled' = Filled - 1 /\ Depth \in Nat /\ dequeue \in Slots
  <2>1. Signalling' = Signalling
    BY <1>1 DEF Signalling, senderVars
  <2>2. ready \in Nat /\ Cardinality(Signalling) \in Nat /\ Busy = 1 /\ Busy' = 0
    BY <1>1, Groups DEF IndInv, TypeOK, Busy
  <2>3. Filled \in 0 .. Depth /\ Filled >= Busy
    BY Room DEF IndInv
  <2> QED
    BY <1>1, <2>1, <2>2, <2>3 DEF Filled, IndInv, TypeOK
<1>3. \A k \in 0 .. Filled' - 1 : k + 1 \in 0 .. Filled - 1 /\ At(k)' = At(k + 1)
  <2> TAKE k \in 0 .. Filled' - 1
  <2>1. k + 1 \in 0 .. Filled - 1 /\ k \in 0 .. Depth - 1
    BY <1>2
  <2>2. Ahead(dequeue', k) = Ahead(dequeue, k + 1)
    BY <1>1, <1>2, <2>1, AheadSteps
  <2> QED
    BY <1>1, <2>1, <2>2 DEF At, senderVars, Ahead
<1>4. \A k \in 0 .. Filled' - 1 :
        /\ NotYet(At(k)[1], At(k)[2])'
        /\ At(k)'[2] > onWire'[At(k)'[1]]
  <2> TAKE k \in 0 .. Filled' - 1
  <2>1. NotYet(At(k + 1)[1], At(k + 1)[2]) /\ At(k + 1)[2] > onWire[At(k + 1)[1]]
    BY <1>2, <1>3 DEF Order
  <2>2. At(k)' = At(k + 1)
    BY <1>3
  <2> QED
    BY <1>1, <2>1, <2>2 DEF NotYet, senderVars
<1>5. \A k, l \in 0 .. Filled' - 1 :
        k < l /\ At(k)'[1] = At(l)'[1] => At(k)'[2] < At(l)'[2]
  <2> TAKE k, l \in 0 .. Filled' - 1
  <2>1. k < l => k + 1 < l + 1
    BY <1>2
  <2>2. /\ k + 1 \in 0 .. Filled - 1 /\ At(k)' = At(k + 1)
        /\ l + 1 \in 0 .. Filled - 1 /\ At(l)' = At(l + 1)
    BY <1>3
  <2> QED
    BY <2>1, <2>2 DEF Order
<1>6. \A r \in Senders :
        /\ NotYet(r, onWire[r])'
        /\ sndPC'[r] = "unlock" => bufs'[sndSlot'[r]] = <<r, calls'[r]>>
  BY <1>1 DEF Order, NotYet, senderVars
<1> QED
  BY <1>4, <1>5, <1>6 DEF Order

\* What the UART completes is younger than what its sender has on the wire.
LEMMA CompletesInOrder ==
  ASSUME IndInv, Order, TxCplt
  PROVE  /\ Filled > 0 /\ bufs[dma] = At(0) /\ dma = txSlot /\ txPC \in {"wait", "abort"}
         /\ At(0)[2] > onWire[At(0)[1]]
<1>1. dma # NONE /\ dma = dequeue /\ txPC \in {"wait", "abort"} /\ dma = txSlot
  BY DEF TxCplt, IndInv, Wire, Ring
<1>2. Filled > 0 /\ Filled \in Nat /\ At(0) = bufs[dequeue]
  BY <1>1, FramesInUse
<1>3. 0 \in 0 .. Filled - 1 /\ Unsent
  BY <1>1, <1>2 DEF Unsent
<1> QED
  BY <1>1, <1>2, <1>3 DEF Order

\* The frame the UART completes is the last of its sender on the wire.
LEMMA TxCpltKeepsOrder ==
  ASSUME IndInv, Order, TxCplt
  PROVE  Order'
<1> DEFINE f == At(0)
<1>1. Filled > 0 /\ bufs[dma] = f /\ txPC \in {"wait", "abort"}
  BY CompletesInOrder
<1>2. /\ UNCHANGED <<senderVars, ready, dequeue, txPC>>
      /\ dma' = NONE /\ onWire' = [onWire EXCEPT ![f[1]] = f[2]]
  BY <1>1 DEF TxCplt, threadVars
<1>3. /\ Filled \in Nat /\ 0 \in 0 .. Filled - 1
      /\ \A k \in 0 .. Filled - 1 : At(k)[1] \in Senders /\ At(k)[2] \in Nat
  BY <1>1, FramesInUse
<1>4. Filled' = Filled /\ ~Unsent' /\ \A k \in 0 .. Filled - 1 : At(k)' = At(k)
  BY <1>1, <1>2 DEF Filled, Signalling, Busy, Unsent, At, Ahead, senderVars
<1>5. /\ onWire'[f[1]] = f[2]
      /\ \A r \in Senders \ {f[1]} : onWire'[r] = onWire[r]
  BY <1>2, <1>3 DEF IndInv, TypeOK
<1> HIDE DEF f
<1>6. ASSUME NEW k \in 0 .. Filled - 1
      PROVE  /\ NotYet(At(k)[1], At(k)[2])'
             /\ k > 0 => At(k)[2] > onWire'[At(k)[1]]
  <2>1. NotYet(At(k)[1], At(k)[2])
    BY DEF Order
  <2>2. NotYet(At(k)[1], At(k)[2])'
    BY <1>2, <1>4, <2>1 DEF NotYet, senderVars
  <2>3. ASSUME k > 0, At(k)[1] = f[1] PROVE At(k)[2] > f[2]
    BY <1>3, <2>3 DEF Order, f
  <2>4. ASSUME k > 0, At(k)[1] # f[1] PROVE At(k)[2] > onWire[At(k)[1]]
    BY <2>4 DEF Order
  <2> QED
    BY <1>3, <1>5, <2>2, <2>3, <2>4
<1>7. \A k, l \in 0 .. Filled' - 1 :
        k < l /\ At(k)'[1] = At(l)'[1] => At(k)'[2] < At(l)'[2]
  BY <1>4 DEF Order
<1>8. ASSUME NEW r \in Senders PROVE NotYet(r, onWire[r])'
  <2>1. CASE r = f[1]
    <3>1. NotYet(f[1], f[2])
      BY <1>3 DEF Order, f
    <3> QED
      BY <1>2, <1>5, <2>1, <3>1 DEF NotYet, senderVars
  <2>2. CASE r # f[1]
    <3>1. NotYet(r, onWire[r])
      BY DEF Order
    <3> QED
      BY <1>2, <1>5, <2>2, <3>1 DEF NotYet, senderVars
  <2> QED
    BY <2>1, <2>2
<1>9. \A r \in Senders : sndPC'[r] = "unlock" => bufs'[sndSlot'[r]] = <<r, calls'[r]>>
  BY <1>2 DEF Order, senderVars
<1> QED
  BY <1>4, <1>6, <1>7, <1>8, <1>9 DEF Order

\* The last completion is that of the thread's frame from the moment the UART
\* signals it until the thread takes the signal or gives up.
LEMMA AcceptedKeeps ==
  ASSUME IndInv, Order, Accepted, [Next]_vars
  PROVE  Accepted'
<1> SUFFICES ASSUME txPC' = "wait", done' > 0 PROVE lastSent' = bufs'[txSlot']
  BY DEF Accepted
<1> USE TxAssumption
<1>1. CASE TxCplt
  BY <1>1, CompletesInOrder DEF TxCplt, threadVars, senderVars
<1>2. CASE TxThread
  <2>1. ~StartDma
    <3>1. StartDma => done = 0 /\ done' = done
      BY DEF StartDma, IndInv, Wire
    <3> QED
      BY <3>1
  <2>2. UNCHANGED <<txPC, done, txSlot, bufs, lastSent>>
    BY <1>2, <2>1 DEF TxThread, TakeReady, DrainOne, Drained, StartFails, DoneInTime,
       TimesOut, Abort, FreeSlot, threadVars, senderVars, wireVars
  <2> QED
    BY <2>2 DEF Accepted
<1>3. ASSUME NEW s \in Senders, Sender(s) PROVE lastSent' = bufs'[txSlot']
  <2>1. /\ UNCHANGED <<txPC, done, txSlot, lastSent>>
        /\ Encode(s) \/ UNCHANGED bufs
    BY <1>3 DEF Sender, FinishSend, Claim, Drop, Lock, Encode, Unlock, Signal,
       threadVars, wireVars
  <2>2. txSlot \in Slots /\ (Encode(s) => sndSlot[s] # txSlot)
    <3>1. IndInv => EncodesApart
      BY IndInvApart
    <3> QED
      BY <2>1, <3>1 DEF Encode, EncodesApart, IndInv, TypeOK
  <2>3. bufs'[txSlot] = bufs[txSlot]
    BY <2>1, <2>2 DEF Encode, IndInv, TypeOK
  <2> QED
    BY <2>1, <2>3 DEF Accepted
<1>4. CASE UNCHANGED vars
  BY <1>4 DEF vars, Accepted
<1> QED
  BY <1>1, <1>2, <1>3, <1>4 DEF Next, Finished

\* Every reachable state satisfies them.
LEMMA OrderHolds == Spec => [](Order /\ Accepted)
<1>1. Init => Order /\ Accepted
  <2> SUFFICES ASSUME Init PROVE Order /\ Accepted
    OBVIOUS
  <2>1. Signalling = {} /\ Cardinality({}) = 0
    BY FS_EmptySet DEF Init, Signalling
  <2>2. Filled = 0
    BY <2>1 DEF Init, Filled, Busy
  <2> QED
    BY <2>2 DEF Init, Order, NotYet, Accepted
<1>2. IndInv /\ Order /\ Accepted /\ [Next]_vars => (Order /\ Accepted)'
  <2> SUFFICES ASSUME IndInv, Order, Accepted, [Next]_vars PROVE Order'
    BY AcceptedKeeps
  <2> QED
    BY ThreadKeepsOrder, SenderKeepsOrder, UnlockKeepsOrder, FreeSlotKeepsOrder,
       TxCpltKeepsOrder
    DEF Next, Sender, FinishSend, TxThread, Finished
<1> QED
  BY <1>1, <1>2, Inductive, PTL DEF Spec

\* The frames of a sender go out in the order of its calls and at most once,
\* whatever is dropped, retried, timed out or aborted (comm_tx.c).
THEOREM FramesGoOutInOrder == Spec => InOrderOnce
<1>1. IndInv /\ Order /\ [Next]_vars
        => [TxCplt => bufs[dma][2] > onWire[bufs[dma][1]]]_vars
  BY CompletesInOrder
<1> QED
  BY <1>1, Inductive, OrderHolds, PTL DEF Spec, InOrderOnce

\* A completion the thread accepts is that of its own frame: the signals of
\* transfers it gave up are drained before the next one starts (comm_tx.c:379).
THEOREM CompletionsAreOwn == Spec => OwnCompletion
<1>1. IndInv /\ Accepted /\ [Next]_vars
        => [DoneInTime => lastSent = bufs[txSlot] /\ dma = NONE]_vars
  <2> SUFFICES ASSUME IndInv, Accepted, DoneInTime
               PROVE  lastSent = bufs[txSlot] /\ dma = NONE
    OBVIOUS
  <2>1. txPC = "wait" /\ done > 0
    BY DEF DoneInTime
  <2>2. dma = NONE
    BY <2>1 DEF IndInv, Wire
  <2> QED
    BY <2>1, <2>2 DEF Accepted
<1> QED
  BY <1>1, Inductive, OrderHolds, PTL DEF Spec, OwnCompletion

-----------------------------------------------------------------------------
(* The receive half: the inductive invariant. *)

\* The bytes of the stream.
Total == MaxFrames * FrameLen

\* The bytes in the ring, and the ring's k-th slot from the tail.
Held == IF tail <= head THEN head - tail ELSE head - tail + RingSize
Spot(k) == IF tail + k < RingSize THEN tail + k ELSE tail + k - RingSize
Cell(k) == ring[Spot(k)]

\* The bytes that came and were not lost, but that the thread has not taken.
Waiting == (taken + 1 .. next - 1) \ lost

\* BytesInOrder, by the slots.
InRing ==
  /\ \A i, j \in 0 .. Held - 1 : i < j => Cell(i) < Cell(j)
  /\ \A i \in 0 .. Held - 1 : Cell(i) \in Waiting
  /\ \A b \in Waiting : \E i \in 0 .. Held - 1 : Cell(i) = b

Inner == {"more", "loadMore", "waitMore", "advanceMore"}

\* What the thread knows where it is.
Reading ==
  /\ overflowed => lost # {}
  /\ pc \in {"advance", "advanceMore"} => Held > 0 /\ out = ring[tail]
  /\ pc \in {"load", "wait", "advance"} => Len(frame) < BufSize
  /\ pc \in Inner => need > 0
  /\ pc \in Inner \ {"more"} => Len(frame) < need

\* The stream bounds what is lost, signalled, taken and dispatched.
Counted ==
  /\ sem < next
  /\ taken < next
  /\ \A b \in lost : b < next
  /\ dispatched + Len(frame) <= taken

\* While nothing is lost, the buffer ends with the byte last taken, and the
\* length that was read is the length of the host's frames.
Aligned ==
  lost = {} =>
    /\ taken = dispatched * FrameLen + Len(frame)
    /\ pc \in Inner => need = FrameLen

RxInd == RxTypeOK /\ InRing /\ Reading /\ Counted /\ InStep /\ Aligned

-----------------------------------------------------------------------------
(* Arithmetic. *)

\* What \div and % are.
LEMMA Division ==
  ASSUME NEW x \in Int, NEW n \in Nat \ {0}
  PROVE  /\ x \div n \in Int /\ x % n \in 0 .. n - 1
         /\ x = n * (x \div n) + (x % n)
  BY SMT

\* A number has one remainder.
LEMMA Remainder ==
  ASSUME NEW n \in Nat \ {0}, NEW q \in Int, NEW r \in 0 .. n - 1
  PROVE  (q * n + r) % n = r
<1> DEFINE x == q * n + r
           p == x \div n
<1>1. x \in Int
  BY SMT
<1>2. p \in Int /\ x % n \in 0 .. n - 1 /\ x = n * p + (x % n)
  BY <1>1, Division
<1>3. CASE p = q
  BY <1>2, <1>3, SMT
<1>4. CASE p >= q + 1
  <2>1. p * n >= (q + 1) * n
    BY <1>2, <1>4, SMT
  <2> QED
    BY <1>2, <2>1, SMT
<1>5. CASE p + 1 <= q
  <2>1. q * n >= (p + 1) * n
    BY <1>2, <1>5, SMT
  <2> QED
    BY <1>2, <2>1, SMT
<1> QED
  BY <1>2, <1>3, <1>4, <1>5

LEMMA Sizes ==
  /\ RingSize \in Nat /\ RingSize > 1
  /\ PrefixLen \in Nat \ {0} /\ MaxLen \in Nat /\ MsgLen \in Nat \ {0}
  /\ MsgLen <= MaxLen
  /\ FrameLen \in Nat \ {0} /\ FrameLen = PrefixLen + MsgLen
  /\ BufSize \in Nat /\ BufSize = PrefixLen + MaxLen
  /\ Total \in Nat /\ Stream = 1 .. Total /\ Cardinality(Stream) = Total
<1>1. /\ RingSize \in Nat /\ RingSize > 1
      /\ PrefixLen \in Nat \ {0} /\ MaxLen \in Nat /\ MsgLen \in Nat \ {0}
      /\ MsgLen <= MaxLen /\ MaxFrames \in Nat
  BY RxAssumption
<1>2. FrameLen \in Nat \ {0} /\ FrameLen = PrefixLen + MsgLen
  BY <1>1 DEF FrameLen
<1>3. BufSize \in Nat /\ BufSize = PrefixLen + MaxLen
  BY <1>1 DEF BufSize
<1>4. Total \in Nat
  BY <1>1, <1>2, SMT DEF Total
<1>5. Stream = 1 .. Total
  BY DEF Stream, Total
<1>6. Cardinality(1 .. Total) = Total
  BY <1>4, FS_Interval
<1> QED
  BY <1>1, <1>2, <1>3, <1>4, <1>5, <1>6

\* Indices that wrap.
LEMMA Wrapped ==
  ASSUME NEW i \in Int, 0 - RingSize < i, i < 2 * RingSize
  PROVE  i % RingSize = IF i < 0 THEN i + RingSize
                        ELSE IF i < RingSize THEN i ELSE i - RingSize
<1>1. RingSize \in Nat \ {0}
  BY Sizes
<1>2. CASE i < 0
  <2>1. ((0 - 1) * RingSize + (i + RingSize)) % RingSize = i + RingSize
    BY <1>1, <1>2, Remainder
  <2> QED
    BY <1>1, <1>2, <2>1
<1>3. CASE 0 <= i /\ i < RingSize
  <2>1. (0 * RingSize + i) % RingSize = i
    BY <1>1, <1>3, Remainder
  <2> QED
    BY <1>1, <1>3, <2>1
<1>4. CASE RingSize <= i
  <2>1. (1 * RingSize + (i - RingSize)) % RingSize = i - RingSize
    BY <1>1, <1>4, Remainder
  <2> QED
    BY <1>1, <1>4, <2>1
<1> QED
  BY <1>1, <1>2, <1>3, <1>4

\* The ring, without remainders.
LEMMA RingMoves ==
  ASSUME head \in 0 .. RingSize - 1, tail \in 0 .. RingSize - 1
  PROVE  /\ Available = Held /\ Held \in 0 .. RingSize - 1
         /\ \A k \in 0 .. RingSize - 1 :
              Spot(k) = (tail + k) % RingSize /\ Spot(k) \in 0 .. RingSize - 1
         /\ \A k, l \in 0 .. RingSize - 1 : Spot(k) = Spot(l) => k = l
         /\ Spot(0) = tail /\ Spot(Held) = head
         /\ After(tail) = Spot(1)
         /\ After(head) = IF head + 1 < RingSize THEN head + 1 ELSE 0
<1>1. RingSize \in Nat /\ RingSize > 1
  BY Sizes
<1>2. (head - tail) % RingSize = Held
  BY <1>1, Wrapped DEF Held
<1>3. \A k \in 0 .. RingSize - 1 : (tail + k) % RingSize = Spot(k)
  BY <1>1, Wrapped DEF Spot
<1>4. (head + 1) % RingSize = IF head + 1 < RingSize THEN head + 1 ELSE 0
  BY <1>1, Wrapped
<1>5. /\ Held \in 0 .. RingSize - 1
      /\ \A k \in 0 .. RingSize - 1 : Spot(k) \in 0 .. RingSize - 1
      /\ \A k, l \in 0 .. RingSize - 1 : Spot(k) = Spot(l) => k = l
      /\ Spot(0) = tail /\ Spot(Held) = head
  BY <1>1 DEF Held, Spot
<1> QED
  BY <1>1, <1>2, <1>3, <1>4, <1>5 DEF Available, After

LEMMA RingOrder == RxTypeOK /\ InRing => BytesInOrder
<1> SUFFICES ASSUME RxTypeOK, InRing
             PROVE  BytesInOrder
  OBVIOUS
<1>1. head \in 0 .. RingSize - 1 /\ tail \in 0 .. RingSize - 1
  BY DEF RxTypeOK
<1>2. /\ Available = Held /\ Held \in 0 .. RingSize - 1 /\ RingSize \in Nat
      /\ \A k \in 0 .. RingSize - 1 : Spot(k) = (tail + k) % RingSize
  BY <1>1, RingMoves, Sizes
<1>3. \A i \in 1 .. Available : Stored[i] = Cell(i - 1)
  <2> TAKE i \in 1 .. Available
  <2>1. i - 1 \in 0 .. RingSize - 1 /\ tail + (i - 1) = tail + i - 1
    BY <1>1, <1>2
  <2>2. Spot(i - 1) = (tail + i - 1) % RingSize
    BY <1>2, <2>1
  <2> QED
    BY <2>2 DEF Stored, Cell
<1>4. \A i, j \in 1 .. Available : i < j => Stored[i] < Stored[j]
  BY <1>2, <1>3 DEF InRing
<1>5. \A i \in 1 .. Available : Stored[i] \in Waiting
  BY <1>2, <1>3 DEF InRing
<1>6. \A b \in Waiting : \E i \in 1 .. Available : Stored[i] = b
  <2> TAKE b \in Waiting
  <2>1. PICK k \in 0 .. Held - 1 : Cell(k) = b
    BY DEF InRing
  <2>2. k + 1 \in 1 .. Available /\ (k + 1) - 1 = k
    BY <1>2
  <2>3. Stored[k + 1] = b
    BY <1>3, <2>1, <2>2
  <2> QED
    BY <2>2, <2>3
<1>7. {Stored[i] : i \in 1 .. Available} = Waiting
  BY <1>5, <1>6
<1> QED
  BY <1>4, <1>7 DEF BytesInOrder, Waiting

-----------------------------------------------------------------------------
(* The steps of the interrupt and of the comm_rx thread. *)

LEMMA RxStarts == RxInit => RxInd
<1> SUFFICES ASSUME RxInit
             PROVE  RxInd
  OBVIOUS
<1>1. /\ RingSize \in Nat /\ RingSize > 1 /\ BufSize \in Nat \ {0}
      /\ Total \in Nat /\ Stream = 1 .. Total /\ Cardinality(Stream) = Total
  BY Sizes
<1>2. Held = 0 /\ Waiting = {} /\ Len(frame) = 0
  BY DEF RxInit, Held, Waiting
<1>3. RxTypeOK
  <2>1. <<>> \in Seq(Stream) /\ Len(<<>>) = 0
    OBVIOUS
  <2>2. ring \in [0 .. RingSize - 1 -> Stream \cup {0}] /\ lost \subseteq Stream
    BY DEF RxInit
  <2>3. BufSize >= 0 /\ MaxLen >= 0 /\ 0 \in 0 .. RingSize - 1 /\ 0 \in 0 .. Total
        /\ 1 \in 1 .. Total + 1
    BY <1>1, Sizes
  <2> QED
    BY <1>1, <2>1, <2>2, <2>3 DEF RxInit, RxTypeOK
<1>4. InRing
  BY <1>2 DEF InRing
<1>5. Reading /\ Counted
  BY <1>1, <1>2 DEF RxInit, Reading, Counted, Inner
<1>6. InStep /\ Aligned
  BY <1>2, Sizes DEF RxInit, InStep, Aligned, Inner
<1> QED
  BY <1>3, <1>4, <1>5, <1>6 DEF RxInd

\* A byte that is lost leaves the ring alone.
LEMMA LossKeepsRing ==
  ASSUME RxTypeOK, InRing, Counted, next' = next + 1,
         lost' = lost \cup {next}, UNCHANGED <<ring, head, tail, taken>>
  PROVE  InRing' /\ \A b \in lost' : b < next'
<1>1. taken \in Nat /\ next \in Nat /\ lost \subseteq Nat
  BY Sizes DEF RxTypeOK
<1>2. Waiting' = Waiting
  BY <1>1 DEF Waiting, Counted
<1>3. Held' = Held /\ \A k : Cell(k)' = Cell(k)
  BY DEF Held, Cell, Spot
<1>4. InRing'
  BY <1>2, <1>3 DEF InRing
<1> QED
  BY <1>1, <1>4 DEF Counted

\* A byte that is stored is the youngest in the ring.
LEMMA StoreKeepsRing ==
  ASSUME RxTypeOK, InRing, Counted, After(head) # tail, next' = next + 1,
         ring' = [ring EXCEPT ![head] = next], head' = After(head),
         UNCHANGED <<tail, lost, taken>>
  PROVE  InRing' /\ (Held > 0 => ring'[tail] = ring[tail]) /\ Held' > 0
<1>1. /\ head \in 0 .. RingSize - 1 /\ tail \in 0 .. RingSize - 1
      /\ taken \in Nat /\ next \in Nat /\ RingSize \in Nat
      /\ ring \in [0 .. RingSize - 1 -> Stream \cup {0}]
  BY Sizes DEF RxTypeOK
<1>2. /\ Held \in 0 .. RingSize - 1 /\ Spot(0) = tail /\ Spot(Held) = head
      /\ After(head) = IF head + 1 < RingSize THEN head + 1 ELSE 0
      /\ \A k \in 0 .. RingSize - 1 : Spot(k) \in 0 .. RingSize - 1
      /\ \A k, l \in 0 .. RingSize - 1 : Spot(k) = Spot(l) => k = l
  BY <1>1, RingMoves
<1>3. Held' = Held + 1
  <2>1. /\ head' = IF head + 1 < RingSize THEN head + 1 ELSE 0
        /\ head' # tail /\ tail' = tail
    BY <1>2
  <2>2. CASE head + 1 < RingSize
    BY <1>1, <2>1, <2>2 DEF Held
  <2>3. CASE ~(head + 1 < RingSize)
    BY <1>1, <2>1, <2>3 DEF Held
  <2> QED
    BY <2>2, <2>3
<1>4. \A k \in 0 .. Held - 1 : Cell(k)' = Cell(k)
  <2> TAKE k \in 0 .. Held - 1
  <2>1. Spot(k)' = Spot(k)
    BY DEF Spot
  <2>2. Spot(k) \in 0 .. RingSize - 1 /\ Spot(k) # head
    BY <1>1, <1>2
  <2> QED
    BY <1>1, <2>1, <2>2 DEF Cell
<1>5. \A k \in 0 .. RingSize - 1 : k = Held => Cell(k)' = next
  <2> TAKE k \in 0 .. RingSize - 1
  <2> HAVE k = Held
  <2>1. Spot(k)' = Spot(k)
    BY DEF Spot
  <2>2. Spot(k) = head
    BY <1>2
  <2> QED
    BY <1>1, <2>1, <2>2 DEF Cell
<1>6. /\ \A k \in 0 .. Held - 1 : Cell(k) \in Waiting
      /\ next \notin lost
      /\ Waiting' = Waiting \cup {next}
      /\ \A b \in Waiting : b \in Nat /\ b < next
  <2>1. \A b \in lost : b < next
    BY DEF Counted
  <2>2. next \notin lost /\ taken < next
    BY <1>1, <2>1 DEF Counted
  <2>3. Waiting' = Waiting \cup {next}
    BY <1>1, <2>2 DEF Waiting
  <2>4. \A b \in Waiting : b \in Nat /\ b < next
    BY <1>1 DEF Waiting
  <2> QED
    BY <2>2, <2>3, <2>4 DEF InRing
<1>7. ASSUME NEW i \in 0 .. Held' - 1, NEW j \in 0 .. Held' - 1, i < j
      PROVE  Cell(i)' < Cell(j)'
  <2>1. i \in 0 .. Held - 1 /\ Cell(i)' = Cell(i)
    BY <1>2, <1>3, <1>4, <1>7
  <2>2. CASE j = Held
    BY <1>2, <1>5, <1>6, <2>1, <2>2
  <2>3. CASE j \in 0 .. Held - 1
    <3>1. Cell(j)' = Cell(j)
      BY <1>4, <2>3
    <3>2. Cell(i) < Cell(j)
      BY <1>7, <2>1, <2>3 DEF InRing
    <3> QED
      BY <2>1, <3>1, <3>2
  <2> QED
    BY <1>2, <1>3, <2>2, <2>3
<1>8. ASSUME NEW i \in 0 .. Held' - 1
      PROVE  Cell(i)' \in Waiting'
  <2>1. CASE i = Held
    BY <1>2, <1>5, <1>6, <2>1
  <2>2. CASE i \in 0 .. Held - 1
    BY <1>4, <1>6, <2>2
  <2> QED
    BY <1>2, <1>3, <2>1, <2>2
<1>9. ASSUME NEW b \in Waiting'
      PROVE  \E i \in 0 .. Held' - 1 : Cell(i)' = b
  <2>1. CASE b = next
    <3>1. PICK k \in 0 .. RingSize - 1 : k = Held
      BY <1>2
    <3>2. Cell(k)' = b /\ k \in 0 .. Held' - 1
      BY <1>2, <1>3, <1>5, <2>1, <3>1
    <3> QED
      BY <3>2
  <2>2. CASE b \in Waiting
    <3>1. PICK k \in 0 .. Held - 1 : Cell(k) = b
      BY <2>2 DEF InRing
    <3>2. Cell(k)' = b /\ k \in 0 .. Held' - 1
      BY <1>2, <1>3, <1>4, <3>1
    <3> QED
      BY <3>2
  <2> QED
    BY <1>6, <2>1, <2>2
<1>10. InRing'
  BY <1>7, <1>8, <1>9 DEF InRing
<1>11. Held > 0 => ring'[tail] = ring[tail]
  <2> HAVE Held > 0
  <2>1. tail # head
    BY <1>1 DEF Held
  <2> QED
    BY <1>1, <2>1
<1> QED
  BY <1>2, <1>3, <1>10, <1>11

\* The interrupt adds to the ring or to what is lost.
LEMMA IsrKeeps == ASSUME RxInd, Isr PROVE RxInd'
<1> USE DEF RxInd
<1>1. /\ next' = next + 1 /\ sem' = sem + 1 /\ next \in Stream
      /\ UNCHANGED <<tail, out, pc, taken, frame, need, dispatched, last>>
  BY DEF Isr, RxCplt, RxError, parserVars
<1>2. /\ Total \in Nat /\ Stream = 1 .. Total /\ Cardinality(Stream) = Total
      /\ RingSize \in Nat /\ RingSize > 1
  BY Sizes
<1>3. /\ sem \in Nat /\ next \in Nat /\ taken \in Nat /\ head \in 0 .. RingSize - 1
      /\ tail \in 0 .. RingSize - 1 /\ lost \subseteq 1 .. Total
      /\ ring \in [0 .. RingSize - 1 -> Stream \cup {0}]
      /\ dispatched \in Nat /\ Len(frame) \in Nat
  BY <1>2 DEF RxTypeOK
<1>4. CASE RxCplt /\ After(head) # tail
  <2>1. /\ ring' = [ring EXCEPT ![head] = next] /\ head' = After(head)
        /\ UNCHANGED <<overflowed, lost>>
    BY <1>4 DEF RxCplt
  <2>2. InRing' /\ (Held > 0 => ring'[tail] = ring[tail]) /\ Held' > 0
    BY <1>1, <1>4, <2>1, StoreKeepsRing
  <2>3. head' \in 0 .. RingSize - 1
    <3>1. After(head) = IF head + 1 < RingSize THEN head + 1 ELSE 0
      BY <1>3, RingMoves
    <3> QED
      BY <1>2, <1>3, <2>1, <3>1
  <2>4. RxTypeOK'
    <3>1. ring' \in [0 .. RingSize - 1 -> Stream \cup {0}]
      BY <1>1, <1>3, <2>1
    <3>2. next' \in 1 .. Total + 1 /\ sem' \in 0 .. Total
      BY <1>1, <1>2, <1>3 DEF Counted
    <3> QED
      BY <1>1, <1>2, <2>1, <2>3, <3>1, <3>2 DEF RxTypeOK
  <2>5. Reading'
    BY <1>1, <2>1, <2>2 DEF Reading
  <2>6. Counted'
    BY <1>1, <1>2, <1>3, <2>1 DEF Counted
  <2>7. InStep' /\ Aligned'
    BY <1>1, <2>1 DEF InStep, Aligned
  <2> QED
    BY <2>2, <2>4, <2>5, <2>6, <2>7
<1>5. CASE RxError \/ (RxCplt /\ After(head) = tail)
  <2>1. /\ overflowed' = TRUE /\ lost' = lost \cup {next}
        /\ UNCHANGED <<ring, head>>
    BY <1>5 DEF RxCplt, RxError
  <2>2. InRing' /\ \A b \in lost' : b < next'
    BY <1>1, <2>1, LossKeepsRing
  <2>3. RxTypeOK'
    <3>1. next' \in 1 .. Total + 1 /\ sem' \in 0 .. Total
      BY <1>1, <1>2, <1>3 DEF Counted
    <3> QED
      BY <1>1, <1>2, <2>1, <3>1 DEF RxTypeOK
  <2>4. Reading'
    <3>1. Held' = Held
      BY <1>1, <2>1 DEF Held
    <3> QED
      BY <1>1, <2>1, <3>1 DEF Reading
  <2>5. Counted'
    BY <1>1, <1>2, <1>3, <2>1, <2>2 DEF Counted
  <2>6. InStep' /\ Aligned'
    BY <2>1 DEF InStep, Aligned
  <2> QED
    BY <2>2, <2>3, <2>4, <2>5, <2>6
<1> QED
  BY <1>4, <1>5 DEF Isr

\* A step of the thread that takes no byte leaves the ring alone.
LEMMA SameRing ==
  ASSUME InRing, UNCHANGED <<ring, head, tail, next, lost, taken>>
  PROVE  InRing' /\ Held' = Held
<1>1. Held' = Held /\ Waiting' = Waiting /\ \A k : Cell(k)' = Cell(k)
  BY DEF Held, Waiting, Cell, Spot
<1> QED
  BY <1>1 DEF InRing

\* Steps that leave the buffer alone.
LEMMA SameBufferKeeps ==
  ASSUME RxInd, AwaitByte \/ WakeUp \/ LoadByte \/ ReadMore \/ ShortPrefix
  PROVE  RxInd'
<1> USE DEF RxInd
<1>1. UNCHANGED <<ring, head, tail, next, lost, taken, overflowed, frame, need,
                  dispatched, last>>
  BY DEF AwaitByte, WakeUp, LoadByte, ReadMore, ShortPrefix, parserVars, isrVars
<1>2. InRing' /\ Held' = Held
  BY <1>1, SameRing
<1>3. /\ RingSize \in Nat /\ head \in 0 .. RingSize - 1
      /\ tail \in 0 .. RingSize - 1 /\ Available = Held /\ Held \in Nat
      /\ sem \in Nat /\ Total \in Nat /\ Stream = 1 .. Total
      /\ Cardinality(Stream) = Total /\ Len(frame) \in Nat /\ BufSize \in Nat
      /\ PrefixLen \in Nat /\ MaxLen \in Nat /\ BufSize = PrefixLen + MaxLen
  BY Sizes, RingMoves DEF RxTypeOK
<1>4. /\ sem' \in Nat /\ sem' <= sem
      /\ pc' \in {"top", "load", "wait", "advance", "parse", "more",
                  "loadMore", "waitMore", "advanceMore"}
      /\ out' \in Stream \cup {0}
      /\ pc' \in Inner <=> pc \in Inner
  <2>1. CASE AwaitByte \/ ReadMore \/ ShortPrefix
    <3>1. UNCHANGED <<sem, out>> /\ out \in Stream \cup {0}
      BY <2>1 DEF AwaitByte, ReadMore, ShortPrefix, RxTypeOK
    <3>2. <<pc, pc'>> \in {<<"load", "wait">>, <<"loadMore", "waitMore">>,
                          <<"more", "loadMore">>, <<"parse", "top">>}
      BY <2>1 DEF AwaitByte, ReadMore, ShortPrefix
    <3> QED
      BY <1>3, <3>1, <3>2 DEF Inner
  <2>2. CASE WakeUp
    BY <1>3, <2>2 DEF WakeUp, RxTypeOK, Inner
  <2>3. CASE LoadByte
    <3>1. ring[tail] \in Stream \cup {0}
      BY <1>3 DEF RxTypeOK
    <3> QED
      BY <1>3, <2>3, <3>1 DEF LoadByte, Inner
  <2> QED
    BY <2>1, <2>2, <2>3
<1>5. RxTypeOK'
  BY <1>1, <1>3, <1>4 DEF RxTypeOK
<1>6. Reading'
  BY <1>1, <1>2, <1>3 DEF Reading, AwaitByte, WakeUp, LoadByte, ReadMore, ShortPrefix,
       Inner
<1>7. Counted'
  <2>1. sem' < next
    BY <1>3, <1>4 DEF Counted, RxTypeOK
  <2> QED
    BY <1>1, <2>1 DEF Counted
<1>8. InStep' /\ Aligned'
  BY <1>1, <1>4 DEF InStep, Aligned
<1> QED
  BY <1>2, <1>5, <1>6, <1>7, <1>8

\* "Force parser resync" empties the buffer, only if a byte was lost.
LEMMA TopKeeps == ASSUME RxInd, Top PROVE RxInd'
<1> USE DEF RxInd
<1>1. /\ UNCHANGED <<ring, head, tail, next, lost, taken, sem, need, out,
                     dispatched, last>>
      /\ overflowed' = FALSE /\ pc = "top"
      /\ frame' = IF overflowed THEN <<>> ELSE frame
      /\ pc' = IF Len(frame') < BufSize THEN "load" ELSE "parse"
  BY DEF Top, isrVars
<1>2. InRing' /\ Held' = Held
  BY <1>1, SameRing
<1>3. /\ frame \in Seq(Stream) /\ Len(frame) \in 0 .. BufSize /\ BufSize \in Nat
      /\ dispatched \in Nat /\ taken \in Nat
  BY Sizes DEF RxTypeOK
<1>4. frame' \in Seq(Stream) /\ Len(frame') \in 0 .. Len(frame)
  <2>1. <<>> \in Seq(Stream) /\ Len(<<>>) = 0
    OBVIOUS
  <2> QED
    BY <1>1, <1>3, <2>1
<1>5. pc' \in {"load", "parse"} /\ (pc' = "load" => Len(frame') < BufSize)
  BY <1>1
<1>6. RxTypeOK'
  <2>1. Len(frame') <= BufSize
    BY <1>3, <1>4
  <2>2. overflowed' \in BOOLEAN
    BY <1>1
  <2> QED
    BY <1>1, <1>4, <1>5, <2>1, <2>2 DEF RxTypeOK
<1>7. Reading' /\ Counted'
  BY <1>1, <1>3, <1>4, <1>5 DEF Reading, Counted, Inner
<1>8. lost = {} => frame' = frame
  BY <1>1 DEF Reading
<1>9. InStep' /\ Aligned'
  BY <1>1, <1>5, <1>8 DEF InStep, Aligned, Inner
<1> QED
  BY <1>2, <1>6, <1>7, <1>9

\* The oldest byte leaves the ring.
LEMMA TakeKeepsRing ==
  ASSUME RxTypeOK, InRing, Counted, Held > 0, tail' = After(tail),
         taken' = ring[tail], UNCHANGED <<ring, head, next, lost>>
  PROVE  /\ InRing'
         /\ ring[tail] \in Stream /\ taken < taken' /\ taken' < next
         /\ lost = {} => taken' = taken + 1
<1>1. /\ head \in 0 .. RingSize - 1 /\ tail \in 0 .. RingSize - 1
      /\ taken \in Nat /\ next \in Nat /\ RingSize \in Nat /\ RingSize > 1
      /\ next <= Total + 1 /\ Total \in Nat /\ Stream = 1 .. Total
  BY Sizes DEF RxTypeOK
<1>2. /\ Held \in 1 .. RingSize - 1 /\ Spot(0) = tail
      /\ After(tail) = Spot(1) /\ Spot(1) \in 0 .. RingSize - 1
  <2>1. /\ Held \in 0 .. RingSize - 1 /\ Spot(0) = tail /\ After(tail) = Spot(1)
        /\ \A k \in 0 .. RingSize - 1 : Spot(k) \in 0 .. RingSize - 1
    BY <1>1, RingMoves
  <2>2. 1 \in 0 .. RingSize - 1 /\ Held > 0
    BY <1>1
  <2> QED
    BY <2>1, <2>2
<1>3. Cell(0) = taken' /\ Cell(0) \in Waiting
  BY <1>2 DEF Cell, InRing
<1>4. /\ taken' \in taken + 1 .. next - 1 /\ taken' \in Nat
  BY <1>1, <1>3 DEF Waiting
<1>5. Held' = Held - 1
  BY <1>1, <1>2 DEF Held, Spot
<1>6. \A k \in 0 .. Held' - 1 : Cell(k)' = Cell(k + 1)
  <2> TAKE k \in 0 .. Held' - 1
  <2>1. Spot(k)' = Spot(k + 1)
    BY <1>1, <1>2, <1>5 DEF Spot
  <2> QED
    BY <2>1 DEF Cell
<1>7. \A b : b \in Waiting' <=> b \in Waiting /\ b > taken'
  BY <1>1, <1>4 DEF Waiting
<1>8. \A i \in 1 .. Held - 1 : Cell(0) < Cell(i)
  BY <1>2 DEF InRing
<1>9. ASSUME NEW i \in 0 .. Held' - 1
      PROVE  Cell(i)' \in Waiting'
  <2>1. i + 1 \in 1 .. Held - 1
    BY <1>2, <1>5
  <2>2. Cell(i + 1) \in Waiting /\ Cell(0) < Cell(i + 1)
    BY <1>2, <1>8, <2>1 DEF InRing
  <2>3. Cell(i + 1) > taken'
    BY <1>1, <1>3, <1>4, <2>2 DEF Waiting
  <2> QED
    BY <1>6, <1>7, <2>2, <2>3
<1>10. ASSUME NEW i \in 0 .. Held' - 1, NEW j \in 0 .. Held' - 1, i < j
       PROVE  Cell(i)' < Cell(j)'
  <2>1. i + 1 \in 0 .. Held - 1 /\ j + 1 \in 0 .. Held - 1 /\ i + 1 < j + 1
    BY <1>2, <1>5, <1>10
  <2>2. Cell(i + 1) < Cell(j + 1)
    BY <2>1 DEF InRing
  <2> QED
    BY <1>6, <2>2
<1>11. ASSUME NEW b \in Waiting'
       PROVE  \E i \in 0 .. Held' - 1 : Cell(i)' = b
  <2>1. b \in Waiting /\ b > taken'
    BY <1>7, <1>11
  <2>2. PICK k \in 0 .. Held - 1 : Cell(k) = b
    BY <2>1 DEF InRing
  <2>3. k # 0
    BY <1>3, <1>4, <2>1, <2>2
  <2>4. k - 1 \in 0 .. Held' - 1 /\ (k - 1) + 1 = k
    BY <1>2, <1>5, <2>3
  <2>5. Cell(k - 1)' = b
    BY <1>6, <2>2, <2>4
  <2> QED
    BY <2>4, <2>5
<1>12. InRing'
  BY <1>9, <1>10, <1>11 DEF InRing
<1>13. ASSUME lost = {}
       PROVE  taken' = taken + 1
  <2>1. taken + 1 \in Waiting
    BY <1>1, <1>4, <1>13 DEF Waiting
  <2>2. PICK k \in 0 .. Held - 1 : Cell(k) = taken + 1
    BY <2>1 DEF InRing
  <2>3. k = 0
    BY <1>1, <1>3, <1>4, <1>8, <2>2
  <2> QED
    BY <1>3, <2>2, <2>3
<1>14. ring[tail] \in Stream /\ taken < taken' /\ taken' < next
  BY <1>1, <1>4
<1> QED
  BY <1>12, <1>13, <1>14

\* The byte that was read leaves the ring and joins the buffer.
LEMMA AdvanceTailKeeps == ASSUME RxInd, AdvanceTail PROVE RxInd'
<1> USE DEF RxInd
<1>1. /\ tail' = After(tail) /\ taken' = out /\ frame' = Append(frame, out)
      /\ UNCHANGED <<ring, head, next, lost, overflowed, sem, need, out,
                     dispatched, last>>
      /\ pc \in {"advance", "advanceMore"}
      /\ pc' = IF pc = "advance" THEN "parse" ELSE "more"
  BY DEF AdvanceTail, isrVars
<1>2. Held > 0 /\ out = ring[tail]
  BY <1>1 DEF Reading
<1>3. /\ InRing' /\ out \in Stream /\ taken < taken' /\ taken' < next
      /\ lost = {} => taken' = taken + 1
  BY <1>1, <1>2, TakeKeepsRing
<1>4. /\ frame \in Seq(Stream) /\ BufSize \in Nat /\ dispatched \in Nat
      /\ taken \in Nat /\ Len(frame) \in Nat /\ need \in Nat /\ need <= BufSize
      /\ FrameLen \in Nat
      /\ head \in 0 .. RingSize - 1 /\ tail \in 0 .. RingSize - 1
      /\ Total \in Nat /\ Stream = 1 .. Total
  BY Sizes DEF RxTypeOK
<1>5. /\ frame' \in Seq(Stream) /\ Len(frame') = Len(frame) + 1
      /\ \A i \in 1 .. Len(frame) : frame'[i] = frame[i]
      /\ frame'[Len(frame) + 1] = out
  BY <1>1, <1>3, <1>4
<1>6. Len(frame) < BufSize /\ (pc = "advanceMore" => Len(frame) < need)
  BY <1>1, <1>4 DEF Reading, Inner
<1>7. tail' \in 0 .. RingSize - 1
  <2>1. After(tail) = Spot(1) /\ Spot(1) \in 0 .. RingSize - 1
    BY <1>4, RingMoves, Sizes
  <2> QED
    BY <1>1, <2>1
<1>8. RxTypeOK'
  <2>1. Len(frame') <= BufSize /\ taken' \in Stream \cup {0}
        /\ pc' \in {"parse", "more"}
    BY <1>1, <1>3, <1>4, <1>5, <1>6
  <2> QED
    BY <1>1, <1>5, <1>7, <2>1 DEF RxTypeOK
<1>9. Reading'
  BY <1>1 DEF Reading, Inner
<1>10. Counted'
  BY <1>1, <1>3, <1>4, <1>5 DEF Counted
<1>11. Aligned'
  BY <1>1, <1>3, <1>4, <1>5, SMT DEF Aligned, Inner
<1>12. InStep'
  <2> SUFFICES ASSUME lost = {}
               PROVE  \A i \in 1 .. Len(frame') : frame'[i] = dispatched * FrameLen + i
    BY <1>1 DEF InStep
  <2>1. taken = dispatched * FrameLen + Len(frame) /\ taken' = taken + 1
    BY <1>3 DEF Aligned
  <2> TAKE i \in 1 .. Len(frame')
  <2>2. CASE i = Len(frame) + 1
    <3>1. frame'[i] = taken + 1
      BY <1>1, <1>5, <2>1, <2>2
    <3>2. dispatched * FrameLen \in Nat
      BY <1>4, SMT
    <3> QED
      BY <1>4, <2>1, <2>2, <3>1, <3>2
  <2>3. CASE i \in 1 .. Len(frame)
    BY <1>5, <2>3 DEF InStep
  <2> QED
    BY <1>4, <1>5, <2>2, <2>3
<1> QED
  BY <1>3, <1>8, <1>9, <1>10, <1>11, <1>12

\* While nothing is lost, what the thread parses is a prefix and a message.
LEMMA FrameInStep ==
  ASSUME RxInd, lost = {}
  PROVE  /\ \A i \in 1 .. Len(frame) : i <= FrameLen => Place(frame[i]) = i - 1
         /\ Len(frame) >= PrefixLen => Lengths = {MsgLen}
         /\ pc = "more" /\ Len(frame) >= need => LikeMessage(Payload)
<1> USE DEF RxInd
<1>1. /\ PrefixLen \in Nat \ {0} /\ MsgLen \in Nat \ {0}
      /\ FrameLen \in Nat \ {0} /\ FrameLen = PrefixLen + MsgLen
      /\ Len(frame) \in Nat /\ dispatched \in Nat /\ frame \in Seq(Stream)
  BY Sizes DEF RxTypeOK
<1>2. \A i \in 1 .. Len(frame) : i <= FrameLen => Place(frame[i]) = i - 1
  <2> TAKE i \in 1 .. Len(frame)
  <2> HAVE i <= FrameLen
  <2>1. frame[i] = dispatched * FrameLen + i
    BY DEF InStep
  <2>2. (dispatched * FrameLen + (i - 1)) % FrameLen = i - 1
    <3>1. i - 1 \in 0 .. FrameLen - 1 /\ dispatched \in Int
      BY <1>1
    <3> QED
      BY <1>1, <3>1, Remainder
  <2>3. dispatched * FrameLen \in Nat
    BY <1>1, SMT
  <2>4. frame[i] - 1 = dispatched * FrameLen + (i - 1)
    BY <2>1, <2>3
  <2> QED
    BY <2>2, <2>4 DEF Place
<1>3. Len(frame) >= PrefixLen => Lengths = {MsgLen}
  <2> HAVE Len(frame) >= PrefixLen
  <2>1. \A i \in 1 .. PrefixLen : Place(frame[i]) = i - 1
    BY <1>1, <1>2
  <2> QED
    BY <2>1 DEF Lengths
<1>4. pc = "more" /\ Len(frame) >= need => LikeMessage(Payload)
  <2> HAVE pc = "more" /\ Len(frame) >= need
  <2>1. need = FrameLen
    BY DEF Aligned, Inner
  <2>2. /\ Len(Payload) = MsgLen
        /\ \A i \in 1 .. MsgLen : Payload[i] = frame[PrefixLen + i]
    BY <1>1, <2>1 DEF Payload
  <2>3. \A i \in 1 .. MsgLen : Place(Payload[i]) = PrefixLen + i - 1
    <3> TAKE i \in 1 .. MsgLen
    <3>1. PrefixLen + i \in 1 .. Len(frame) /\ PrefixLen + i <= FrameLen
      BY <1>1, <2>1
    <3>2. Place(frame[PrefixLen + i]) = (PrefixLen + i) - 1
      BY <1>2, <3>1
    <3> QED
      BY <1>1, <2>2, <3>2
  <2> QED
    BY <2>2, <2>3 DEF LikeMessage
<1> QED
  BY <1>2, <1>3, <1>4

\* A shift by one byte: only after a loss.
LEMMA ShiftKeeps == ASSUME RxInd, BadPrefix \/ DecodeFails PROVE RxInd'
<1> USE DEF RxInd
<1>1. /\ UNCHANGED <<ring, head, tail, next, lost, taken, overflowed, sem, need,
                     out, dispatched, last>>
      /\ frame' = Tail(frame) /\ pc' = "top"
  BY DEF BadPrefix, DecodeFails, isrVars
<1>2. InRing' /\ Held' = Held
  BY <1>1, SameRing
<1>3. /\ PrefixLen \in Nat \ {0} /\ BufSize \in Nat /\ dispatched \in Nat
      /\ frame \in Seq(Stream) /\ Len(frame) \in 0 .. BufSize /\ taken \in Nat
      /\ MsgLen \in 1 .. MaxLen /\ MaxLen \in Nat
  BY Sizes DEF RxTypeOK
<1>4. Len(frame) > 0
  <2>1. pc = "more" => need > 0
    BY DEF Reading, Inner
  <2>2. need \in Nat
    BY Sizes DEF RxTypeOK
  <2> QED
    BY <1>3, <2>1, <2>2 DEF BadPrefix, DecodeFails
<1>5. frame' \in Seq(Stream) /\ Len(frame') = Len(frame) - 1
  BY <1>1, <1>3, <1>4
<1>6. lost # {}
  <2> SUFFICES ASSUME lost = {}
               PROVE  FALSE
    OBVIOUS
  <2>1. CASE BadPrefix
    <3>1. Lengths = {MsgLen}
      BY <2>1, FrameInStep DEF BadPrefix
    <3> QED
      BY <1>3, <2>1, <3>1 DEF BadPrefix
  <2>2. CASE DecodeFails
    BY <2>2, FrameInStep DEF DecodeFails
  <2> QED
    BY <2>1, <2>2
<1>7. RxTypeOK'
  <2>1. Len(frame') <= BufSize
    BY <1>3, <1>5
  <2> QED
    BY <1>1, <1>5, <2>1 DEF RxTypeOK
<1>8. Reading'
  BY <1>1 DEF Reading, Inner
<1>9. Counted'
  BY <1>1, <1>3, <1>5 DEF Counted
<1>10. InStep' /\ Aligned'
  BY <1>1, <1>6 DEF InStep, Aligned
<1> QED
  BY <1>2, <1>7, <1>8, <1>9, <1>10

LEMMA GoodPrefixKeeps == ASSUME RxInd, GoodPrefix PROVE RxInd'
<1> USE DEF RxInd
<1>1. /\ UNCHANGED <<ring, head, tail, next, lost, taken, overflowed, sem, frame,
                     out, dispatched, last>>
      /\ Len(frame) >= PrefixLen /\ pc' = "more"
  BY DEF GoodPrefix, isrVars
<1>2. InRing' /\ Held' = Held
  BY <1>1, SameRing
<1>3. PICK len \in Lengths \cap 1 .. MaxLen : need' = PrefixLen + len
  BY DEF GoodPrefix
<1>4. /\ PrefixLen \in Nat \ {0} /\ MaxLen \in Nat /\ BufSize = PrefixLen + MaxLen
      /\ FrameLen = PrefixLen + MsgLen
  BY Sizes
<1>5. need' \in PrefixLen + 1 .. BufSize /\ need' > 0
  BY <1>3, <1>4
<1>6. RxTypeOK'
  BY <1>1, <1>5 DEF RxTypeOK
<1>7. Reading'
  BY <1>1, <1>5 DEF Reading, Inner
<1>8. Counted'
  BY <1>1 DEF Counted
<1>9. lost = {} => need' = FrameLen
  BY <1>1, <1>3, <1>4, FrameInStep
<1>10. InStep' /\ Aligned'
  BY <1>1, <1>9 DEF InStep, Aligned
<1> QED
  BY <1>2, <1>6, <1>7, <1>8, <1>10

\* What is left of a sequence without its first elements.
LEMMA Remaining ==
  ASSUME NEW S, NEW s \in Seq(S), NEW n \in 0 .. Len(s)
  PROVE  /\ SubSeq(s, n + 1, Len(s)) \in Seq(S)
         /\ Len(SubSeq(s, n + 1, Len(s))) = Len(s) - n
         /\ \A i \in 1 .. Len(s) - n : SubSeq(s, n + 1, Len(s))[i] = s[n + i]
  OBVIOUS

\* The elements of a sequence after the first m and up to the n-th.
LEMMA Portion ==
  ASSUME NEW S, NEW s \in Seq(S), NEW n \in 0 .. Len(s), NEW m \in 0 .. n
  PROVE  /\ SubSeq(s, m + 1, n) \in Seq(S)
         /\ Len(SubSeq(s, m + 1, n)) = n - m
         /\ \A i \in 1 .. n - m : SubSeq(s, m + 1, n)[i] = s[m + i]
  OBVIOUS

LEMMA DispatchKeeps == ASSUME RxInd, Dispatch PROVE RxInd'
<1> USE DEF RxInd
<1>1. /\ UNCHANGED <<ring, head, tail, next, lost, taken, overflowed, sem, need,
                     out>>
      /\ pc = "more" /\ pc' = "top" /\ Len(frame) >= need
      /\ last' = Payload /\ dispatched' = dispatched + 1
      /\ frame' = SubSeq(frame, need + 1, Len(frame))
  BY DEF Dispatch, isrVars
<1>2. InRing' /\ Held' = Held
  BY <1>1, SameRing
<1>3. /\ PrefixLen \in Nat \ {0} /\ BufSize = PrefixLen + MaxLen
      /\ MaxLen \in Nat /\ MsgLen \in Nat \ {0} /\ FrameLen \in Nat \ {0}
      /\ FrameLen = PrefixLen + MsgLen /\ dispatched \in Nat
      /\ frame \in Seq(Stream) /\ Len(frame) \in 0 .. BufSize /\ taken \in Nat
      /\ Total \in Nat /\ Stream = 1 .. Total /\ Cardinality(Stream) = Total
      /\ next \in Nat /\ next <= Total + 1
  BY Sizes DEF RxTypeOK
<1>4. need \in PrefixLen + 1 .. BufSize
  <2>1. need > 0
    BY <1>1 DEF Reading, Inner
  <2> QED
    BY <2>1 DEF RxTypeOK
<1>5. /\ frame' \in Seq(Stream) /\ Len(frame') = Len(frame) - need
      /\ \A i \in 1 .. Len(frame') : frame'[i] = frame[need + i]
  <2>1. need \in 0 .. Len(frame)
    BY <1>1, <1>3, <1>4
  <2>2. /\ frame' = SubSeq(frame, need + 1, Len(frame))
        /\ frame \in Seq(Stream)
    BY <1>1, <1>3
  <2>3. /\ frame' \in Seq(Stream) /\ Len(frame') = Len(frame) - need
        /\ \A i \in 1 .. Len(frame) - need : frame'[i] = frame[need + i]
    <3> HIDE DEF RxInd
    <3> QED
      BY <2>1, <2>2, Remaining
  <2> QED
    BY <2>3
<1>6. /\ last' \in Seq(Stream) /\ Len(last') = need - PrefixLen
      /\ \A i \in 1 .. need - PrefixLen : last'[i] = frame[PrefixLen + i]
  <2>1. last' = SubSeq(frame, PrefixLen + 1, need)
    BY <1>1 DEF Payload
  <2>2. /\ frame \in Seq(Stream) /\ PrefixLen \in 0 .. need /\ need \in 0 .. Len(frame)
    BY <1>1, <1>3, <1>4
  <2> HIDE DEF RxInd
  <2> QED
    BY <2>1, <2>2, Portion
<1>7. Counted'
  <2>1. /\ need \in Nat /\ need > 0 /\ dispatched \in Nat /\ taken \in Nat
        /\ Len(frame) \in Nat /\ Len(frame') = Len(frame) - need
        /\ dispatched' = dispatched + 1
    BY <1>1, <1>3, <1>4, <1>5
  <2>2. dispatched + Len(frame) <= taken
    BY DEF Counted
  <2>3. dispatched' + Len(frame') <= taken
    BY <2>1, <2>2
  <2> QED
    BY <1>1, <2>3 DEF Counted
<1>8. RxTypeOK'
  <2>1. Len(frame') <= BufSize /\ Len(last') <= MaxLen
    <3>1. /\ need \in Nat /\ need > 0 /\ need <= BufSize /\ BufSize \in Nat
          /\ Len(frame) \in Nat /\ Len(frame) <= BufSize
      BY <1>3, <1>4
    <3>2. need - PrefixLen <= MaxLen
      BY <1>3, <1>4
    <3> QED
      BY <1>5, <1>6, <3>1, <3>2
  <2>2. dispatched' \in 0 .. Cardinality(Stream)
    BY <1>1, <1>3, <1>5, <1>7 DEF Counted
  <2> QED
    BY <1>1, <1>5, <1>6, <2>1, <2>2 DEF RxTypeOK
<1>9. Reading'
  BY <1>1 DEF Reading, Inner
<1>10. ASSUME lost = {}
       PROVE  need = FrameLen /\ dispatched' * FrameLen = dispatched * FrameLen + FrameLen
              /\ dispatched * FrameLen \in Nat
  <2>1. need = FrameLen
    BY <1>1, <1>10 DEF Aligned, Inner
  <2>2. dispatched' * FrameLen = dispatched * FrameLen + FrameLen
        /\ dispatched * FrameLen \in Nat
    BY <1>1, <1>3, SMT
  <2> QED
    BY <2>1, <2>2
<1>11. Aligned'
  <2> SUFFICES ASSUME lost = {}
               PROVE  taken = dispatched' * FrameLen + Len(frame')
    BY <1>1 DEF Aligned, Inner
  <2>1. taken = dispatched * FrameLen + Len(frame)
    BY DEF Aligned
  <2>2. Len(frame') = Len(frame) - FrameLen /\ Len(frame) \in Nat
    BY <1>3, <1>5, <1>10
  <2> QED
    BY <1>3, <1>10, <2>1, <2>2
<1>12. InStep'
  <2> SUFFICES ASSUME lost = {}
               PROVE  /\ \A i \in 1 .. Len(frame') :
                           frame'[i] = dispatched' * FrameLen + i
                      /\ last' = [i \in 1 .. MsgLen |->
                                    (dispatched' - 1) * FrameLen + PrefixLen + i]
    BY <1>1 DEF InStep
  <2>1. /\ need = FrameLen /\ dispatched * FrameLen \in Nat
        /\ dispatched' * FrameLen = dispatched * FrameLen + FrameLen
        /\ dispatched' - 1 = dispatched
    BY <1>1, <1>3, <1>10
  <2>2. \A i \in 1 .. Len(frame) : frame[i] = dispatched * FrameLen + i
    BY DEF InStep
  <2>3. ASSUME NEW i \in 1 .. Len(frame')
        PROVE  frame'[i] = dispatched' * FrameLen + i
    <3>1. need + i \in 1 .. Len(frame)
      BY <1>3, <1>4, <1>5
    <3> QED
      BY <1>3, <1>5, <2>1, <2>2, <3>1
  <2>4. ASSUME NEW i \in 1 .. MsgLen
        PROVE  last'[i] = (dispatched' - 1) * FrameLen + PrefixLen + i
    <3>1. PrefixLen + i \in 1 .. Len(frame) /\ i \in 1 .. need - PrefixLen
      BY <1>1, <1>3, <2>1
    <3>2. last'[i] = dispatched * FrameLen + (PrefixLen + i)
      BY <1>6, <2>2, <3>1
    <3> QED
      BY <1>3, <2>1, <3>2
  <2>5. last' = [i \in 1 .. MsgLen |-> (dispatched' - 1) * FrameLen + PrefixLen + i]
    <3>1. need - PrefixLen = MsgLen
      BY <1>3, <2>1
    <3>2. Len(last') = MsgLen /\ last' \in Seq(Stream)
      BY <1>6, <3>1
    <3>3. DOMAIN last' = 1 .. MsgLen /\ last' = [i \in DOMAIN last' |-> last'[i]]
      <4> HIDE DEF RxInd
      <4> QED
        BY <3>2
    <3> QED
      BY <2>4, <3>3
  <2> QED
    BY <2>3, <2>5
<1> QED
  BY <1>2, <1>7, <1>8, <1>9, <1>11, <1>12

LEMMA RxInvariance == RxInd /\ [RxNext]_rxVars => RxInd'
<1> SUFFICES ASSUME RxInd, [RxNext]_rxVars
             PROVE  RxInd'
  OBVIOUS
<1>1. CASE Isr
  BY <1>1, IsrKeeps
<1>2. CASE AwaitByte \/ WakeUp \/ LoadByte \/ ReadMore \/ ShortPrefix
  BY <1>2, SameBufferKeeps
<1>3. CASE Top
  BY <1>3, TopKeeps
<1>4. CASE AdvanceTail
  BY <1>4, AdvanceTailKeeps
<1>5. CASE BadPrefix \/ DecodeFails
  BY <1>5, ShiftKeeps
<1>6. CASE GoodPrefix
  BY <1>6, GoodPrefixKeeps
<1>7. CASE Dispatch
  BY <1>7, DispatchKeeps
<1>8. CASE RxFinished \/ UNCHANGED rxVars
  <2>1. UNCHANGED rxVars
    BY <1>8 DEF RxFinished
  <2>2. InRing' /\ Held' = Held
    <3>1. UNCHANGED <<ring, head, tail, next, lost, taken>>
      BY <2>1 DEF rxVars
    <3> QED
      BY <3>1, SameRing DEF RxInd
  <2>3. RxTypeOK' /\ Counted'
    BY <2>1 DEF RxInd, rxVars, RxTypeOK, Counted
  <2>4. Reading' /\ InStep' /\ Aligned'
    BY <2>1, <2>2 DEF RxInd, rxVars, Reading, InStep, Aligned
  <2> QED
    BY <2>2, <2>3, <2>4 DEF RxInd
<1> QED
  BY <1>1, <1>2, <1>3, <1>4, <1>5, <1>6, <1>7, <1>8 DEF RxNext, Thread

LEMMA RxInductive == RxSpec => []RxInd
<1> QED
  BY RxStarts, RxInvariance, PTL DEF RxSpec

\* The counts stay in their range: the semaphore count by the bytes that came,
\* the messages dispatched by the bytes taken; and the buffer never overflows,
\* for the prefix is checked before the inner loop reads on (comm_rx.c:151).
THEOREM ReceiverTypeCorrect == RxSpec => []RxTypeOK
<1>1. RxInd => RxTypeOK
  BY DEF RxInd
<1> QED
  BY <1>1, RxInductive, PTL

\* Every byte that was not lost is taken, once and in order, without a lock
\* between the interrupt, which moves rx_ring_head, and the thread, which moves
\* rx_ring_tail (comm_rx.c:38 and comm_rx.c:92), for every ring size.
THEOREM RingKeepsOrder == RxSpec => []BytesInOrder
<1>1. RxInd => BytesInOrder
  BY RingOrder DEF RxInd
<1> QED
  BY <1>1, RxInductive, PTL

\* While nothing is lost, the parser never shifts (comm_rx.c:136), and the n-th
\* message it dispatches is the n-th the host sent.
THEOREM ParserInStep == RxSpec => []InStep
<1>1. RxInd => InStep
  BY DEF RxInd
<1> QED
  BY <1>1, RxInductive, PTL
=============================================================================
