---------------------------- MODULE BufferQueue ----------------------------
(***************************************************************************)
(* The buffer queue of Util/Src/bqueue.c: a ring of buffers between one    *)
(* producer and one consumer, guarded by two counting semaphores.  The     *)
(* producer alone moves free_idx and the consumer alone moves ready_idx,   *)
(* without a lock.  A semaphore call and the index access that follows it  *)
(* are separate steps, because an interrupt or a thread of higher priority *)
(* can run between them.                                                   *)
(*                                                                         *)
(* Both uses of the queue in the firmware are covered: the camera          *)
(* interrupt feeding the NN thread (which calls GetReadyLatest), and the   *)
(* NN thread feeding the post-processing thread (which calls GetReady).    *)
(***************************************************************************)
EXTENDS Integers, Sequences

CONSTANTS
  BufferNb,   \* buffer_nb, the number of buffers of the queue
  MaxFrames,  \* bound: the producer fills a buffer at most this many times
  NULL        \* "no buffer", the null pointer of the code

ASSUME QueueAssumption ==
  /\ BufferNb \in Nat \ {0}
  /\ MaxFrames \in Nat
  /\ NULL \notin Nat

Buffers == 0 .. BufferNb - 1

VARIABLES
  freeSem,    \* count of free_sem
  readySem,   \* count of ready_sem
  freeIdx,    \* free_idx: the next buffer the producer gets
  readyIdx,   \* ready_idx: the next buffer the consumer gets
  prodPC,     \* where the producer is inside BQUE_GetFree
  prodHeld,   \* buffers the producer owns, oldest first
  consPC,     \* where the consumer is inside BQUE_GetReady(Latest)
  consCall,   \* which of the two calls the consumer is in
  consBuf,    \* the buffer the consumer owns ("result", "latest"), or NULL
  skipCount,  \* skip_count of the call in progress
  frameDrops, \* nn_frame_drop_count: the sum of all reported skip counts
  frame,      \* frame[b]: number of the frame stored in buffer b, 0 for none
  filled,     \* history: number of the last frame written by the producer
  published,  \* history: number of the last frame put ready
  delivered,  \* history: how many frames the consumer finished with
  health      \* "panicked" once an APP_REQUIRE on a semaphore put has failed

vars == <<freeSem, readySem, freeIdx, readyIdx, prodPC, prodHeld, consPC,
          consCall, consBuf, skipCount, frameDrops, frame, filled, published,
          delivered, health>>

sems     == <<freeSem, readySem>>
prodVars == <<freeIdx, prodPC, prodHeld, filled, published>>
consVars == <<readyIdx, consPC, consCall, consBuf, skipCount, frameDrops,
              delivered>>

Calls == {"GetReady", "GetReadyLatest"}

Following(i) == (i + 1) % BufferNb

\* BQUE_Init: every buffer is free.
Init ==
  /\ freeSem = BufferNb
  /\ readySem = 0
  /\ freeIdx = 0
  /\ readyIdx = 0
  /\ prodPC = "idle"
  /\ prodHeld = <<>>
  /\ consPC = "idle"
  /\ consCall = "GetReady"
  /\ consBuf = NULL
  /\ skipCount = 0
  /\ frameDrops = 0
  /\ frame = [b \in Buffers |-> 0]
  /\ filled = 0
  /\ published = 0
  /\ delivered = 0
  /\ health = "running"

-----------------------------------------------------------------------------
(* The producer. *)

\* Defect for OwnersApart: the producer takes the next buffer although the
\* semaphore call found none free.
GetFreeUnchecked ==
  /\ prodPC = "idle"
  /\ freeSem' = IF freeSem > 0 THEN freeSem - 1 ELSE 0
  /\ prodPC' = "index"
  /\ UNCHANGED <<readySem, freeIdx, prodHeld, filled, published, consVars,
                 frame, health>>

\* BQUE_GetFree up to the semaphore.  With no free buffer a blocking call
\* waits and a non-blocking one returns NULL: neither changes the state.
GetFree ==
  /\ prodPC = "idle"
  /\ freeSem > 0
  /\ freeSem' = freeSem - 1
  /\ prodPC' = "index"
  /\ UNCHANGED <<readySem, freeIdx, prodHeld, filled, published, consVars,
                 frame, health>>

\* BQUE_GetFree after the semaphore: read and advance free_idx.
GetFreeIndex ==
  /\ prodPC = "index"
  /\ prodHeld' = Append(prodHeld, freeIdx)
  /\ freeIdx' = Following(freeIdx)
  /\ prodPC' = "idle"
  /\ UNCHANGED <<sems, filled, published, consVars, frame, health>>

\* The owner writes a frame into its oldest buffer: the camera DMA completes
\* a capture there, or the NPU an inference.  The DMA writes the same buffer
\* again when no other one was free.
Fill ==
  /\ prodPC = "idle"
  /\ prodHeld # <<>>
  /\ filled < MaxFrames
  /\ filled' = filled + 1
  /\ frame' = [frame EXCEPT ![Head(prodHeld)] = filled + 1]
  /\ UNCHANGED <<sems, freeIdx, prodPC, prodHeld, published, consVars,
                 health>>

\* BQUE_PutReady: hand the oldest buffer over.  In an interrupt the put has
\* the ceiling buffer_nb, and APP_REQUIRE stops the firmware if it fails.
PutReady ==
  /\ prodPC = "idle"
  /\ prodHeld # <<>>
  /\ frame[Head(prodHeld)] > published
  /\ published' = frame[Head(prodHeld)]
  /\ prodHeld' = Tail(prodHeld)
  /\ readySem' = IF readySem < BufferNb THEN readySem + 1 ELSE readySem
  /\ health' = IF readySem < BufferNb THEN health ELSE "panicked"
  /\ UNCHANGED <<freeSem, freeIdx, prodPC, filled, consVars, frame>>

-----------------------------------------------------------------------------
(* The consumer. *)

\* Defect for EveryFrameTaken: the consumer wakes up for the second frame only.
GetReadyLate(call) ==
  /\ consPC = "idle"
  /\ consBuf = NULL
  /\ readySem > 1
  /\ readySem' = readySem - 1
  /\ consPC' = "index"
  /\ consCall' = call
  /\ skipCount' = 0
  /\ UNCHANGED <<freeSem, prodVars, readyIdx, consBuf, frameDrops, delivered,
                 frame, health>>

\* BQUE_GetReady up to the semaphore, called on its own or as the first step
\* of BQUE_GetReadyLatest.  Both callers hold no buffer at that point.
GetReady(call) ==
  /\ consPC = "idle"
  /\ consBuf = NULL
  /\ readySem > 0
  /\ readySem' = readySem - 1
  /\ consPC' = "index"
  /\ consCall' = call
  /\ skipCount' = 0
  /\ UNCHANGED <<freeSem, prodVars, readyIdx, consBuf, frameDrops, delivered,
                 frame, health>>

\* BQUE_GetReady after the semaphore: read and advance ready_idx.
GetReadyIndex ==
  /\ consPC = "index"
  /\ consBuf' = readyIdx
  /\ readyIdx' = Following(readyIdx)
  /\ consPC' = IF consCall = "GetReady" THEN "idle" ELSE "drain"
  /\ UNCHANGED <<sems, prodVars, consCall, skipCount, frameDrops, delivered,
                 frame, health>>

\* BQUE_GetReadyLatest: another buffer is ready, so the one in hand is stale.
DrainTake ==
  /\ consPC = "drain"
  /\ readySem > 0
  /\ readySem' = readySem - 1
  /\ consPC' = "skip"
  /\ UNCHANGED <<freeSem, prodVars, readyIdx, consCall, consBuf, skipCount,
                 frameDrops, delivered, frame, health>>

\* Defect for NoBufferLost: the skipped buffer is not given back.
DrainWithoutFree ==
  /\ consPC = "skip"
  /\ skipCount' = skipCount + 1
  /\ consBuf' = NULL
  /\ consPC' = "index"
  /\ UNCHANGED <<sems, prodVars, readyIdx, consCall, frameDrops, delivered,
                 frame, health>>

\* Defect for ImplementsChannel: the skipped frame is not counted.
DrainUncounted ==
  /\ consPC = "skip"
  /\ freeSem' = freeSem + 1
  /\ consBuf' = NULL
  /\ consPC' = "index"
  /\ UNCHANGED <<readySem, prodVars, readyIdx, consCall, skipCount, frameDrops,
                 delivered, frame, health>>

\* The stale buffer goes back to the free pool, before the newer one is read.
DrainFree ==
  /\ consPC = "skip"
  /\ freeSem' = freeSem + 1
  /\ skipCount' = skipCount + 1
  /\ consBuf' = NULL
  /\ consPC' = "index"
  /\ UNCHANGED <<readySem, prodVars, readyIdx, consCall, frameDrops,
                 delivered, frame, health>>

\* Defect for ReturnsNewest: the loop ends after one skipped frame.
DrainOnce ==
  /\ consPC = "drain"
  /\ readySem = 0 \/ skipCount > 0
  /\ consPC' = "idle"
  /\ frameDrops' = frameDrops + skipCount
  /\ skipCount' = 0
  /\ UNCHANGED <<sems, prodVars, readyIdx, consCall, consBuf, delivered,
                 frame, health>>

\* Nothing newer is ready: BQUE_GetReadyLatest returns the buffer in hand,
\* and its caller adds the skip count to nn_frame_drop_count.
DrainDone ==
  /\ consPC = "drain"
  /\ readySem = 0
  /\ consPC' = "idle"
  /\ frameDrops' = frameDrops + skipCount
  /\ skipCount' = 0
  /\ UNCHANGED <<sems, prodVars, readyIdx, consCall, consBuf, delivered,
                 frame, health>>

\* BQUE_PutFree: the consumer is done with its buffer.
PutFree ==
  /\ consPC = "idle"
  /\ consBuf # NULL
  /\ freeSem' = freeSem + 1
  /\ consBuf' = NULL
  /\ delivered' = delivered + 1
  /\ UNCHANGED <<readySem, prodVars, readyIdx, consPC, consCall, skipCount,
                 frameDrops, frame, health>>

-----------------------------------------------------------------------------

Producer == GetFree \/ GetFreeIndex \/ Fill \/ PutReady

Consumer ==
  \/ \E call \in Calls : GetReady(call)
  \/ GetReadyIndex \/ DrainTake \/ DrainFree \/ DrainDone \/ PutFree

\* The bound MaxFrames is reached and every frame is used up.
Finished ==
  /\ filled = MaxFrames
  /\ prodPC = "idle" /\ consPC = "idle"
  /\ consBuf = NULL /\ readySem = 0
  /\ UNCHANGED vars

Next == Producer \/ Consumer \/ Finished

Spec == Init /\ [][Next]_vars

\* The consumer thread is scheduled again and again, and never stays blocked
\* on a semaphore whose count is positive.
FairSpec == Spec /\ WF_vars(Consumer)

-----------------------------------------------------------------------------
(* Properties. *)

TypeOK ==
  /\ freeSem \in 0 .. BufferNb
  /\ readySem \in 0 .. BufferNb
  /\ freeIdx \in Buffers
  /\ readyIdx \in Buffers
  /\ prodPC \in {"idle", "index"}
  /\ prodHeld \in Seq(Buffers)
  /\ consPC \in {"idle", "index", "drain", "skip"}
  /\ consCall \in Calls
  /\ consBuf \in Buffers \cup {NULL}
  /\ skipCount \in Nat
  /\ frameDrops \in Nat
  /\ frame \in [Buffers -> Nat]
  /\ filled \in Nat
  /\ published \in Nat
  /\ delivered \in Nat
  /\ health \in {"running", "panicked"}

\* The buffer k places after i in the ring, for k in 0 .. BufferNb.
Ahead(i, k) == IF i + k < BufferNb THEN i + k ELSE i + k - BufferNb

\* How many buffers the producer may still get, one of them under way.
FreeCount == freeSem + (IF prodPC = "index" THEN 1 ELSE 0)

\* How many buffers the consumer may still read, one of them under way.
ReadyCount == readySem + (IF consPC \in {"index", "skip"} THEN 1 ELSE 0)

InHandCount == IF consBuf = NULL THEN 0 ELSE 1

\* The buffers that are ready for the consumer, oldest first.
ReadyBuffers == [k \in 1 .. ReadyCount |-> Ahead(readyIdx, k - 1)]

\* The producer (camera DMA or NPU) never owns a buffer that the consumer is
\* reading or is about to read, nor the same buffer twice, although the two
\* indices of bqueue.c move without a lock: SPSC ownership as the comments at
\* BQUE_GetFree and BQUE_GetReady assume it.
OwnersApart ==
  \A k \in 1 .. Len(prodHeld) :
    /\ prodHeld[k] # consBuf
    /\ \A j \in 1 .. ReadyCount : prodHeld[k] # ReadyBuffers[j]
    /\ \A j \in 1 .. Len(prodHeld) : j # k => prodHeld[j] # prodHeld[k]

\* Every buffer is free, owned by the producer, ready, or in the consumer's
\* hand, and exactly one of these: no interleaving of the calls leaks a buffer
\* or counts one twice.  So the ceiling of the put in BQUE_PutReady is never
\* reached and its APP_REQUIRE never fails.
NoBufferLost ==
  /\ FreeCount + Len(prodHeld) + ReadyCount + InHandCount = BufferNb
  /\ health = "running"

\* BQUE_GetReadyLatest returns the newest frame published up to the moment it
\* finds the queue drained, however many frames arrive while it is draining.
ReturnsNewest ==
  [][consPC = "drain" /\ consPC' = "idle" => frame[consBuf] = published]_vars

\* The ring with its semaphores implements the atomic channel: frames reach
\* the consumer once, in order and unmodified while it holds them, and
\* every frame it does not get is in the reported skip count.
Channel == INSTANCE FrameChannel WITH
  Capacity  <- BufferNb,
  waiting   <- [k \in 1 .. ReadyCount |-> frame[ReadyBuffers[k]]],
  inHand    <- IF consBuf = NULL THEN NULL ELSE frame[consBuf],
  newest    <- published,
  discarded <- frameDrops + skipCount

ImplementsChannel == Channel!Spec

\* A published frame does not stay in the queue for ever: the consumer thread
\* takes it, or skips it for a newer one.
EveryFrameTaken ==
  \A f \in 1 .. MaxFrames :
    (\E k \in 1 .. ReadyCount : frame[ReadyBuffers[k]] = f)
      ~> ~(\E k \in 1 .. ReadyCount : frame[ReadyBuffers[k]] = f)
=============================================================================
