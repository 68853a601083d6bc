------------------------------- MODULE CommTx -------------------------------
(***************************************************************************)
(* The transmit half of the host link, Serial/Src/comm_tx.c: threads call  *)
(* COM_TX_Send, which encodes a frame into a ring of buffers; the comm_tx  *)
(* thread sends the frames one by one with the UART's DMA, with a bounded  *)
(* wait for each completion.                                               *)
(*                                                                         *)
(* The UART and its HAL driver are external: a transfer can fail to start, *)
(* complete at any later moment, or never complete.  pb_encode always      *)
(* succeeds, since TX_FRAME_BUF_SIZE is the size of the largest message    *)
(* plus the length prefix, so the error paths of COM_TX_Send are left out. *)
(***************************************************************************)
EXTENDS Integers, FiniteSets

CONSTANTS
  Depth,       \* COM_TX_QUEUE_DEPTH
  StartTries,  \* COM_TX_DMA_START_RETRIES
  Senders,     \* the threads that call COM_TX_Send
  MaxSends,    \* bound: calls of COM_TX_Send per sender
  NONE         \* no thread, no slot, no frame

ASSUME TxAssumption ==
  /\ Depth \in Nat \ {0}
  /\ StartTries \in Nat \ {0}
  /\ IsFiniteSet(Senders)
  /\ MaxSends \in Nat
  /\ NONE \notin Senders \cup Nat \cup (Senders \X Nat)

Slots == 0 .. Depth - 1

\* Frame <<s, n>> is what the n-th call of sender s encodes.
Frames == Senders \X (1 .. MaxSends)

VARIABLES
  free,     \* count of tx_free_sem
  ready,    \* count of tx_ready_sem
  done,     \* count of tx_done_sem
  mutex,    \* the sender that owns tx_mutex, or NONE
  enqueue,  \* tx_enqueue_idx
  dequeue,  \* tx_dequeue_idx
  bufs,     \* tx_frame_bufs: the frame in each slot
  lens,     \* tx_frame_lens: whether the slot has a length other than 0
  sndPC,    \* where each sender is in COM_TX_Send
  sndSlot,  \* slot_idx of each sender
  calls,    \* how often each sender called COM_TX_Send
  txPC,     \* where the comm_tx thread is
  txSlot,   \* its slot_idx
  attempt,  \* its attempt
  dma,      \* the slot the DMA is sending, or NONE
  onWire,   \* history: number of the last frame of each sender on the wire
  lastSent  \* history: the last frame the UART completed

vars == <<free, ready, done, mutex, enqueue, dequeue, bufs, lens, sndPC,
          sndSlot, calls, txPC, txSlot, attempt, dma, onWire, lastSent>>

wireVars  == <<onWire, lastSent>>
threadVars == <<txPC, txSlot, attempt, dequeue>>
senderVars == <<mutex, enqueue, bufs, sndPC, sndSlot, calls>>

Following(i) == (i + 1) % Depth

\* COM_TX_ThreadStart.
Init ==
  /\ free = Depth
  /\ ready = 0
  /\ done = 0
  /\ mutex = NONE
  /\ enqueue = 0
  /\ dequeue = 0
  /\ bufs = [i \in Slots |-> NONE]
  /\ lens = [i \in Slots |-> 0]
  /\ sndPC = [s \in Senders |-> "idle"]
  /\ sndSlot = [s \in Senders |-> 0]
  /\ calls = [s \in Senders |-> 0]
  /\ txPC = "idle"
  /\ txSlot = 0
  /\ attempt = 0
  /\ dma = NONE
  /\ onWire = [s \in Senders |-> 0]
  /\ lastSent = NONE

-----------------------------------------------------------------------------
(* COM_TX_Send. *)

\* A free slot is claimed without waiting.
Claim(s) ==
  /\ sndPC[s] = "idle"
  /\ calls[s] < MaxSends
  /\ free > 0
  /\ free' = free - 1
  /\ calls' = [calls EXCEPT ![s] = @ + 1]
  /\ sndPC' = [sndPC EXCEPT ![s] = "lock"]
  /\ UNCHANGED <<ready, done, mutex, enqueue, bufs, lens, sndSlot, threadVars,
                 dma, wireVars>>

\* No slot is free: the message is dropped silently.
Drop(s) ==
  /\ sndPC[s] = "idle"
  /\ calls[s] < MaxSends
  /\ free = 0
  /\ calls' = [calls EXCEPT ![s] = @ + 1]
  /\ UNCHANGED <<free, ready, done, mutex, enqueue, bufs, lens, sndPC, sndSlot,
                 threadVars, dma, wireVars>>

\* Defect for EncodesApart: tx_mutex is not taken.
LockUnchecked(s) ==
  /\ sndPC[s] = "lock"
  /\ mutex' = s
  /\ sndSlot' = [sndSlot EXCEPT ![s] = enqueue]
  /\ sndPC' = [sndPC EXCEPT ![s] = "encode"]
  /\ UNCHANGED <<free, ready, done, enqueue, bufs, lens, calls, threadVars,
                 dma, wireVars>>

Lock(s) ==
  /\ sndPC[s] = "lock"
  /\ mutex = NONE
  /\ mutex' = s
  /\ sndSlot' = [sndSlot EXCEPT ![s] = enqueue]
  /\ sndPC' = [sndPC EXCEPT ![s] = "encode"]
  /\ UNCHANGED <<free, ready, done, enqueue, bufs, lens, calls, threadVars,
                 dma, wireVars>>

Encode(s) ==
  /\ sndPC[s] = "encode"
  /\ bufs' = [bufs EXCEPT ![sndSlot[s]] = <<s, calls[s]>>]
  /\ sndPC' = [sndPC EXCEPT ![s] = "unlock"]
  /\ UNCHANGED <<free, ready, done, mutex, enqueue, lens, sndSlot, calls,
                 threadVars, dma, wireVars>>

\* The length is stored, the index advanced, and the mutex released.
Unlock(s) ==
  /\ sndPC[s] = "unlock"
  /\ lens' = [lens EXCEPT ![sndSlot[s]] = 1]
  /\ enqueue' = Following(enqueue)
  /\ mutex' = NONE
  /\ sndPC' = [sndPC EXCEPT ![s] = "signal"]
  /\ UNCHANGED <<free, ready, done, bufs, sndSlot, calls, threadVars, dma,
                 wireVars>>

\* tx_ready_sem is put after the mutex was released: another sender can fill
\* the next slot, and signal it, first.
Signal(s) ==
  /\ sndPC[s] = "signal"
  /\ ready' = ready + 1
  /\ sndPC' = [sndPC EXCEPT ![s] = "idle"]
  /\ UNCHANGED <<free, done, mutex, enqueue, bufs, lens, sndSlot, calls,
                 threadVars, dma, wireVars>>

\* The rest of a call that claimed a slot.
FinishSend(s) == Lock(s) \/ Encode(s) \/ Unlock(s) \/ Signal(s)

Sender(s) == Claim(s) \/ Drop(s) \/ FinishSend(s)

-----------------------------------------------------------------------------
(* comm_tx_thread_entry. *)

TakeReady ==
  /\ txPC = "idle"
  /\ ready > 0
  /\ ready' = ready - 1
  /\ txSlot' = dequeue
  /\ txPC' = "drain"
  /\ UNCHANGED <<free, done, lens, attempt, dequeue, senderVars, dma, wireVars>>

\* Stale completion signals are dropped before the next transfer starts.
DrainOne ==
  /\ txPC = "drain"
  /\ done > 0
  /\ done' = done - 1
  /\ UNCHANGED <<free, ready, lens, threadVars, senderVars, dma, wireVars>>

\* Defect for OwnCompletion: a stale completion signal is left in place.
DrainedUnchecked ==
  /\ txPC = "drain"
  /\ attempt' = 0
  /\ txPC' = "start"
  /\ UNCHANGED <<free, ready, done, lens, txSlot, dequeue, senderVars, dma,
                 wireVars>>

Drained ==
  /\ txPC = "drain"
  /\ done = 0
  /\ attempt' = 0
  /\ txPC' = "start"
  /\ UNCHANGED <<free, ready, done, lens, txSlot, dequeue, senderVars, dma,
                 wireVars>>

\* HAL_UART_Transmit_DMA accepts the transfer.
StartDma ==
  /\ txPC = "start"
  /\ dma = NONE
  /\ dma' = txSlot
  /\ txPC' = "wait"
  /\ UNCHANGED <<free, ready, done, lens, txSlot, attempt, dequeue, senderVars,
                 wireVars>>

\* Defect for SlotsConserved: a frame that cannot be started is given up
\* without its slot.
StartFailsLeaks ==
  /\ txPC = "start"
  /\ attempt' = attempt + 1
  /\ txPC' = IF attempt + 1 < StartTries THEN "start" ELSE "idle"
  /\ UNCHANGED <<free, ready, done, lens, txSlot, dequeue, senderVars, dma,
                 wireVars>>

\* HAL_UART_Transmit_DMA fails: retry after a tick, or give the frame up.
StartFails ==
  /\ txPC = "start"
  /\ attempt' = attempt + 1
  /\ txPC' = IF attempt + 1 < StartTries THEN "start" ELSE "free"
  /\ UNCHANGED <<free, ready, done, lens, txSlot, dequeue, senderVars, dma,
                 wireVars>>

\* The completion arrives within COM_TX_DONE_TIMEOUT_TICKS.
DoneInTime ==
  /\ txPC = "wait"
  /\ done > 0
  /\ done' = done - 1
  /\ txPC' = "free"
  /\ UNCHANGED <<free, ready, lens, txSlot, attempt, dequeue, senderVars, dma,
                 wireVars>>

\* Defect for NeverWedged: the wait for the completion is begun anew.
TimesOutNever ==
  /\ txPC = "wait"
  /\ done = 0
  /\ UNCHANGED vars

\* Defect for SendsFinishedFrames: a transfer that timed out is not aborted.
TimesOutUnstopped ==
  /\ txPC = "wait"
  /\ done = 0
  /\ txPC' = "free"
  /\ UNCHANGED <<free, ready, done, lens, txSlot, attempt, dequeue, senderVars,
                 dma, wireVars>>

TimesOut ==
  /\ txPC = "wait"
  /\ done = 0
  /\ txPC' = "abort"
  /\ UNCHANGED <<free, ready, done, lens, txSlot, attempt, dequeue, senderVars,
                 dma, wireVars>>

\* HAL_UART_AbortTransmit stops the transfer, if it still runs.
Abort ==
  /\ txPC = "abort"
  /\ dma' = NONE
  /\ txPC' = "free"
  /\ UNCHANGED <<free, ready, done, lens, txSlot, attempt, dequeue, senderVars,
                 wireVars>>

\* Defect for InOrderOnce: the slot is freed and the next one never looked at.
FreeSlotAgain ==
  /\ txPC = "free"
  /\ lens' = [lens EXCEPT ![txSlot] = 0]
  /\ free' = free + 1
  /\ txPC' = "idle"
  /\ UNCHANGED <<ready, done, txSlot, attempt, dequeue, senderVars, dma,
                 wireVars>>

\* The slot goes back to the senders, whatever became of its frame.
FreeSlot ==
  /\ txPC = "free"
  /\ lens' = [lens EXCEPT ![txSlot] = 0]
  /\ dequeue' = Following(dequeue)
  /\ free' = free + 1
  /\ txPC' = "idle"
  /\ UNCHANGED <<ready, done, txSlot, attempt, senderVars, dma, wireVars>>

TxThread ==
  \/ TakeReady \/ DrainOne \/ Drained \/ StartDma \/ StartFails
  \/ DoneInTime \/ TimesOut \/ Abort \/ FreeSlot

\* The UART has sent the frame: HAL_UART_TxCpltCallback, in an interrupt.
TxCplt ==
  /\ dma # NONE
  /\ dma' = NONE
  /\ done' = done + 1
  /\ lastSent' = bufs[dma]
  /\ onWire' = [onWire EXCEPT ![bufs[dma][1]] = bufs[dma][2]]
  /\ UNCHANGED <<free, ready, lens, threadVars, senderVars>>

-----------------------------------------------------------------------------

\* Every sender has made its last call, and the ring is empty.
Finished ==
  /\ \A s \in Senders : calls[s] = MaxSends /\ sndPC[s] = "idle"
  /\ txPC = "idle" /\ ready = 0
  /\ UNCHANGED vars

Next == (\E s \in Senders : Sender(s)) \/ TxThread \/ TxCplt \/ Finished

Spec == Init /\ [][Next]_vars

\* A thread that can run does run; the UART owes nothing.
FairSpec ==
  /\ Spec
  /\ WF_vars(TxThread)
  /\ \A s \in Senders : WF_vars(FinishSend(s))

-----------------------------------------------------------------------------
(* Properties. *)

TypeOK ==
  /\ free \in 0 .. Depth
  /\ ready \in 0 .. Depth
  /\ done \in 0 .. 1
  /\ mutex \in Senders \cup {NONE}
  /\ enqueue \in Slots
  /\ dequeue \in Slots
  /\ bufs \in [Slots -> Frames \cup {NONE}]
  /\ lens \in [Slots -> {0, 1}]
  /\ sndPC \in [Senders -> {"idle", "lock", "encode", "unlock", "signal"}]
  /\ sndSlot \in [Senders -> Slots]
  /\ calls \in [Senders -> 0 .. MaxSends]
  /\ txPC \in {"idle", "drain", "start", "wait", "abort", "free"}
  /\ txSlot \in Slots
  /\ attempt \in 0 .. StartTries
  /\ dma \in Slots \cup {NONE}
  /\ onWire \in [Senders -> 0 .. MaxSends]
  /\ lastSent \in Frames \cup {NONE}

\* The senders in COM_TX_Send that have claimed a slot and not signalled it.
Sending == {s \in Senders : sndPC[s] # "idle"}

\* Every slot is free, claimed by a sender, ready, or with the comm_tx thread:
\* no interleaving of senders, thread, timeout and interrupt loses a slot.
SlotsConserved ==
  free + Cardinality(Sending) + ready + (IF txPC = "idle" THEN 0 ELSE 1) = Depth

\* No sender writes a slot while the comm_tx thread or the DMA still uses it,
\* although COM_TX_Send does not look whether its slot is in use.
EncodesApart ==
  \A s \in Senders :
    sndPC[s] \in {"encode", "unlock"} =>
      /\ mutex = s
      /\ sndSlot[s] # dma
      /\ txPC # "idle" => sndSlot[s] # txSlot

\* The comm_tx thread only ever sends finished frames, although tx_ready_sem
\* is put outside the mutex, in an order that need not be that of the slots.
SendsFinishedFrames ==
  /\ txPC # "idle" => lens[txSlot] = 1 /\ bufs[txSlot] # NONE
  /\ dma # NONE => dma = txSlot /\ txPC \in {"wait", "abort"}

\* The frames of a sender go out in the order of its calls and at most once,
\* whatever is dropped, retried, timed out or aborted.
InOrderOnce ==
  [][TxCplt => bufs[dma][2] > onWire[bufs[dma][1]]]_vars

\* A completion the thread accepts is the one of its own frame, never a late
\* one of a transfer it had given up ("Drop any stale completion signal",
\* comm_tx.c:379).
OwnCompletion ==
  [][DoneInTime => lastSent = bufs[txSlot] /\ dma = NONE]_vars

\* "Bounded waits keep transient UART faults from wedging the host link
\* forever" (comm_tx.c:77): a full ring gets a free slot again, even if no
\* transfer ever completes.
NeverWedged == (free = 0) ~> (free > 0)
=============================================================================
