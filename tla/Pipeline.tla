------------------------------ MODULE Pipeline ------------------------------
(***************************************************************************)
(* From a camera frame to the host: the DCMIPP interrupt feeds the NN      *)
(* thread, which feeds the PP thread, which publishes the detections that  *)
(* the comm_log thread sends and the UI thread draws (Camera/Src/          *)
(* cam_pipe.c, NN/Src/nn_thread.c, NN/Src/pp_thread.c, Serial/Src/         *)
(* comm_log.c, Display/Src/ui.c).                                          *)
(*                                                                         *)
(* The two buffer queues are channels (FrameChannel, which BufferQueue     *)
(* implements), and the detection buffer is what RcuBuffer guarantees: a   *)
(* reader pins the version last published, and the writer needs a slot     *)
(* that is neither published nor pinned.  The threads interleave freely,   *)
(* which allows more than their priorities do.  The NPU, the camera and    *)
(* the contents of a frame are external: a frame is its number.            *)
(***************************************************************************)
EXTENDS Integers, FiniteSets, Sequences

CONSTANTS
  InputNb,    \* number of NN input buffers: 3
  OutputNb,   \* NN_OUTPUT_BUFFER_COUNT
  SlotCount,  \* RCU_BUFFER_SLOT_COUNT
  MaxFrames,  \* bound: the frames the camera captures
  NULL        \* no frame

ASSUME PipelineAssumption ==
  /\ InputNb \in Nat \ {0}
  /\ OutputNb \in Nat \ {0}
  /\ SlotCount \in Nat \ {0}
  /\ MaxFrames \in Nat
  /\ NULL \notin Nat

VARIABLES
  captured,                \* the last frame the DMA has written
  queued,                  \* history: the frames put ready for the NN
  inWaiting, inHand, inNewest, inDelivered, inDiscarded,       \* NN input queue
  outWaiting, outHand, outNewest, outDelivered, outDiscarded,  \* NN output queue
  nnPC,                    \* where the NN thread is
  drops,                   \* timing.frame_drops of the output of each frame
  inferred,                \* history: the frames the NPU has worked on
  ppPC,                    \* where the PP thread is
  reserved,                \* whether write_buf is not NULL
  published,               \* the frame whose detections are published
  answered,                \* history: the last frame PP is done with
  updated,                 \* update_event_flags
  pinned,                  \* the version each reader has pinned, or NULL
  logPC,                   \* where the comm_log thread is
  sent                     \* history: the last frame comm_log sent

inVars   == <<inWaiting, inHand, inNewest, inDelivered, inDiscarded>>
outVars  == <<outWaiting, outHand, outNewest, outDelivered, outDiscarded>>
camVars  == <<captured, queued>>
nnVars   == <<nnPC, drops, inferred>>
ppVars   == <<ppPC, reserved, published, answered>>
readVars == <<pinned, logPC, sent>>

vars == <<camVars, inVars, outVars, nnVars, ppVars, updated, readVars>>

\* The DMA owns one input buffer all the time, so the queue and the NN thread
\* hold one less than there are.
In == INSTANCE FrameChannel WITH
  Capacity <- InputNb - 1, waiting <- inWaiting, inHand <- inHand,
  newest <- inNewest, delivered <- inDelivered, discarded <- inDiscarded

Out == INSTANCE FrameChannel WITH
  Capacity <- OutputNb, waiting <- outWaiting, inHand <- outHand,
  newest <- outNewest, delivered <- outDelivered, discarded <- outDiscarded

Readers == {"log", "ui"}

\* The startup thread has started the camera; every thread is waiting.
Init ==
  /\ captured = 0
  /\ queued = {}
  /\ In!Init
  /\ Out!Init
  /\ nnPC = "input"
  /\ drops = [f \in 1 .. MaxFrames |-> 0]
  /\ inferred = {}
  /\ ppPC = "wait"
  /\ reserved = FALSE
  /\ published = 0
  /\ answered = 0
  /\ updated = FALSE
  /\ pinned = [r \in Readers |-> NULL]
  /\ logPC = "wait"
  /\ sent = 0

-----------------------------------------------------------------------------
(* The camera interrupt. *)

\* A frame is complete.  With a free buffer for the next one it is put ready;
\* without, the DMA overwrites it.
FrameEvent ==
  /\ captured < MaxFrames
  /\ captured' = captured + 1
  /\ IF In!Occupied < InputNb - 1
     THEN /\ inNewest' = captured'
          /\ In!Publish
          /\ queued' = queued \cup {captured'}
     ELSE UNCHANGED <<inVars, queued>>
  /\ UNCHANGED <<outVars, nnVars, ppVars, updated, readVars>>

-----------------------------------------------------------------------------
(* The NN thread. *)

\* BQUE_GetReadyLatest takes a frame,
TakeInput ==
  /\ nnPC = "input"
  /\ In!Take
  /\ nnPC' = "drain"
  /\ UNCHANGED <<camVars, outVars, drops, inferred, ppVars, updated, readVars>>

\* Defect for DropsAccounted: the first stale frame of a call is not counted.
SkipStaleUncounted ==
  /\ nnPC = "drain"
  /\ inWaiting # <<>>
  /\ inHand' = NULL
  /\ nnPC' = "input"
  /\ UNCHANGED <<inWaiting, inNewest, inDelivered, inDiscarded, camVars,
                 outVars, drops, inferred, ppVars, updated, readVars>>

\* gives it back if a newer one is ready (nn_frame_drop_count is the number
\* of frames discarded),
SkipStale ==
  /\ nnPC = "drain"
  /\ In!Discard
  /\ nnPC' = "input"
  /\ UNCHANGED <<camVars, outVars, drops, inferred, ppVars, updated, readVars>>

\* and returns it if not.
KeepLatest ==
  /\ nnPC = "drain"
  /\ inWaiting = <<>>
  /\ nnPC' = "output"
  /\ UNCHANGED <<camVars, inVars, outVars, drops, inferred, ppVars, updated,
                 readVars>>

\* The thread blocks until an output buffer is free.
GetOutput ==
  /\ nnPC = "output"
  /\ Out!Occupied < OutputNb
  /\ nnPC' = "run"
  /\ UNCHANGED <<camVars, inVars, outVars, drops, inferred, ppVars, updated,
                 readVars>>

\* The inference is done: the timing is stored with its output, and the input
\* buffer is released.
FinishInference ==
  /\ nnPC = "run"
  /\ drops' = [drops EXCEPT ![inHand] = inDiscarded]
  /\ inferred' = inferred \cup {inHand}
  /\ nnPC' = "ready"
  /\ UNCHANGED <<camVars, inVars, outVars, ppVars, updated, readVars>>

\* The input buffer goes back and the output is put ready.
HandOver ==
  /\ nnPC = "ready"
  /\ In!Release
  /\ outNewest' = inHand
  /\ Out!Publish
  /\ nnPC' = "input"
  /\ UNCHANGED <<camVars, drops, inferred, ppVars, updated, readVars>>

NN ==
  \/ TakeInput \/ SkipStale \/ KeepLatest \/ GetOutput \/ FinishInference
  \/ HandOver

-----------------------------------------------------------------------------
(* The PP thread. *)

TakeOutput ==
  /\ ppPC = "wait"
  /\ Out!Take
  /\ ppPC' = "reserve"
  /\ UNCHANGED <<camVars, inVars, nnVars, reserved, published, answered,
                 updated, readVars>>

\* The versions that still occupy a slot.
InUse == ({published} \cup {pinned[r] : r \in Readers}) \ {NULL}

\* RCU_WriteReserve: without a slot the detections are dropped.
Reserve ==
  /\ ppPC = "reserve"
  /\ reserved' = (Cardinality(InUse) < SlotCount)
  /\ ppPC' = "publish"
  /\ UNCHANGED <<camVars, inVars, outVars, nnVars, published, answered, updated,
                 readVars>>

Publish ==
  /\ ppPC = "publish"
  /\ published' = IF reserved THEN outHand ELSE published
  /\ ppPC' = "release"
  /\ UNCHANGED <<camVars, inVars, outVars, nnVars, reserved, answered, updated,
                 readVars>>

\* Defect for EveryFrameAnswered: the output buffer is released only if the
\* detections were published.
ReleaseOutputIfPublished ==
  /\ ppPC = "release"
  /\ IF reserved
     THEN Out!Release /\ answered' = outHand
     ELSE UNCHANGED <<outVars, answered>>
  /\ ppPC' = "signal"
  /\ UNCHANGED <<camVars, inVars, nnVars, reserved, published, updated,
                 readVars>>

ReleaseOutput ==
  /\ ppPC = "release"
  /\ Out!Release
  /\ answered' = outHand
  /\ ppPC' = "signal"
  /\ UNCHANGED <<camVars, inVars, nnVars, reserved, published, updated,
                 readVars>>

\* PP_SignalUpdate, if the detections were published.
SignalUpdate ==
  /\ ppPC = "signal"
  /\ updated' = (updated \/ reserved)
  /\ ppPC' = "wait"
  /\ UNCHANGED <<camVars, inVars, outVars, nnVars, reserved, published,
                 answered, readVars>>

PP == TakeOutput \/ Reserve \/ Publish \/ ReleaseOutput \/ SignalUpdate

-----------------------------------------------------------------------------
(* The readers. *)

\* PP_AcquireInfo and PP_ReleaseInfo.
Pin(r) == pinned' = [pinned EXCEPT ![r] = published]
Unpin(r) == pinned' = [pinned EXCEPT ![r] = NULL]

\* comm_log takes the event flag, which clears it.
LogWake ==
  /\ logPC = "wait"
  /\ updated
  /\ updated' = FALSE
  /\ logPC' = "acquire"
  /\ UNCHANGED <<camVars, inVars, outVars, nnVars, ppVars, pinned, sent>>

LogAcquire ==
  /\ logPC = "acquire"
  /\ Pin("log")
  /\ logPC' = "send"
  /\ UNCHANGED <<camVars, inVars, outVars, nnVars, ppVars, updated, sent>>

\* Defect for EveryResultSent: the event flag is cleared after the message is
\* sent, not when it is taken.
LogSendClears ==
  /\ logPC = "send"
  /\ sent' = pinned["log"]
  /\ Unpin("log")
  /\ updated' = FALSE
  /\ logPC' = "wait"
  /\ UNCHANGED <<camVars, inVars, outVars, nnVars, ppVars>>

LogSend ==
  /\ logPC = "send"
  /\ sent' = pinned["log"]
  /\ Unpin("log")
  /\ logPC' = "wait"
  /\ UNCHANGED <<camVars, inVars, outVars, nnVars, ppVars, updated>>

Log == LogWake \/ LogAcquire \/ LogSend

\* The UI thread draws the published detections now and then.  A command of
\* the host can suspend it while it has them pinned.
DrawAcquire ==
  /\ pinned["ui"] = NULL
  /\ Pin("ui")
  /\ UNCHANGED <<camVars, inVars, outVars, nnVars, ppVars, updated, logPC, sent>>

DrawRelease ==
  /\ pinned["ui"] # NULL
  /\ Unpin("ui")
  /\ UNCHANGED <<camVars, inVars, outVars, nnVars, ppVars, updated, logPC, sent>>

UI == DrawAcquire \/ DrawRelease

-----------------------------------------------------------------------------

Next == FrameEvent \/ NN \/ PP \/ Log \/ UI

Spec == Init /\ [][Next]_vars

\* Each thread gets the processor.  Nothing is assumed of the camera, nor of
\* the UI thread, which may stay suspended.
FairSpec == Spec /\ WF_vars(NN) /\ WF_vars(PP) /\ WF_vars(Log)

-----------------------------------------------------------------------------
(* Properties. *)

Frames == 1 .. MaxFrames

TypeOK ==
  /\ captured \in 0 .. MaxFrames
  /\ queued \subseteq Frames
  /\ inWaiting \in Seq(Frames) /\ outWaiting \in Seq(Frames)
  /\ inHand \in Frames \cup {NULL} /\ outHand \in Frames \cup {NULL}
  /\ In!Occupied <= InputNb - 1 /\ Out!Occupied <= OutputNb
  /\ nnPC \in {"input", "drain", "output", "run", "ready"}
  /\ drops \in [Frames -> 0 .. MaxFrames]
  /\ ppPC \in {"wait", "reserve", "publish", "release", "signal"}
  /\ inferred \subseteq Frames
  /\ reserved \in BOOLEAN
  /\ answered \in 0 .. MaxFrames
  /\ published \in 0 .. MaxFrames
  /\ updated \in BOOLEAN
  /\ pinned \in [Readers -> 0 .. MaxFrames \cup {NULL}]
  /\ logPC \in {"wait", "acquire", "send"}
  /\ sent \in 0 .. MaxFrames

UpTo(set, f) == {g \in set : g <= f}

\* The drop count that goes out with a frame's detections is exact: together
\* with the frames inferred it makes up all frames that were put ready until
\* then.  (Frames the DMA overwrites, no buffer being free, are not counted.)
DropsAccounted ==
  \A f \in inferred :
    drops[f] + Cardinality(UpTo(inferred, f)) = Cardinality(UpTo(queued, f))

\* Whatever the NN thread skips and however slow PP is, every frame put ready
\* is answered, by its own detections or by those of a newer frame.
EveryFrameAnswered == \A f \in Frames : (f \in queued) ~> (answered >= f)

\* Published detections, or newer ones, reach the host's queue: the update
\* flag is never lost between PP and comm_log, and a UI thread suspended for
\* ever with a version pinned holds nothing up.
EveryResultSent == \A f \in Frames : (published = f) ~> (sent >= f)
=============================================================================
