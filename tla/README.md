# A verification of the ThreadX firmware in `src/`

TLA+ modules that model the concurrent core of the firmware (an STM32N6
board that detects persons in a camera picture with a neural network, fuses
them with a time-of-flight sensor and talks to a host over a UART), TLC
configurations that check them on small instances, and proofs for every size.
All paths below are relative to `src/`.

## 1. The system

One core under ThreadX, no time slices: a thread runs until it blocks or until
a thread of higher priority (a lower number) becomes ready. The threads
(`Appli/Config/Inc/thread_config.h`): startup 1, PP 4, NN 5, ToF 6, fusion 7,
LCD reload 7, ISP 8, comm_rx 9, comm_tx 10, comm_log 11, UI 12, CPU load 31.
Interrupts: the camera's frame events, UART receive and transmit completion.

| Component | State | Operations | Talks to |
|---|---|---|---|
| Buffer queue (`Util/Src/bqueue.c`) | two semaphores, two indices, the buffers | GetFree, PutReady (producer); GetReady, GetReadyLatest, PutFree (consumer) | camera interrupt → NN thread, NN thread → PP thread |
| RCU buffer (`Util/Inc/rcu_buffer.h`) | published slot, one reader count per slot | WriteReserve, WritePublish; ReadAcquire, ReadRelease | PP → comm_log, UI; ToF, PP → fusion; fusion → comm_log, UI |
| Detection pipeline (`cam_pipe.c`, `nn_thread.c`, `pp_thread.c`, `comm_log.c`) | the two queues, drop count, published detections, update flag | frame event, inference, post-processing, send, draw | the two above |
| Runtime configuration (`pp_thread.c`, `comm_cmd.c`) | requested and active configuration, each with a sequence number | request, apply, report | comm_rx ↔ PP |
| Receive parser (`Serial/Src/comm_rx.c`) | byte ring, overflow flag, semaphore, frame buffer | receive and error interrupt, parser loop | UART, command handlers |
| Transmit queue (`Serial/Src/comm_tx.c`) | frame slots, three semaphores, a mutex, two indices | `COM_TX_Send`, transmit thread, completion interrupt | every sending thread, UART DMA |
| Commands (`comm_cmd.c`) | display state, host seen | set display, device info, TraceX dump, set configuration | PP, UI, display, transmit queue |
| Tracker (`Libraries/tracker`) | track boxes in lists, lost counts, ids | match in two rounds, lose, free, begin tracks | called by PP, which hands the persons on |
| ToF fusion (`Sensor/Src/tof_fusion.c`) | person detections, EMA table, alert threshold, LED | fuse, age the table, set persons and threshold | PP, ToF, comm_log, UI |
| Display and UI (`Display/Src`, `Camera/Src`) | two layers, suspended threads, camera interrupt | reload either layer, suspend and resume | commands, camera |
| Host tools (`scripts/`) | commands in flight, display state | send, match Acks, reconnect | UART |

What makes each correct:

* **Buffer queue**: producer and consumer never own one buffer at a time;
  no buffer is lost; GetReadyLatest returns the newest frame and reports what it
  skipped; nothing published stays behind.
* **RCU buffer**: a reader sees one version, and never an older one than
  before; the writer is never blocked by readers for good.
* **Pipeline**: every frame put ready is answered by its own result or a newer
  one; the newest result reaches the host; the drop count is exact.
* **Runtime configuration**: frames and reports use whole configurations, the
  frame's the latest; PP gets past the exchange.
* **Receive parser**: bytes in order, commands dispatched, resynchronisation
  after a loss.
* **Transmit queue**: frames whole, in order and at most once; slots return
  whatever the UART does.
* **Tracker**: the persons handed on are those in the picture; an id belongs to
  one track for ever; a box comes back in time, and a new person finds one.
* **Fusion**: one table entry per track, given up in time; what PP publishes is
  fused; a person who stays near raises an alert that stays.
* **Display**: the controller is used only while it is on, by one thread at a
  time, wherever a command finds the threads; the overlay comes back.
* **Commands and host**: Acks without a name find their commands, so that the
  host shows the display as it is.

The hard behaviours are preemption between any two statements, lock-free
indices, interrupts that race with a thread's test, timeouts that race with
late completions, lost bytes, threads suspended from outside, and priorities
that turn a spin loop into a livelock. `PROJECT.json` lists each at its line.

## 2. Modules

Each `MC*` module extends a component's module for TLC. Each `*_proof` module
holds its theorems. Operators named `...Unchecked`, `...Late` and so on, each
commented "Defect for P", are plausible bugs: with one of them in place of the
original, TLC finds P violated. They are not part of any specification.

* **`BufferQueue`** – `bqueue.c`. `freeSem`, `readySem`, `freeIdx` and
  `readyIdx` are the fields of `bqueue_t`. A semaphore call and the index access
  after it are two actions (`GetFree`/`GetFreeIndex`,
  `GetReady`/`GetReadyIndex`, `DrainTake`/`DrainFree`/`GetReadyIndex`), since an
  interrupt can come between. `prodHeld` may hold two buffers: the camera has the
  next one before it puts the last one ready. `Fill` is the DMA or the NPU.
* **`FrameChannel`** – the promise of such a queue: an atomic bounded FIFO whose
  consumer may discard the frame in its hand for a newer one.
  `BufferQueue!ImplementsChannel` is the refinement.
* **`RcuBuffer`** – `rcu_buffer.h`. The sections between `TX_DISABLE` and
  `TX_RESTORE` are single actions; everything else is a step per access. A slot
  holds two words, standing for any two fields of the data.
* **`Snapshot`** – the promise of such a buffer: a reader that acquires the data
  holds the last version as a whole until it releases it. The refinement is
  `RcuBuffer!ImplementsSnapshot`.
* **`CommTx`** – `comm_tx.c`: any number of senders, the thread, the UART. The
  UART may refuse a transfer, complete it late or never.
* **`CommRx`** – `comm_rx.c`. A byte is its position in the stream of frames the
  host sends. A prefix that is read out of step can say any length; a payload
  decodes if its bytes are where they are in a message. Names that `CommTx` has
  too carry an Rx, since `Comm_proof` extends both modules.
* **`RuntimeConfig`** – the two sequence locks between comm_rx and PP. A step of
  comm_rx requires that PP is blocked (`ppPC = "wait"`), because of the priorities;
  an inference can finish, and PP preempt, between any two of them. Copies are
  made field by field in any order.
* **`Pipeline`** – composes two `FrameChannel`s, the RCU buffer as `RcuBuffer`
  guarantees it, and the five parties. A frame is its number.
* **`Tracker`** – `tracker.c` and the part of `pp_thread.c` that fills
  `person_detections_t`. `list` says in which linked list a box is, while
  `tracking` (is_tracking) and `lostCnt` are what PP reads instead. A frame is
  `BeginFrame`, matches (`MatchHigh`, `HighDone`, `MatchLow`), `UpdateLost`, and
  `AddTrack` or `RefuseTrack` for every detection left; `ListPersons` ends it.
  `limit` is `tlost_cnt`, which a command of the host may change between frames.
* **`Fusion`** – `tof_fusion.c`. A run of the thread is `WakeUp`,
  `AcquireStale` or `AcquirePaired`, then for each person `NoDepth` or
  `Measure`, then `Age`, which also decides on the alert. Distances are levels
  1 (nearest) to `Far`.
* **`DisplayControl`** – `handle_set_display_enabled` of `comm_cmd.c`, one action
  for each call, against the LCD reload thread (`cam_pipe.c`), the UI thread
  (`ui.c`) and the camera interrupt. The two reload functions of `display.c` are
  split where the camera interrupt is disabled.
* **`HostLink`** – composes `DisplayControl` with the rest of the command
  dispatch, the line, and `receiver_loop` of `scripts/visualizer_runtime.py`.

## 3. What the runs check

| Run | Instance | Shows |
|---|---|---|
| `bqueue` | 3 buffers, 6 frames | `OwnersApart`, `NoBufferLost` (the ceiling put cannot fail), `ReturnsNewest`, `ImplementsChannel`, `EveryFrameTaken` |
| `rcu` | 3 slots, 3 readers, one suspendable, 3 versions | `CountsExact`, `WriterApart`, `ImplementsSnapshot`, `NeverOlder`, `WriterProgress` |
| `comm_tx` | 2 slots, 2 start attempts, 2 senders with 3 frames | `SlotsConserved`, `EncodesApart`, `SendsFinishedFrames`, `InOrderOnce`, `OwnCompletion`, `NeverWedged` |
| `runtime_config` | 3 fields, 3 requests | `FramesUseLatest`, `ReportsWhole`, `ReportsNeverOlder`, `InfoAnswered` |
| `comm_rx` | ring of 4, 2 frames of 2 + 2 bytes, longest message 3 | `BytesInOrder`, `InStep`, `DrainsRing`, `EveryCommandDispatched`, `RxTypeOK` (the frame buffer is never overrun) |
| `pipeline` | 3 input and 2 output buffers, 3 slots, 5 frames | `DropsAccounted`, `EveryFrameAnswered`, `EveryResultSent` |
| `tracker` | 4 boxes, 2 detections a frame, 1 person handed on, limits 1 to 3, 5 tracks | `PersonsAreCurrent`, `IdsNeverReused`, `OverdueOnlyIfLowered`, `RefusedOnlyByOldTracks` |
| `fusion` | 3 tracks, 2 entries, eviction after 2 misses, 2 distances | `OneEntryPerTrack`, `EvictedInTime`, `NewDetectionsFused`, `NearPersonAlerts` |
| `host_link` | 3 commands, 1 reconnection | `HostShowsDisplay`, `NoPanic`, `SectionsApart`, `OverlayReturns` |
| `runtime_config_livelock` | 2 fields, 1 request | **violated**: `AppliedAtFrameBoundary` |
| `comm_rx_resync` | as `comm_rx` | **violated**: `NothingAcrossGap` |
| `display_irq` | `DisplayControl` alone, any commands | **violated**: `CameraInterruptsReturn` |

Three of the properties are worth a word. `OverdueOnlyIfLowered` and
`RefusedOnlyByOldTracks` say how far the tracker's equality test at
`tracker.c:242` and its fixed number of boxes can go wrong: a track stays too
long only if the host lowered the limit past its count, and a person is refused
only for a track lost at least twice. `HostShowsDisplay` holds until the first
dropped Ack or broken line (`disturbed`); after that the host's pairing may be off
by one for good, which `PROJECT.json` lists as a hazard.

`TypeOK` of the other modules is not in a cfg because it is proved (section 5;
that of `DisplayControl` as a part of `HostLink_proof`'s invariant).

The three violations are findings:

* **PP can spin for ever** (`NN/Src/pp_thread.c:205-214`). While
  `runtime_cfg_req_seq` is odd PP reads it again without blocking. The only
  thread that makes it even is comm_rx, which has a lower priority. When an
  output of the network preempts comm_rx between lines 383 and 387, the firmware
  stops working on frames.
* **Resynchronisation comes too early** (`Serial/Src/comm_rx.c:130-134`). The
  overflow flag is consumed while bytes from before the gap are still in the
  ring, and the inner loop at 157-159 does not look at it; a message put together
  from both sides of a gap is dispatched if it decodes (there is no checksum).
  The model lets such a message decode because the host's messages are alike.
* **The camera interrupt stays disabled while the display is off**
  (`Display/Src/display.c:204-211`). comm_rx may suspend the UI thread where
  `LCD_ReloadUILayer` has the DCMIPP interrupt disabled; nothing enables it until
  the display is on again. The ISP thread and the NN pipe live on that interrupt,
  and `Camera/Src/cam.c:83` means to leave them running.

### Bounds, and why they are enough

* `MaxFrames`, `MaxVersions`, `MaxSends`, `MaxRequests` limit how much the
  environment does. Rings wrap around within them: six frames go twice through
  three buffers, three sends by each of two senders three times through two
  slots, eight bytes twice through a ring of four. Three versions, with the
  initial one, use every slot of the RCU buffer.
* `tracker`: two detections a frame is the least at which tracks compete, and
  gives the four boxes the code would have; a lost track outlives two limits
  under `MaxLost` = 3; five tracks use every box and one again. `MaxIds` bounds
  `next_id`. The boxes are symmetric. `fusion`: more tracks than entries, so that
  one waits for an eviction; with two distances an average takes at most one
  step. `host_link`: off, on and any third command around or between them.
* Buffer counts of `bqueue`, `rcu` and `pipeline` are the firmware's own (3
  input buffers, `NN_OUTPUT_BUFFER_COUNT` = 2, `RCU_BUFFER_SLOT_COUNT` = 3).
  `comm_tx` has 2 slots for 8 and 2 attempts for 3, `comm_rx` a ring of 4 for
  2048 and frames of 4 bytes: the smallest sizes at which full, empty, wrapped,
  retried and out-of-step all happen. The invariants proved in section 5 hold for
  every size.
* The reader count is a 16-bit integer and the sequence numbers are 32 bits;
  neither overflows: a count is at most the number of threads (`CountsExact`), and
  a sequence number would need 2^31 commands.

### Fairness

Weak fairness of a thread says that a thread which stays ready runs in the
end; on this system that means that the threads above it block now and then.
They do, since each ends its loop in a blocking call, with the one exception the
livelock run shows. Not assumed: that the camera delivers, that the host sends,
that the UART completes, or that the UI thread runs at all (it can be suspended,
holding what it holds). `comm_rx` in `RuntimeConfig` gets strong fairness, since
it is preempted again and again but resumed each time PP blocks; PP itself has
weak fairness only, and no assumption helps it when it spins. The threads of
`DisplayControl` get strong fairness for the same reason, with `[]<>~LcdReady`: a
reload takes less than a camera frame, so that the LCD reload thread leaves time
for those below. In `Fusion`, PP goes on publishing a person who stays (weak
fairness while `stayed`), and `SF_vars(Approaches)` says that a moving average fed
with one value moves towards it, which the weight `TOF_EMA_ALPHA` > 0 gives.
`Tracker` has invariants only and needs none.

`CHECK_DEADLOCK` is on in every run; `Finished` marks the states in which a
bound is used up.

## 4. Abstractions

* One core: caches and barriers are taken as effective, and a word access is
  atomic. Two threads interleave between words.
* `RcuBuffer`, `BufferQueue`, `CommTx`, `CommRx` and `Pipeline` let threads
  interleave freely, which includes what the priorities allow.
  `RuntimeConfig`, `DisplayControl` and `HostLink` depend on priorities.
* `Tracker`: the Kalman filter and the overlap of boxes are data; a detection may
  match any track that is left, or none. `Fusion`: the depth found for a person
  and the outcome of comparing time stamps are data; a smoothed distance is any
  level from the old one to the new measurement. The grid, the persons and the
  alert are handed over as `RcuBuffer` guarantees.
* `DisplayControl`: what is drawn, which of the two buffers is shown and the
  clocks of the controller are left out. `HostLink`: the line delivers in order;
  what the transmit queue drops is any message (`CommTx` says when).
* `BUFFER`s hold a number, a message is `<<sender, n>>`, a byte its position, a
  configuration field the number of the request that wrote it.
* ThreadX semaphores, mutexes and event flags, HAL and nanopb are external and
  modelled by their contract; an `APP_REQUIRE` that could fail is a state
  (`health` in `BufferQueue`) or argued away in the module's comment (`CommTx`).
* `Pipeline` stops where `COM_TX_Send` is called; `CommTx` says what happens
  then.

## 5. What is proved

For every value of the constants (TLAPS, no unproved step):

* `BufferQueue_proof`: `TypeCorrect`, `NoBufferIsLost`, `OwnersAreApart`,
  `QueueImplementsChannel`, `LatestIsNewest`. Type correctness and conservation
  alone are not inductive. The inductive invariant `IndInv` adds where the buffers
  are: in ring order from `readyIdx` come the ready ones, then the producer's,
  then the free ones up to the one in the consumer's hand. Ownership follows,
  because the counts add up to no more than the ring. For the refinement,
  `InRingOrder` says what the mapped sequence is, `SkipsInCall` where skips are
  counted; PutReady, GetReadyIndex, DrainFree and PutFree are the channel's four
  actions and every other step stutters. `NewestLast` gives `LatestIsNewest`.
  Assumes `QueueAssumption` (at least one buffer).
* `RcuBuffer_proof`: `TypeCorrect`, `CountsAreExact`, `WriterIsApart`,
  `ReadersSeeOneVersion`, `ReadersNeverGoBack`, `SlotsImplementSnapshot`. `IndInv`
  says that the slot under way is neither published nor pinned, that each published
  slot has both words equal to the version, and that a pinned slot's words agree
  and are not older than what the reader saw. Exactness of the counts is what lets
  the writer's single test stand for the whole fill. For the refinement a reader
  holds the version in its slot from the check that makes its token active: it is
  the last one at that moment, and no step but the release changes it
  (`WriterImplements`, `ReaderImplements`), so that pins, retries and the writer's
  search stutter. Assumes `RcuAssumption` (some slots, finitely many readers).
* `RuntimeConfig_proof`: `TypeCorrect`, `FramesAreConsistent`, `ReportsAreWhole`,
  `ReportsNeverGoBack`. `IndInv` ties each sequence number to the step of its
  writer and each partial copy to the number it was begun with.
* `Comm_proof`, on `CommTx`: `TypeCorrect`, `NoSlotIsLost`, `SendersStayApart`,
  `OnlyFinishedFramesAreSent`, `FramesGoOutInOrder`, `CompletionsAreOwn`. `Ring`
  makes semaphores and indices agree (the slots in use are those from
  `tx_dequeue_idx` on), `Owners` ties a sender to its slot through the mutex,
  `Wire` ties the DMA to the thread's slot. `Order` says that the slots in use,
  from the oldest on, hold each sender's frames in the order of its calls, all
  younger than the last one on the wire; only the oldest may be on the wire
  already. `Accepted` says that a completion signal the thread finds while it
  waits is of the frame it started: it drained the older ones, and the UART
  completes nothing it was told to abort. Assumes `TxAssumption` (at least one
  slot, finitely many senders).
* `Comm_proof`, on `CommRx`: `ReceiverTypeCorrect`, `RingKeepsOrder`,
  `ParserInStep`. `InRing` is `BytesInOrder` by slots: the slots from the tail to
  the head hold exactly the bytes that came, were not lost and were not taken, in
  order. `Reading` is what the thread knows at each place, in particular that the
  byte it copied is still the one at the tail when it gives the slot back.
  `Counted` bounds each count by the stream (every dispatch uses up two bytes or
  more). `Aligned` says that the bytes taken end where the buffer ends and that
  `need` is the length of the host's frames while nothing is lost, so that the
  parser neither shifts nor fails to decode; that a place in the stream has one
  remainder modulo the frame length is the lemma `Remainder`. Assumes
  `RxAssumption` (two slots or more, a prefix, messages no longer than the
  longest).
* `Tracker_proof`: `TypeCorrect`, `PersonsAreOfThisFrame`, `TrackIdsAreUnique`,
  `OverdueTracksWereOvertaken`, `OldTracksTakeTheBoxes`. `Placed` makes flags and
  counts agree with the lists, `Named` gives the boxes in use ids of their own,
  `Due` says how a count passes the limit, `Counted` that a frame's boxes are no
  more than its detections. Assumes `TrackerAssumption` (twice as many boxes as
  detections).
* `Fusion_proof`: `TypeCorrect`, `TracksHaveOneEntry`, `LostTracksLeaveInTime`.
  `Ageing` extends what holds between two runs to the middle of one. Assumes
  `FusionAssumption`.
* `Pipeline_proof`: `TypeCorrect`, `DropCountsAreExact`, `HandOverAlwaysSucceeds`,
  `ResultsNeverGoBack`. `InOrder` says that the frames that have left the input
  queue are older than those that wait, and the one in hand the youngest of them;
  `Counted` that each was dropped, inferred or is in hand. The last two theorems
  state what no run does. They need `Onward`: the outputs on their way are of
  frames inferred before the one in the NN thread's hand and wait in order, PP
  publishes only what it is not past, and comm_log's pin lies between what was
  sent and what is published. TLC checked `Onward` before it was proved. Assumes `PipelineAssumption` (at least one buffer and slot).
* `HostLink_proof`: `TypeCorrect`, `ImplementsDisplayControl`,
  `DisplayNeverPanics`, `SectionsStayApart`, `HostShowsTheDisplay`. Host and line
  send some sequence of SetDisplayEnabled, so the composition implements
  `DisplayControl`; its invariant `InTurn` says which calls of the command are done
  at each place of comm_rx, `Sections` that a disabled camera interrupt keeps the
  LCD reload thread waiting. `HostShowsTheDisplay` needs to know which command
  each unnamed Ack is for: `Tracked` says that there is a sequence of commands
  whose answers are on the line, whose next is in hand and whose rest wait, that
  the host's lists enumerate those of them that need an Ack and those that set
  the display, and that the display is as the last one done left it. TLC checked
  `Tracked` before it was proved.

Each listed theorem that names a property in `PROJECT.json` is also checked by a
run. The proofs need no fairness.

## 6. What is only model-checked, and why

Liveness (`EveryFrameTaken`, `WriterProgress`, `NeverWedged`, `InfoAnswered`,
`DrainsRing`, `EveryCommandDispatched`, `EveryFrameAnswered`, `EveryResultSent`,
`NewDetectionsFused`, `NearPersonAlerts`, `OverlayReturns`) and `ENABLED` are
outside what the prover does, and so are inductions over data and recursive
operators. Every invariant and every action property that a passing run checks
is proved, and so are the refinements `ImplementsChannel` and
`ImplementsSnapshot`. The invariants of `DisplayControl` are
proved where the host's commands reach it, in `HostLink`. The three violations
are TLC's counterexamples.

## 7. Not modelled, and why

* **Networks and libraries.** More than nine tenths of the lines of the
  repository are network weights and schedules generated for the NPU
  (`Networks/`), the vendor's AI runtime and post-processing (`Libraries/AI`) and
  the protocol encoders generated by nanopb. They are data or numeric code without
  concurrent state of their own; an inference is one step of `Pipeline`, a message
  is abstract in `CommTx` and `CommRx`. The share of lines the modules cover is
  small for this reason.
* **ToF sensor driver**: I2C transactions with an external library; its
  publication of the grid is an instance of `RcuBuffer`.
* **Drawing, camera, ISP and clock set-up, boot loader**: straight-line code
  around external drivers.
* **TraceX dump** (`comm_cmd.c:98`): a loop of messages, which `CommTx` may drop; no
  retry and no state of its own.
* **CPU load**: a sequence lock as in `RuntimeConfig`; a module would repeat it.
* **Scripts** other than the receiver loop: user interface, plots, files, builds.

What would extend the project: snapshot mode of the camera and the other three
messages of comm_log in `Pipeline`, the buffer indices of the display pipe in
`DisplayControl`.
