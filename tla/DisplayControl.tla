--------------------------- MODULE DisplayControl ---------------------------
(***************************************************************************)
(* Turning the display off and on while it is in use.  comm_rx             *)
(* (Serial/Src/comm_cmd.c) stops and restarts what feeds the display:      *)
(*   - the display pipe of the camera, whose frame interrupt (DCMIPP)      *)
(*     wakes the LCD reload thread (Camera/Src/cam_pipe.c, cam.c),         *)
(*   - the LCD reload thread, priority 7, that shows the camera frame,     *)
(*   - the UI thread, priority 12, that draws and shows the overlay        *)
(*     (Display/Src/ui.c),                                                 *)
(*   - the LTDC controller they both write (Display/Src/display.c).        *)
(*                                                                         *)
(* A thread runs only while no thread of higher priority is ready: the LCD *)
(* reload thread preempts comm_rx, priority 9, which preempts the UI       *)
(* thread anywhere and may suspend it there.  A thread that is suspended   *)
(* while it waits stops as soon as its wait is over.  What is drawn, and   *)
(* the clocks of the controller, are left out.                             *)
(***************************************************************************)

VARIABLES
  displayEnabled, \* display_enabled of comm_cmd.c
  lcdInitialized, \* lcd_initialized of display.c
  pipe,           \* the display pipe: "on", "last" (a last frame), or "off"
  irqOn,          \* DCMIPP_IRQn is enabled
  rxPC,           \* what comm_rx does next for a SetDisplayEnabled
  lcdPC,          \* where the LCD reload thread is
  lcdSuspended,   \* it is, or will be, suspended
  reloadFlag,     \* reload_flags, while the thread does not wait for them
  uiPC,           \* where the UI thread is
  uiSuspended,    \* it is, or will be, suspended
  uiVisible,      \* g_ui_visible
  health          \* "panicked" once an APP_REQUIRE has failed

rxVars  == <<displayEnabled, rxPC>>
lcdVars == <<lcdPC, lcdSuspended, reloadFlag>>
uiVars  == <<uiPC, uiSuspended, uiVisible>>
vars == <<rxVars, lcdInitialized, pipe, irqOn, lcdVars, uiVars, health>>

\* After main() and the start of all threads.
Init ==
  /\ displayEnabled = TRUE
  /\ lcdInitialized = TRUE
  /\ pipe = "on"
  /\ irqOn = TRUE
  /\ rxPC = "idle"
  /\ lcdPC = "wait"
  /\ lcdSuspended = FALSE
  /\ reloadFlag = FALSE
  /\ uiPC = "sleep"
  /\ uiSuspended = FALSE
  /\ uiVisible = TRUE
  /\ health = "running"

\* APP_REQUIRE(lcd_initialized).
RequireLcd == health' = IF lcdInitialized THEN health ELSE "panicked"

-----------------------------------------------------------------------------
(* The camera interrupt and the LCD reload thread. *)

\* cam_display_pipe_frame_event: the reload is left to the thread.  The event
\* ends its wait, or stays set until it waits again.
DisplayFrame ==
  /\ pipe # "off" /\ irqOn
  /\ pipe' = IF pipe = "last" THEN "off" ELSE pipe
  /\ IF lcdPC = "wait"
     THEN lcdPC' = "woken" /\ UNCHANGED reloadFlag
     ELSE reloadFlag' = TRUE /\ UNCHANGED lcdPC
  /\ UNCHANGED <<rxVars, lcdInitialized, irqOn, lcdSuspended, uiVars, health>>

\* No frame was under way when the pipe was stopped.
NoLastFrame ==
  /\ pipe = "last"
  /\ pipe' = "off"
  /\ UNCHANGED <<rxVars, lcdInitialized, irqOn, lcdVars, uiVars, health>>

LcdReady == lcdPC # "wait" /\ ~lcdSuspended

\* LCD_ReloadCameraLayer: up to the address of the layer,
ReloadCameraLayer ==
  /\ lcdPC = "woken" /\ LcdReady
  /\ RequireLcd
  /\ irqOn' = FALSE
  /\ lcdPC' = "section"
  /\ UNCHANGED <<rxVars, lcdInitialized, pipe, lcdSuspended, reloadFlag, uiVars>>

\* and from its reload to the next wait.
CameraLayerReloaded ==
  /\ lcdPC = "section" /\ LcdReady
  /\ irqOn' = TRUE
  /\ lcdPC' = IF reloadFlag THEN "woken" ELSE "wait"
  /\ reloadFlag' = FALSE
  /\ UNCHANGED <<rxVars, lcdInitialized, pipe, lcdSuspended, uiVars, health>>

LcdReload == ReloadCameraLayer \/ CameraLayerReloaded

-----------------------------------------------------------------------------
(* The UI thread. *)

UiRuns == ~uiSuspended /\ rxPC = "idle" /\ ~LcdReady

\* A frame begins: LCD_SetUILayerAddress sets where to draw.
BeginUIFrame ==
  /\ UiRuns
  /\ uiPC = "sleep" /\ uiVisible
  /\ RequireLcd
  /\ uiPC' = "draw"
  /\ UNCHANGED <<rxVars, lcdInitialized, pipe, irqOn, lcdVars, uiSuspended, uiVisible>>

\* Defect for SectionsApart: the camera interrupt is not kept out.
ReloadUILayerUnmasked ==
  /\ UiRuns
  /\ uiPC = "draw"
  /\ RequireLcd
  /\ uiPC' = "section"
  /\ UNCHANGED <<rxVars, lcdInitialized, pipe, irqOn, lcdVars, uiSuspended, uiVisible>>

\* The frame is drawn.  LCD_ReloadUILayer: up to the address of the layer,
ReloadUILayer ==
  /\ UiRuns
  /\ uiPC = "draw"
  /\ RequireLcd
  /\ irqOn' = FALSE
  /\ uiPC' = "section"
  /\ UNCHANGED <<rxVars, lcdInitialized, pipe, lcdVars, uiSuspended, uiVisible>>

\* and from its reload to the thread's sleep.
UILayerReloaded ==
  /\ UiRuns
  /\ uiPC = "section"
  /\ irqOn' = TRUE
  /\ uiPC' = "sleep"
  /\ UNCHANGED <<rxVars, lcdInitialized, pipe, lcdVars, uiSuspended, uiVisible, health>>

UiFrame == BeginUIFrame \/ ReloadUILayer \/ UILayerReloaded

-----------------------------------------------------------------------------
(* comm_rx: handle_set_display_enabled, call by call. *)

RxAt(here, next) ==
  /\ rxPC = here /\ ~LcdReady
  /\ rxPC' = next

\* SetDisplayEnabled comes in.  Without a change it is acknowledged at once.
SetDisplayEnabled(enabled) ==
  /\ RxAt("idle", IF enabled = displayEnabled THEN "ack"
                  ELSE IF enabled THEN "init" ELSE "stopPipe")
  /\ UNCHANGED <<displayEnabled, lcdInitialized, pipe, irqOn, lcdVars, uiVars, health>>

LCDInit ==
  /\ RxAt("init", "resumeReload")
  /\ lcdInitialized' = TRUE
  /\ UNCHANGED <<displayEnabled, pipe, irqOn, lcdVars, uiVars, health>>

LCDReloadThreadResume ==
  /\ RxAt("resumeReload", "resumePipe")
  /\ lcdSuspended' = FALSE
  /\ UNCHANGED <<displayEnabled, lcdInitialized, pipe, irqOn, lcdPC, reloadFlag,
                 uiVars, health>>

DisplayPipeResume ==
  /\ RxAt("resumePipe", "alpha")
  /\ pipe' = "on"
  /\ UNCHANGED <<displayEnabled, lcdInitialized, irqOn, lcdVars, uiVars, health>>

\* UI_ThreadResume: LCD_SetUIAlpha,
SetUIAlpha ==
  /\ RxAt("alpha", "resumeUI")
  /\ RequireLcd
  /\ UNCHANGED <<displayEnabled, lcdInitialized, pipe, irqOn, lcdVars, uiVars>>

\* Defect for OverlayReturns: the UI stays hidden.
UIThreadResumeHidden ==
  /\ RxAt("resumeUI", "ack")
  /\ uiSuspended' = FALSE
  /\ displayEnabled' = TRUE
  /\ UNCHANGED <<lcdInitialized, pipe, irqOn, lcdVars, uiPC, uiVisible, health>>

\* then the thread.
UIThreadResume ==
  /\ RxAt("resumeUI", "ack")
  /\ uiVisible' = TRUE
  /\ uiSuspended' = FALSE
  /\ displayEnabled' = TRUE
  /\ UNCHANGED <<lcdInitialized, pipe, irqOn, lcdVars, uiPC, health>>

DisplayPipeSuspend ==
  /\ RxAt("stopPipe", "suspendReload")
  /\ pipe' = IF pipe = "on" THEN "last" ELSE pipe
  /\ UNCHANGED <<displayEnabled, lcdInitialized, irqOn, lcdVars, uiVars, health>>

LCDReloadThreadSuspend ==
  /\ RxAt("suspendReload", "suspendUI")
  /\ lcdSuspended' = TRUE
  /\ UNCHANGED <<displayEnabled, lcdInitialized, pipe, irqOn, lcdPC, reloadFlag,
                 uiVars, health>>

\* Defect for NoPanic: the UI is hidden, and goes on with the frame it draws.
UIThreadHide ==
  /\ RxAt("suspendUI", "deinit")
  /\ uiVisible' = FALSE
  /\ UNCHANGED <<displayEnabled, lcdInitialized, pipe, irqOn, lcdVars, uiPC,
                 uiSuspended, health>>

UIThreadSuspend ==
  /\ RxAt("suspendUI", "deinit")
  /\ uiVisible' = FALSE
  /\ uiSuspended' = TRUE
  /\ UNCHANGED <<displayEnabled, lcdInitialized, pipe, irqOn, lcdVars, uiPC, health>>

LCDDeInit ==
  /\ RxAt("deinit", "ack")
  /\ lcdInitialized' = FALSE
  /\ displayEnabled' = FALSE
  /\ UNCHANGED <<pipe, irqOn, lcdVars, uiVars, health>>

\* The command is acknowledged, as successful.
Acknowledge ==
  /\ RxAt("ack", "idle")
  /\ UNCHANGED <<displayEnabled, lcdInitialized, pipe, irqOn, lcdVars, uiVars, health>>

TurnOn == LCDInit \/ LCDReloadThreadResume \/ DisplayPipeResume \/ SetUIAlpha
          \/ UIThreadResume
TurnOff == DisplayPipeSuspend \/ LCDReloadThreadSuspend \/ UIThreadSuspend \/ LCDDeInit

-----------------------------------------------------------------------------

\* All but the command itself and its answer.
Inner == DisplayFrame \/ NoLastFrame \/ LcdReload \/ UiFrame \/ TurnOn \/ TurnOff

Next ==
  \/ Inner
  \/ \E enabled \in BOOLEAN : SetDisplayEnabled(enabled)
  \/ Acknowledge

Spec == Init /\ [][Next]_vars

\* A ready thread gets the processor, and a reload takes less time than the camera
\* needs for a frame, so that the threads of lower priority get it too.
Fairness ==
  /\ WF_vars(LcdReload)
  /\ []<>~LcdReady
  /\ SF_vars(TurnOn \/ TurnOff)
  /\ SF_vars(BeginUIFrame) /\ SF_vars(ReloadUILayer) /\ SF_vars(UILayerReloaded)

FairSpec == Spec /\ Fairness /\ SF_vars(Acknowledge)

-----------------------------------------------------------------------------
(* Properties. *)

TypeOK ==
  /\ displayEnabled \in BOOLEAN /\ lcdInitialized \in BOOLEAN
  /\ pipe \in {"on", "last", "off"}
  /\ irqOn \in BOOLEAN
  /\ rxPC \in {"idle", "init", "resumeReload", "resumePipe", "alpha", "resumeUI",
               "stopPipe", "suspendReload", "suspendUI", "deinit", "ack"}
  /\ lcdPC \in {"wait", "woken", "section"}
  /\ lcdSuspended \in BOOLEAN /\ reloadFlag \in BOOLEAN
  /\ uiPC \in {"sleep", "draw", "section"}
  /\ uiSuspended \in BOOLEAN /\ uiVisible \in BOOLEAN
  /\ health \in {"running", "panicked"}

\* No thread uses the LTDC controller while it is off (the APP_REQUIRE of
\* lcd_initialized in display.c), wherever commands, frames and suspensions
\* find it.
NoPanic == health = "running"

\* The UI and LCD reload threads never change the LTDC controller at the same
\* time, although they share no lock: not even when the UI thread is suspended
\* in the middle of a reload and the display comes back on (display.c:164-173,
\* 204-213).
SectionsApart == ~(uiPC = "section" /\ lcdPC = "section")

\* After the display is on for good, the overlay is shown again and again,
\* wherever the UI thread was stopped before.
OverlayReturns == <>[]displayEnabled => []<>(uiPC = "section")

\* "Suspend only LCD reload thread while leaving ISP running" (cam.c:83): the
\* ISP thread and the NN pipe live on the camera interrupt, which is never kept
\* disabled for ever.
CameraInterruptsReturn == ~irqOn ~> irqOn
=============================================================================
