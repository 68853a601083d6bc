--------------------------- MODULE HostLink_proof ---------------------------
(***************************************************************************)
(* Proofs about HostLink, for any number of commands and reconnections:    *)
(* seen from the display, the host and the line send some sequence of      *)
(* SetDisplayEnabled, so that the composition implements DisplayControl,   *)
(* and the display is safe under every such sequence; and the host, which  *)
(* gets Acks without a name, shows the display as it is.                   *)
(***************************************************************************)
EXTENDS HostLink, TLAPS

-----------------------------------------------------------------------------
(* The host and the line leave the display to DisplayControl. *)

\* The variables of the display are those of the instance.
LEMMA DeviceVariables == UNCHANGED deviceVars <=> UNCHANGED Device!vars
<1> QED
  BY DEF deviceVars, Device!vars, Device!rxVars, Device!lcdVars, Device!uiVars

\* Every step is one of the display's, or leaves it alone.
LEMMA StepIsDeviceStep == [Next]_vars => [Device!Next]_(Device!vars)
<1> SUFFICES ASSUME [Next]_vars PROVE Device!Next \/ UNCHANGED Device!vars
  OBVIOUS
<1>1. CASE Device!Inner
  BY <1>1 DEF Device!Next
<1>2. CASE Dispatch
  <2>1. CASE HandleSetDisplayEnabled
    <3>1. \E enabled \in BOOLEAN : Device!SetDisplayEnabled(enabled)
      BY <2>1 DEF HandleSetDisplayEnabled
    <3> QED BY <3>1 DEF Device!Next
  <2>2. CASE HandleSetAppConfig \/ HandleGetDeviceInfo
    BY <2>2, DeviceVariables DEF HandleSetAppConfig, HandleGetDeviceInfo
  <2> QED BY <1>2, <2>1, <2>2 DEF Dispatch
<1>3. CASE DisplayIsSet
  BY <1>3 DEF DisplayIsSet, Device!Next
<1>4. CASE Host
  BY <1>4, DeviceVariables
  DEF Host, ReceiveDeviceMessage, Reconnect, SendHostMessage
<1>5. CASE Finished \/ UNCHANGED vars
  BY <1>5, DeviceVariables DEF Finished, vars
<1> QED BY <1>1, <1>2, <1>3, <1>4, <1>5 DEF Next

\* The firmware under the host's commands behaves as DisplayControl says,
\* whatever is dropped, lost or refused (comm_cmd.c:59-87).
THEOREM ImplementsDisplayControl == Spec => Device!Spec
<1>1. Init => Device!Init
  BY DEF Init
<1> QED BY <1>1, StepIsDeviceStep, PTL DEF Spec, Device!Spec

-----------------------------------------------------------------------------
(* The inductive invariant of the display. *)

\* While the host turns the display off, and on again, comm_rx has done the
\* calls before the one it is at, and none after it.
InTurn ==
  /\ rxPC \in {"idle", "ack"} =>
       /\ lcdInitialized <=> displayEnabled
       /\ lcdSuspended <=> ~displayEnabled
       /\ uiSuspended <=> ~displayEnabled
  /\ rxPC = "init" => lcdSuspended /\ uiSuspended
  /\ rxPC = "resumeReload" => lcdInitialized /\ lcdSuspended /\ uiSuspended
  /\ rxPC \in {"resumePipe", "alpha", "resumeUI"} =>
       lcdInitialized /\ ~lcdSuspended /\ uiSuspended
  /\ rxPC \in {"stopPipe", "suspendReload"} =>
       lcdInitialized /\ ~lcdSuspended /\ ~uiSuspended
  /\ rxPC = "suspendUI" => lcdInitialized /\ lcdSuspended /\ ~uiSuspended
  /\ rxPC = "deinit" => lcdInitialized /\ lcdSuspended /\ uiSuspended

\* The LCD reload thread is never suspended in its section, and the camera
\* interrupt cannot wake it while the UI thread is in its own.
Sections ==
  /\ lcdPC = "section" => ~lcdSuspended
  /\ uiPC = "section" => ~irqOn /\ lcdPC = "wait"

\* The type of the display's variables: its flags, and where each thread is.
Flags ==
  /\ displayEnabled \in BOOLEAN /\ lcdInitialized \in BOOLEAN /\ irqOn \in BOOLEAN
  /\ lcdSuspended \in BOOLEAN /\ reloadFlag \in BOOLEAN
  /\ uiSuspended \in BOOLEAN /\ uiVisible \in BOOLEAN

Places ==
  /\ pipe \in {"on", "last", "off"}
  /\ rxPC \in {"idle", "init", "resumeReload", "resumePipe", "alpha", "resumeUI",
               "stopPipe", "suspendReload", "suspendUI", "deinit", "ack"}
  /\ lcdPC \in {"wait", "woken", "section"}
  /\ uiPC \in {"sleep", "draw", "section"}

IndInv == Flags /\ Places /\ InTurn /\ Sections /\ NoPanic

LEMMA IndInvGivesTypes == IndInv => Device!TypeOK
<1> QED
  BY DEF IndInv, Flags, Places, NoPanic, Device!NoPanic, Device!TypeOK

-----------------------------------------------------------------------------

\* The initial state satisfies the invariant.
LEMMA InitEstablishesIndInv == Device!Init => IndInv
<1> SUFFICES ASSUME Device!Init PROVE IndInv
  OBVIOUS
<1>1. Flags /\ Places
  BY DEF Device!Init, Flags, Places
<1>2. InTurn /\ Sections /\ NoPanic
  BY DEF Device!Init, InTurn, Sections, NoPanic, Device!NoPanic
<1> QED BY <1>1, <1>2 DEF IndInv

\* The camera interrupt.
LEMMA InterruptPreserves ==
  IndInv /\ (Device!DisplayFrame \/ Device!NoLastFrame) => IndInv'
<1> SUFFICES ASSUME IndInv, Device!DisplayFrame \/ Device!NoLastFrame PROVE IndInv'
  OBVIOUS
<1> USE DEF IndInv, Device!rxVars, Device!lcdVars, Device!uiVars
<1>1. Flags'
  BY DEF Device!DisplayFrame, Device!NoLastFrame, Flags
<1>2. Places'
  BY DEF Device!DisplayFrame, Device!NoLastFrame, Places
<1>3. InTurn' /\ NoPanic'
  BY DEF Device!DisplayFrame, Device!NoLastFrame, InTurn, NoPanic, Device!NoPanic
<1>4. Sections'
  BY DEF Device!DisplayFrame, Device!NoLastFrame, Sections
<1> QED BY <1>1, <1>2, <1>3, <1>4

\* The LCD reload thread: it is not suspended, so the controller is on.
LEMMA LcdReloadPreserves == IndInv /\ Device!LcdReload => IndInv'
<1> SUFFICES ASSUME IndInv, Device!LcdReload PROVE IndInv'
  OBVIOUS
<1> USE DEF IndInv, Device!rxVars, Device!lcdVars, Device!uiVars, Device!LcdReady
<1>1. Flags'
  BY DEF Device!LcdReload, Device!ReloadCameraLayer, Device!CameraLayerReloaded, Flags
<1>2. Places'
  BY DEF Device!LcdReload, Device!ReloadCameraLayer, Device!CameraLayerReloaded, Places
<1>3. InTurn'
  BY DEF Device!LcdReload, Device!ReloadCameraLayer, Device!CameraLayerReloaded, InTurn
<1>4. Sections'
  BY DEF Device!LcdReload, Device!ReloadCameraLayer, Device!CameraLayerReloaded, Sections
<1>5. NoPanic'
  <2>1. ~lcdSuspended
    BY DEF Device!LcdReload, Device!ReloadCameraLayer, Device!CameraLayerReloaded
  <2>2. lcdInitialized
    BY <2>1 DEF Places, InTurn
  <2> QED
    BY <2>2 DEF Device!LcdReload, Device!ReloadCameraLayer, Device!CameraLayerReloaded,
       Device!RequireLcd, NoPanic, Device!NoPanic
<1> QED BY <1>1, <1>2, <1>3, <1>4, <1>5

\* The UI thread: while it runs, no command is under way and the display is on.
LEMMA UiFramePreserves == IndInv /\ Device!UiFrame => IndInv'
<1> SUFFICES ASSUME IndInv, Device!UiFrame PROVE IndInv'
  OBVIOUS
<1> USE DEF IndInv, Device!rxVars, Device!lcdVars, Device!uiVars
<1>1. /\ lcdInitialized /\ ~lcdSuspended /\ lcdPC = "wait"
      /\ UNCHANGED <<rxPC, displayEnabled, lcdInitialized, pipe>>
      /\ UNCHANGED <<lcdPC, lcdSuspended, reloadFlag, uiSuspended, uiVisible>>
  BY DEF Device!UiFrame, Device!BeginUIFrame, Device!ReloadUILayer,
     Device!UILayerReloaded, Device!UiRuns, Device!LcdReady, InTurn, Flags, Places
<1>2. NoPanic'
  BY <1>1 DEF Device!UiFrame, Device!BeginUIFrame, Device!ReloadUILayer,
     Device!UILayerReloaded, Device!RequireLcd, NoPanic, Device!NoPanic
<1>3. Flags'
  BY <1>1 DEF Device!UiFrame, Device!BeginUIFrame, Device!ReloadUILayer,
     Device!UILayerReloaded, Flags
<1>4. Places'
  BY <1>1 DEF Device!UiFrame, Device!BeginUIFrame, Device!ReloadUILayer,
     Device!UILayerReloaded, Places
<1>5. InTurn'
  BY <1>1 DEF InTurn
<1>6. Sections'
  BY <1>1 DEF Sections, Device!UiFrame, Device!BeginUIFrame, Device!ReloadUILayer,
     Device!UILayerReloaded
<1> QED BY <1>2, <1>3, <1>4, <1>5, <1>6

\* comm_rx, turning the display on.
LEMMA TurnOnPreserves == IndInv /\ Device!TurnOn => IndInv'
<1> SUFFICES ASSUME IndInv, Device!TurnOn PROVE IndInv'
  OBVIOUS
<1> USE DEF IndInv, Device!rxVars, Device!lcdVars, Device!uiVars, Device!RxAt
<1>1. Flags'
  BY DEF Device!TurnOn, Device!LCDInit, Device!LCDReloadThreadResume,
     Device!DisplayPipeResume, Device!SetUIAlpha, Device!UIThreadResume, Flags
<1>2. Places'
  BY DEF Device!TurnOn, Device!LCDInit, Device!LCDReloadThreadResume,
     Device!DisplayPipeResume, Device!SetUIAlpha, Device!UIThreadResume, Places
<1>3. InTurn'
  BY DEF Device!TurnOn, Device!LCDInit, Device!LCDReloadThreadResume,
     Device!DisplayPipeResume, Device!SetUIAlpha, Device!UIThreadResume, InTurn
<1>4. Sections' /\ NoPanic'
  BY DEF Device!TurnOn, Device!LCDInit, Device!LCDReloadThreadResume,
     Device!DisplayPipeResume, Device!SetUIAlpha, Device!UIThreadResume,
     Device!RequireLcd, InTurn, Sections, NoPanic, Device!NoPanic
<1> QED BY <1>1, <1>2, <1>3, <1>4

\* comm_rx, turning the display off: the LCD reload thread waits meanwhile.
LEMMA TurnOffPreserves == IndInv /\ Device!TurnOff => IndInv'
<1> SUFFICES ASSUME IndInv, Device!TurnOff PROVE IndInv'
  OBVIOUS
<1> USE DEF IndInv, Device!rxVars, Device!lcdVars, Device!uiVars, Device!RxAt
<1>1. Flags'
  BY DEF Device!TurnOff, Device!DisplayPipeSuspend, Device!LCDReloadThreadSuspend,
     Device!UIThreadSuspend, Device!LCDDeInit, Flags
<1>2. Places'
  BY DEF Device!TurnOff, Device!DisplayPipeSuspend, Device!LCDReloadThreadSuspend,
     Device!UIThreadSuspend, Device!LCDDeInit, Places
<1>3. InTurn'
  BY DEF Device!TurnOff, Device!DisplayPipeSuspend, Device!LCDReloadThreadSuspend,
     Device!UIThreadSuspend, Device!LCDDeInit, InTurn
<1>4. Sections' /\ NoPanic'
  BY DEF Device!TurnOff, Device!DisplayPipeSuspend, Device!LCDReloadThreadSuspend,
     Device!UIThreadSuspend, Device!LCDDeInit, Device!LcdReady, InTurn, Sections,
     NoPanic, Device!NoPanic
<1> QED BY <1>1, <1>2, <1>3, <1>4

\* A command and its answer.
LEMMA CommandPreserves ==
  ASSUME IndInv,
         Device!Acknowledge \/ \E enabled \in BOOLEAN : Device!SetDisplayEnabled(enabled)
  PROVE  IndInv'
<1> USE DEF IndInv, Device!rxVars, Device!lcdVars, Device!uiVars, Device!RxAt
<1>1. /\ rxPC \in {"idle", "ack"}
      /\ rxPC' \in {"idle", "ack", "init", "stopPipe"}
      /\ rxPC' = "init" => ~displayEnabled
      /\ rxPC' = "stopPipe" => displayEnabled
      /\ UNCHANGED <<displayEnabled, lcdInitialized, pipe, irqOn, lcdPC,
                     lcdSuspended, reloadFlag, uiPC, uiSuspended, uiVisible, health>>
  <2>1. CASE Device!Acknowledge
    BY <2>1 DEF Device!Acknowledge
  <2>2. CASE \E enabled \in BOOLEAN : Device!SetDisplayEnabled(enabled)
    BY <2>2 DEF Device!SetDisplayEnabled, Flags
  <2> QED BY <2>1, <2>2
<1>2. Flags'
  BY <1>1 DEF Flags
<1>3. Places'
  BY <1>1 DEF Places
<1>4. Sections' /\ NoPanic'
  BY <1>1 DEF Sections, NoPanic, Device!NoPanic
<1>5. InTurn'
  BY <1>1 DEF InTurn
<1> QED BY <1>2, <1>3, <1>4, <1>5

-----------------------------------------------------------------------------

\* Every reachable state of the display satisfies the invariant.
LEMMA IndInvHolds == Spec => []IndInv
<1>1. ASSUME IndInv, UNCHANGED Device!vars PROVE IndInv'
  BY <1>1 DEF Device!vars, Device!rxVars, Device!lcdVars, Device!uiVars, IndInv,
     Flags, Places, InTurn, Sections, NoPanic, Device!NoPanic
<1>2. IndInv /\ [Device!Next]_(Device!vars) => IndInv'
  BY <1>1, InterruptPreserves, LcdReloadPreserves, UiFramePreserves,
     TurnOnPreserves, TurnOffPreserves, CommandPreserves
  DEF Device!Next, Device!Inner
<1> QED
  BY <1>2, InitEstablishesIndInv, ImplementsDisplayControl, PTL DEF Device!Spec

\* The queues of host and line hold what they are meant to.
LinkTypeOK ==
  /\ toDevice \in Seq(Commands)
  /\ toHost \in Seq({"ok", "failed", "info"})
  /\ pendingAcks \in Seq({"display", "app_config"})
  /\ pendingDisplay \in Seq(BOOLEAN)
  /\ shown \in BOOLEAN
  /\ sent \in 0 .. MaxCommands /\ reconnects \in 0 .. MaxReconnects
  /\ disturbed \in BOOLEAN

\* An answer may be dropped.
LEMMA ReplyKeepsType ==
  ASSUME LinkTypeOK, NEW message \in {"ok", "failed", "info"}, Reply(message)
  PROVE  toHost' \in Seq({"ok", "failed", "info"}) /\ disturbed' \in BOOLEAN
<1>1. toHost \in Seq({"ok", "failed", "info"}) /\ disturbed \in BOOLEAN
  BY DEF LinkTypeOK
<1>2. CASE toHost' = Append(toHost, message) /\ UNCHANGED disturbed
  <2>1. toHost' \in Seq({"ok", "failed", "info"})
    BY <1>1, <1>2
  <2> QED BY <1>1, <1>2, <2>1
<1>3. CASE toHost' = toHost /\ disturbed' = TRUE
  BY <1>1, <1>3
<1> QED BY <1>2, <1>3 DEF Reply

\* A sequence without its first element.
LEMMA TailOf ==
  ASSUME NEW S, NEW s \in Seq(S), s # <<>>
  PROVE  /\ Tail(s) \in Seq(S) /\ Len(Tail(s)) = Len(s) - 1 /\ Head(s) = s[1]
         /\ \A k \in 1 .. Len(s) - 1 : Tail(s)[k] = s[k + 1]
  OBVIOUS

\* The firmware takes commands and answers.
LEMMA FirmwareKeepsLinkType ==
  ASSUME LinkTypeOK, Dispatch \/ DisplayIsSet
  PROVE  LinkTypeOK'
<1>1. UNCHANGED hostVars
  BY DEF Dispatch, HandleSetDisplayEnabled, HandleSetAppConfig, HandleGetDeviceInfo,
     DisplayIsSet
<1>2. toDevice' = toDevice \/ (toDevice # <<>> /\ toDevice' = Tail(toDevice))
  BY DEF Dispatch, HandleSetDisplayEnabled, HandleSetAppConfig, HandleGetDeviceInfo,
     DisplayIsSet, Received
<1>3. toDevice' \in Seq(Commands)
  <2>1. toDevice \in Seq(Commands)
    BY DEF LinkTypeOK
  <2> QED BY <1>2, <2>1, TailOf
<1>4. \/ \E message \in {"ok", "failed", "info"} : Reply(message)
      \/ UNCHANGED <<toHost, disturbed>>
  BY DEF Dispatch, HandleSetDisplayEnabled, HandleSetAppConfig, HandleGetDeviceInfo,
     DisplayIsSet
<1>5. toHost' \in Seq({"ok", "failed", "info"}) /\ disturbed' \in BOOLEAN
  BY <1>4, ReplyKeepsType DEF LinkTypeOK
<1> QED BY <1>1, <1>3, <1>5 DEF LinkTypeOK, hostVars

\* The host sends, receives and reconnects.
LEMMA HostKeepsLinkType ==
  ASSUME LinkTypeOK, Host
  PROVE  LinkTypeOK'
<1> USE HostLinkAssumption
<1>1. CASE ReceiveDeviceMessage
  <2>1. /\ toHost' \in Seq({"ok", "failed", "info"})
        /\ UNCHANGED <<toDevice, disturbed, sent, reconnects>>
    BY <1>1 DEF ReceiveDeviceMessage, LinkTypeOK
  <2>2. pendingAcks' \in Seq({"display", "app_config"})
    <3>1. pendingAcks' = pendingAcks \/ (pendingAcks # <<>> /\ pendingAcks' = Tail(pendingAcks))
      BY <1>1 DEF ReceiveDeviceMessage, HandleAck
    <3>2. pendingAcks \in Seq({"display", "app_config"})
      BY DEF LinkTypeOK
    <3> QED BY <3>1, <3>2
  <2>3. pendingDisplay' \in Seq(BOOLEAN) /\ shown' \in BOOLEAN
    <3>1. pendingDisplay \in Seq(BOOLEAN) /\ shown \in BOOLEAN
      BY DEF LinkTypeOK
    <3>2. \/ UNCHANGED <<pendingDisplay, shown>>
          \/ /\ pendingDisplay # <<>> /\ pendingDisplay' = Tail(pendingDisplay)
             /\ shown' \in {Head(pendingDisplay), shown}
      BY <1>1 DEF ReceiveDeviceMessage, HandleAck, AckIsForDisplay
    <3>3. pendingDisplay # <<>> =>
            Head(pendingDisplay) \in BOOLEAN /\ Tail(pendingDisplay) \in Seq(BOOLEAN)
      BY <3>1
    <3> QED BY <3>1, <3>2, <3>3
  <2> QED BY <2>1, <2>2, <2>3 DEF LinkTypeOK
<1>2. CASE Reconnect
  <2>1. "get_info" \in Commands
    BY DEF Commands
  <2>2. toDevice' \in Seq(Commands)
    <3>1. toDevice' = Append(toDevice, "get_info") \/ toDevice' = <<"get_info">>
      BY <1>2 DEF Reconnect
    <3>2. toDevice \in Seq(Commands)
      BY DEF LinkTypeOK
    <3>3. Append(toDevice, "get_info") \in Seq(Commands)
      BY <2>1, <3>2
    <3>4. <<"get_info">> \in Seq(Commands)
      BY <2>1
    <3> QED BY <3>1, <3>3, <3>4
  <2>3. toHost' \in Seq({"ok", "failed", "info"})
    <3>1. toHost' = toHost \/ toHost' = <<>>
      BY <1>2 DEF Reconnect
    <3>2. toHost \in Seq({"ok", "failed", "info"})
      BY DEF LinkTypeOK
    <3>3. <<>> \in Seq({"ok", "failed", "info"})
      OBVIOUS
    <3> QED BY <3>1, <3>2, <3>3
  <2> QED BY <1>2, <2>2, <2>3 DEF Reconnect, LinkTypeOK
<1>3. ASSUME NEW command \in Commands, SendHostMessage(command)
      PROVE  LinkTypeOK'
  <2>1. /\ toDevice' = Append(toDevice, command) /\ sent' = sent + 1
        /\ sent < MaxCommands /\ Awaits(command)
        /\ UNCHANGED <<toHost, disturbed, shown, reconnects>>
    BY <1>3 DEF SendHostMessage
  <2>2. pendingAcks' \in Seq({"display", "app_config"})
    BY <2>1 DEF Awaits, Commands, LinkTypeOK
  <2>3. pendingDisplay' \in Seq(BOOLEAN)
    <3>1. \/ pendingDisplay' = pendingDisplay
          \/ \E on \in BOOLEAN : pendingDisplay' = Append(pendingDisplay, on)
      BY <2>1 DEF Awaits
    <3>2. pendingDisplay \in Seq(BOOLEAN)
      BY DEF LinkTypeOK
    <3> QED BY <3>1, <3>2
  <2>4. toDevice' \in Seq(Commands)
    BY <2>1 DEF LinkTypeOK
  <2> QED BY <2>1, <2>2, <2>3, <2>4 DEF LinkTypeOK
<1> QED BY <1>1, <1>2, <1>3 DEF Host

\* Every variable of the composition stays in its type, for any number of
\* commands and reconnections (comm_cmd.c, visualizer_runtime.py).
THEOREM TypeCorrect == Spec => []TypeOK
<1>1. Init => LinkTypeOK
  <2>1. ASSUME NEW S PROVE <<>> \in Seq(S)
    OBVIOUS
  <2>2. 0 \in 0 .. MaxCommands /\ 0 \in 0 .. MaxReconnects
    BY HostLinkAssumption
  <2> QED BY <2>1, <2>2 DEF Init, LinkTypeOK
<1>2. LinkTypeOK /\ [Next]_vars => LinkTypeOK'
  BY FirmwareKeepsLinkType, HostKeepsLinkType
  DEF Next, Finished, vars, hostVars, linkVars, LinkTypeOK
<1>3. IndInv /\ LinkTypeOK => TypeOK
  BY IndInvGivesTypes DEF LinkTypeOK, TypeOK
<1> QED BY <1>1, <1>2, <1>3, IndInvHolds, PTL DEF Spec

\* No APP_REQUIRE of lcd_initialized fails (display.c), for any sequence of
\* commands, wherever frames and suspensions find the threads.
THEOREM DisplayNeverPanics == Spec => []NoPanic
<1> QED BY IndInvHolds, PTL DEF IndInv

\* The UI and LCD reload threads never change the controller at the same time
\* (display.c:164-173, 204-213).
THEOREM SectionsStayApart == Spec => []SectionsApart
<1>1. IndInv => SectionsApart
  BY DEF IndInv, Sections, SectionsApart, Device!SectionsApart
<1> QED BY <1>1, IndInvHolds, PTL
-----------------------------------------------------------------------------
(* The commands under way, and what the host knows of them. *)

\* f lists the elements of S, of which there are n, in increasing order.
Enumerates(f, n, S) ==
  /\ f \in [1 .. n -> S]
  /\ \A k, l \in 1 .. n : k < l => f[k] < f[l]
  /\ \A i \in S : \E k \in 1 .. n : f[k] = i

\* Numbers are counted anew from the second one; a list of them without and with
\* its first.
Lowered(S, L) == {i \in 1 .. L - 1 : i + 1 \in S}
RestLowered(f, n) == [k \in 1 .. n - 1 |-> f[k + 1] - 1]
AllLowered(f, n) == [k \in 1 .. n |-> f[k] - 1]

\* A list goes on with a number above all of it.
OneMore(f, n, i) == [k \in 1 .. n + 1 |-> IF k <= n THEN f[k] ELSE i]

LEMMA EnumeratesOneMore ==
  ASSUME NEW L \in Nat, NEW n \in Nat, NEW S \in SUBSET (1 .. L), NEW f,
         Enumerates(f, n, S)
  PROVE  Enumerates(OneMore(f, n, L + 1), n + 1, S \cup {L + 1})
<1> USE DEF OneMore
<1> DEFINE g == OneMore(f, n, L + 1)
<1>1. \A k \in 1 .. n : k \in 1 .. n + 1 /\ g[k] = f[k] /\ f[k] \in S
  BY DEF Enumerates
<1>2. n + 1 \in 1 .. n + 1 /\ g[n + 1] = L + 1
  OBVIOUS
<1>3. \A k \in 1 .. n + 1 : k \in 1 .. n \/ k = n + 1
  OBVIOUS
<1>4. g \in [1 .. n + 1 -> S \cup {L + 1}]
  BY <1>1, <1>2, <1>3
<1>5. \A k, l \in 1 .. n + 1 : k < l => g[k] < g[l]
  <2> TAKE k, l \in 1 .. n + 1
  <2> HAVE k < l
  <2>1. k \in 1 .. n
    OBVIOUS
  <2>2. CASE l \in 1 .. n
    BY <1>1, <2>1, <2>2 DEF Enumerates
  <2>3. CASE l = n + 1
    <3>1. g[k] \in 1 .. L
      BY <1>1, <2>1
    <3> QED BY <1>2, <2>3, <3>1
  <2> QED BY <1>3, <2>2, <2>3
<1>6. \A i \in S \cup {L + 1} : \E k \in 1 .. n + 1 : g[k] = i
  BY <1>1, <1>2 DEF Enumerates
<1> HIDE DEF g
<1>7. Enumerates(g, n + 1, S \cup {L + 1})
  BY <1>4, <1>5, <1>6 DEF Enumerates
<1> QED BY <1>7 DEF g

\* A list that begins with 1, without it and counted anew.
LEMMA EnumeratesRest ==
  ASSUME NEW L \in Nat, NEW n \in Nat, NEW S \in SUBSET (1 .. L), NEW f,
         Enumerates(f, n, S), 1 \in S
  PROVE  /\ n > 0 /\ f[1] = 1
         /\ Enumerates(RestLowered(f, n), n - 1, Lowered(S, L))
<1> DEFINE g == [k \in 1 .. n - 1 |-> f[k + 1] - 1]
           T == {i \in 1 .. L - 1 : i + 1 \in S}
<1>1. /\ \A k \in 1 .. n : f[k] \in S /\ f[k] \in 1 .. L
      /\ \A k, l \in 1 .. n : k < l => f[k] < f[l]
      /\ \A i \in S : \E k \in 1 .. n : f[k] = i
  BY DEF Enumerates
<1>2. PICK one \in 1 .. n : f[one] = 1
  BY <1>1
<1>3. one = 1
  <2>1. 1 \in 1 .. n
    BY <1>2
  <2>2. f[1] \in 1 .. L
    BY <1>1, <2>1
  <2>3. 1 < one => f[1] < f[one]
    BY <1>1, <2>1
  <2> QED BY <1>2, <2>2, <2>3
<1>4. \A k \in 1 .. n - 1 : k + 1 \in 1 .. n /\ g[k] = f[k + 1] - 1 /\ f[k + 1] > 1
  <2> TAKE k \in 1 .. n - 1
  <2>1. k + 1 \in 1 .. n /\ 1 \in 1 .. n /\ 1 < k + 1
    OBVIOUS
  <2>2. f[1] < f[k + 1]
    BY <1>1, <2>1
  <2> QED BY <1>2, <1>3, <2>1, <2>2
<1>5. \A k \in 1 .. n - 1 : g[k] \in T
  <2> TAKE k \in 1 .. n - 1
  <2>1. f[k + 1] \in S /\ f[k + 1] \in 1 .. L
    BY <1>1, <1>4
  <2>2. g[k] \in 1 .. L - 1 /\ g[k] + 1 = f[k + 1]
    BY <1>4, <2>1
  <2> QED BY <2>1, <2>2
<1>6. \A k, l \in 1 .. n - 1 : k < l => g[k] < g[l]
  <2> TAKE k, l \in 1 .. n - 1
  <2> HAVE k < l
  <2>1. k + 1 \in 1 .. n /\ l + 1 \in 1 .. n /\ k + 1 < l + 1
    OBVIOUS
  <2>2. f[k + 1] < f[l + 1] /\ f[k + 1] \in 1 .. L /\ f[l + 1] \in 1 .. L
    BY <1>1, <2>1
  <2> QED BY <1>4, <2>2
<1>7. \A i \in T : \E k \in 1 .. n - 1 : g[k] = i
  <2> TAKE i \in T
  <2>1. PICK k \in 1 .. n : f[k] = i + 1
    BY <1>1
  <2>2. i + 1 # 1 /\ i \in Nat
    OBVIOUS
  <2>3. k # 1
    BY <1>2, <1>3, <2>1, <2>2
  <2>4. k - 1 \in 1 .. n - 1 /\ (k - 1) + 1 = k
    BY <2>3
  <2>5. g[k - 1] = i
    BY <2>1, <2>2, <2>4
  <2> QED BY <2>4, <2>5
<1>8. g \in [1 .. n - 1 -> T]
  BY <1>5
<1> HIDE DEF g, T
<1>9. Enumerates(g, n - 1, T)
  BY <1>6, <1>7, <1>8 DEF Enumerates
<1> QED BY <1>2, <1>3, <1>9 DEF g, T, RestLowered, Lowered

\* A list that does not begin with 1, counted anew.
LEMMA EnumeratesShifted ==
  ASSUME NEW L \in Nat, NEW n \in Nat, NEW S \in SUBSET (1 .. L), NEW f,
         Enumerates(f, n, S), 1 \notin S
  PROVE  Enumerates(AllLowered(f, n), n, Lowered(S, L))
<1> DEFINE g == [k \in 1 .. n |-> f[k] - 1]
           T == {i \in 1 .. L - 1 : i + 1 \in S}
<1>1. /\ \A k \in 1 .. n : f[k] \in S /\ f[k] \in 1 .. L
      /\ \A k, l \in 1 .. n : k < l => f[k] < f[l]
      /\ \A i \in S : \E k \in 1 .. n : f[k] = i
  BY DEF Enumerates
<1>2. \A k \in 1 .. n : f[k] # 1
  BY <1>1
<1>3. \A k \in 1 .. n : g[k] \in T
  <2> TAKE k \in 1 .. n
  <2>1. f[k] \in S /\ f[k] \in 1 .. L /\ f[k] # 1
    BY <1>1, <1>2
  <2>2. g[k] \in 1 .. L - 1 /\ g[k] + 1 = f[k]
    BY <2>1
  <2> QED BY <2>1, <2>2
<1>4. \A k, l \in 1 .. n : k < l => g[k] < g[l]
  <2> TAKE k, l \in 1 .. n
  <2> HAVE k < l
  <2>1. f[k] < f[l] /\ f[k] \in 1 .. L /\ f[l] \in 1 .. L
    BY <1>1
  <2> QED BY <2>1
<1>5. \A i \in T : \E k \in 1 .. n : g[k] = i
  <2> TAKE i \in T
  <2>1. PICK k \in 1 .. n : f[k] = i + 1
    BY <1>1
  <2> QED BY <2>1
<1>6. g \in [1 .. n -> T]
  BY <1>3
<1> HIDE DEF g, T
<1>7. Enumerates(g, n, T)
  BY <1>4, <1>5, <1>6 DEF Enumerates
<1> QED BY <1>7 DEF g, T, AllLowered, Lowered

\* The command comm_rx has in hand, as a number.
Underway == IF rxPC = "idle" THEN 0 ELSE 1

\* The commands whose answer, if any, the host has not received: answered ones,
\* the one in hand, and those on the way.
Pending == Len(toHost) + Underway + Len(toDevice)

ForDisplay == {"on", "off"}
NeedAck(job, n) == {i \in 1 .. n : job[i] # "get_info"}
SetDisplay(job, n) == {i \in 1 .. n : job[i] \in ForDisplay}

\* What the command in hand asks for.
Target == \/ rxPC = "ack" /\ displayEnabled
          \/ rxPC \in {"init", "resumeReload", "resumePipe", "alpha", "resumeUI"}

\* job are the commands, oldest first.
InFlight(job) ==
  /\ job \in [1 .. Pending -> Commands]
  /\ \A i \in 1 .. Len(toDevice) : job[Len(toHost) + Underway + i] = toDevice[i]
  /\ rxPC # "idle" => job[Len(toHost) + 1] = IF Target THEN "on" ELSE "off"
  /\ \A i \in 1 .. Len(toHost) :
       /\ toHost[i] = "info" <=> job[i] = "get_info"
       /\ job[i] \in ForDisplay => toHost[i] = "ok"

\* The entries of pending_ack_types are those commands that are acknowledged,
\* and f says which.
AwaitsAcks(job, f) ==
  /\ Enumerates(f, Len(pendingAcks), NeedAck(job, Pending))
  /\ \A k \in 1 .. Len(pendingAcks) :
       pendingAcks[k] = "display" <=> job[f[k]] \in ForDisplay

\* The same of pending_display and the SetDisplayEnabled.
AwaitsDisplay(job, g) ==
  /\ Enumerates(g, Len(pendingDisplay), SetDisplay(job, Pending))
  /\ \A k \in 1 .. Len(pendingDisplay) : pendingDisplay[k] <=> job[g[k]] = "on"

\* The commands that are done.
Executed == Len(toHost) + (IF rxPC = "ack" THEN 1 ELSE 0)

\* The display is as the last SetDisplayEnabled that is done left it, or as the
\* host shows it if the host has the answers of all.
AsCommanded(job) ==
  /\ (\A i \in 1 .. Executed : job[i] \notin ForDisplay) => (shown <=> displayEnabled)
  /\ \A i \in 1 .. Executed :
       job[i] \in ForDisplay /\ (\A j \in i + 1 .. Executed : job[j] \notin ForDisplay)
         => (displayEnabled <=> job[i] = "on")

\* The inductive invariant behind HostShowsDisplay.
Tracked == ~disturbed =>
  \E job, f, g : /\ InFlight(job) /\ AsCommanded(job)
                 /\ AwaitsAcks(job, f) /\ AwaitsDisplay(job, g)

-----------------------------------------------------------------------------
(* Every step keeps track of the commands. *)

\* What the firmware does leaves the host's lists as they are, so that they
\* stay right while the commands under way do.
LEMMA HostKeepsTrack ==
  ASSUME NEW job, NEW f, NEW g,
         AwaitsAcks(job, f), AwaitsDisplay(job, g),
         UNCHANGED <<pendingAcks, pendingDisplay>>, Pending' = Pending,
         InFlight(job)', AsCommanded(job)'
  PROVE  Tracked'
<1>1. AwaitsAcks(job, f)' /\ AwaitsDisplay(job, g)'
  BY DEF AwaitsAcks, AwaitsDisplay, NeedAck, SetDisplay
<1> QED BY <1>1 DEF Tracked

\* The calls of a command in hand: the display is switched with the last.
LEMMA InnerTracks ==
  ASSUME Device!TypeOK, Tracked, Device!Inner, UNCHANGED <<hostVars, linkVars>>
  PROVE  Tracked'
<1> SUFFICES ASSUME ~disturbed' PROVE Tracked'
  BY DEF Tracked
<1>1. PICK job, f, g : /\ InFlight(job) /\ AsCommanded(job)
                       /\ AwaitsAcks(job, f) /\ AwaitsDisplay(job, g)
  BY DEF Tracked, linkVars
<1>2. /\ UNCHANGED <<pendingAcks, pendingDisplay, shown, toDevice, toHost>>
      /\ displayEnabled \in BOOLEAN
  BY DEF hostVars, linkVars, Device!TypeOK
<1>3. \/ UNCHANGED <<rxPC, displayEnabled>>
      \/ /\ rxPC \notin {"idle", "ack"} /\ rxPC' \notin {"idle", "ack"}
         /\ Target' <=> Target
         /\ UNCHANGED displayEnabled
      \/ /\ rxPC \notin {"idle", "ack"} /\ rxPC' = "ack"
         /\ Target' <=> Target
         /\ displayEnabled' <=> Target
  <2>1. CASE Device!DisplayFrame \/ Device!NoLastFrame \/ Device!LcdReload \/ Device!UiFrame
    BY <2>1 DEF Device!DisplayFrame, Device!NoLastFrame, Device!LcdReload,
       Device!ReloadCameraLayer, Device!CameraLayerReloaded, Device!UiFrame,
       Device!BeginUIFrame, Device!ReloadUILayer, Device!UILayerReloaded, Device!rxVars
  <2>2. CASE Device!TurnOn
    BY <2>2 DEF Device!TurnOn, Device!LCDInit, Device!LCDReloadThreadResume,
       Device!DisplayPipeResume, Device!SetUIAlpha, Device!UIThreadResume,
       Device!RxAt, Target
  <2>3. CASE Device!TurnOff
    BY <2>3 DEF Device!TurnOff, Device!DisplayPipeSuspend,
       Device!LCDReloadThreadSuspend, Device!UIThreadSuspend, Device!LCDDeInit,
       Device!RxAt, Target
  <2> QED BY <2>1, <2>2, <2>3 DEF Device!Inner
<1>4. Pending' = Pending /\ Underway' = Underway
  BY <1>2, <1>3 DEF Pending, Underway
<1>5. InFlight(job)'
  BY <1>1, <1>2, <1>3, <1>4 DEF InFlight, Target
<1>6. AsCommanded(job)'
  <2>1. CASE UNCHANGED <<rxPC, displayEnabled>>
    BY <1>1, <1>2, <2>1 DEF AsCommanded, Executed
  <2>2. CASE /\ rxPC \notin {"idle", "ack"} /\ rxPC' \notin {"idle", "ack"}
             /\ UNCHANGED displayEnabled
    BY <1>1, <1>2, <2>2 DEF AsCommanded, Executed
  <2>3. CASE rxPC \notin {"idle", "ack"} /\ rxPC' = "ack" /\ (displayEnabled' <=> Target)
    <3>1. Executed' = Executed + 1 /\ Executed = Len(toHost) /\ Len(toHost) \in Nat
      BY <1>2, <2>3 DEF Executed
    <3>2. job[Executed'] = IF displayEnabled' THEN "on" ELSE "off"
      BY <1>1, <2>3, <3>1 DEF InFlight
    <3>3. Executed' \in 1 .. Executed' /\ job[Executed'] \in ForDisplay
      BY <3>1, <3>2 DEF ForDisplay
    <3>4. displayEnabled' <=> job[Executed'] = "on"
      BY <3>2
    <3>5. \A i \in 1 .. Executed' :
            (\A j \in i + 1 .. Executed' : job[j] \notin ForDisplay) => i = Executed'
      <4> TAKE i \in 1 .. Executed'
      <4>1. i # Executed' => Executed' \in i + 1 .. Executed'
        BY <3>1
      <4> QED BY <3>3, <4>1
    <3> QED BY <3>3, <3>4, <3>5 DEF AsCommanded
  <2> QED BY <1>3, <2>1, <2>2, <2>3
<1> QED BY <1>1, <1>2, <1>4, <1>5, <1>6, HostKeepsTrack

\* A SetDisplayEnabled comes in hand; without a change it is done at once.
LEMMA SetDisplayTracks ==
  ASSUME LinkTypeOK, Device!TypeOK, Tracked, HandleSetDisplayEnabled
  PROVE  Tracked'
<1> SUFFICES ASSUME ~disturbed' PROVE Tracked'
  BY DEF Tracked
<1>1. PICK job, f, g : /\ InFlight(job) /\ AsCommanded(job)
                       /\ AwaitsAcks(job, f) /\ AwaitsDisplay(job, g)
  BY DEF Tracked, HandleSetDisplayEnabled
<1>2. /\ UNCHANGED <<pendingAcks, pendingDisplay, shown, toHost>>
      /\ toDevice # <<>> /\ toDevice' = Tail(toDevice)
  BY DEF HandleSetDisplayEnabled, hostVars, Received
<1>3. /\ toDevice \in Seq(Commands) /\ displayEnabled \in BOOLEAN
      /\ Len(toHost) \in Nat
  BY DEF LinkTypeOK, Device!TypeOK
<1>4. /\ rxPC = "idle" /\ rxPC' # "idle"
      /\ UNCHANGED displayEnabled
      /\ Head(toDevice) = IF Target' THEN "on" ELSE "off"
      /\ rxPC' = "ack" => (Target' <=> displayEnabled)
  <2>1. CASE Received("on") /\ Device!SetDisplayEnabled(TRUE)
    BY <1>3, <2>1 DEF Received, Device!SetDisplayEnabled, Device!RxAt, Target
  <2>2. CASE Received("off") /\ Device!SetDisplayEnabled(FALSE)
    BY <1>3, <2>2 DEF Received, Device!SetDisplayEnabled, Device!RxAt, Target
  <2> QED BY <2>1, <2>2 DEF HandleSetDisplayEnabled
<1>5. /\ Len(toDevice) \in Nat /\ Len(toDevice) > 0 /\ Head(toDevice) = toDevice[1]
      /\ Len(toDevice') = Len(toDevice) - 1
      /\ \A i \in 1 .. Len(toDevice') : toDevice'[i] = toDevice[i + 1]
  BY <1>2, <1>3
<1>6. Pending' = Pending /\ Underway = 0 /\ Underway' = 1
  BY <1>2, <1>3, <1>4, <1>5 DEF Pending, Underway
<1>7. job[Len(toHost) + 1] = Head(toDevice)
  BY <1>1, <1>3, <1>5, <1>6 DEF InFlight
<1>8. InFlight(job)'
  <2>1. \A i \in 1 .. Len(toDevice') : job[Len(toHost') + Underway' + i] = toDevice'[i]
    <3> TAKE i \in 1 .. Len(toDevice')
    <3>1. i + 1 \in 1 .. Len(toDevice) /\ Len(toHost) + 0 + (i + 1) = Len(toHost) + 1 + i
      BY <1>3, <1>5
    <3>2. job[Len(toHost) + 0 + (i + 1)] = toDevice[i + 1]
      BY <1>1, <1>6, <3>1 DEF InFlight
    <3> QED BY <1>2, <1>5, <1>6, <3>1, <3>2
  <2> QED BY <1>1, <1>2, <1>4, <1>6, <1>7, <2>1 DEF InFlight
<1>9. AsCommanded(job)'
  <2>1. CASE rxPC' # "ack"
    BY <1>1, <1>2, <1>4, <2>1 DEF AsCommanded, Executed
  <2>2. CASE rxPC' = "ack"
    <3>1. Executed' = Len(toHost) + 1
      BY <1>2, <2>2 DEF Executed
    <3>2. job[Executed'] = IF displayEnabled' THEN "on" ELSE "off"
      BY <1>4, <1>7, <2>2, <3>1
    <3>3. Executed' \in 1 .. Executed' /\ job[Executed'] \in ForDisplay
      BY <1>3, <3>1, <3>2 DEF ForDisplay
    <3>4. displayEnabled' <=> job[Executed'] = "on"
      BY <1>3, <1>4, <3>2
    <3>5. \A i \in 1 .. Executed' :
            (\A j \in i + 1 .. Executed' : job[j] \notin ForDisplay) => i = Executed'
      <4> TAKE i \in 1 .. Executed'
      <4>1. i # Executed' => Executed' \in i + 1 .. Executed'
        BY <1>3, <3>1
      <4> QED BY <3>3, <4>1
    <3> QED BY <3>3, <3>4, <3>5 DEF AsCommanded
  <2> QED BY <2>1, <2>2
<1> QED BY <1>1, <1>2, <1>6, <1>8, <1>9, HostKeepsTrack

\* The answer to it is on its way: nothing else is done.
LEMMA DisplayIsSetTracks ==
  ASSUME LinkTypeOK, Tracked, DisplayIsSet
  PROVE  Tracked'
<1> SUFFICES ASSUME ~disturbed' PROVE Tracked'
  BY DEF Tracked
<1>1. /\ UNCHANGED <<pendingAcks, pendingDisplay, shown, toDevice>>
      /\ toHost' = Append(toHost, "ok") /\ UNCHANGED disturbed
      /\ rxPC = "ack" /\ rxPC' = "idle" /\ UNCHANGED displayEnabled
  BY DEF DisplayIsSet, hostVars, Reply, Device!Acknowledge, Device!RxAt
<1>2. PICK job, f, g : /\ InFlight(job) /\ AsCommanded(job)
                       /\ AwaitsAcks(job, f) /\ AwaitsDisplay(job, g)
  BY <1>1 DEF Tracked
<1>3. toHost \in Seq({"ok", "failed", "info"}) /\ toDevice \in Seq(Commands)
  BY DEF LinkTypeOK
<1>4. /\ Len(toHost) \in Nat /\ Len(toDevice) \in Nat
      /\ Len(toHost') = Len(toHost) + 1
      /\ toHost'[Len(toHost) + 1] = "ok"
      /\ \A i \in 1 .. Len(toHost) : toHost'[i] = toHost[i]
  BY <1>1, <1>3
<1>5. /\ Pending' = Pending /\ Executed' = Executed
      /\ Underway = 1 /\ Underway' = 0
  BY <1>1, <1>4 DEF Pending, Underway, Executed
<1>6. job[Len(toHost) + 1] \in ForDisplay
  BY <1>1, <1>2 DEF InFlight, ForDisplay
<1>7. InFlight(job)'
  <2>1. \A i \in 1 .. Len(toDevice') : job[Len(toHost') + Underway' + i] = toDevice'[i]
    <3> TAKE i \in 1 .. Len(toDevice')
    <3>1. Len(toHost') + Underway' + i = Len(toHost) + Underway + i
      BY <1>1, <1>4, <1>5
    <3> QED BY <1>1, <1>2, <3>1 DEF InFlight
  <2>2. \A i \in 1 .. Len(toHost') :
          /\ toHost'[i] = "info" <=> job[i] = "get_info"
          /\ job[i] \in ForDisplay => toHost'[i] = "ok"
    <3> TAKE i \in 1 .. Len(toHost')
    <3>1. CASE i = Len(toHost) + 1
      BY <1>4, <1>6, <3>1 DEF ForDisplay
    <3>2. CASE i \in 1 .. Len(toHost)
      BY <1>2, <1>4, <3>2 DEF InFlight
    <3> QED BY <1>4, <3>1, <3>2
  <2> QED BY <1>1, <1>2, <1>5, <2>1, <2>2 DEF InFlight
<1>8. AsCommanded(job)'
  BY <1>1, <1>2, <1>5 DEF AsCommanded
<1> QED BY <1>1, <1>2, <1>5, <1>7, <1>8, HostKeepsTrack

\* A command that is not about the display is done and answered in one.
LEMMA AnswersTrack ==
  ASSUME LinkTypeOK, Tracked, HandleSetAppConfig \/ HandleGetDeviceInfo
  PROVE  Tracked'
<1> SUFFICES ASSUME ~disturbed' PROVE Tracked'
  BY DEF Tracked
<1>1. PICK command \in {"app_config", "get_info"}, answer \in {"ok", "failed", "info"} :
        /\ Received(command)
        /\ answer = "info" <=> command = "get_info"
        /\ Reply(answer)
  <2>1. CASE HandleSetAppConfig
    BY <2>1 DEF HandleSetAppConfig
  <2>2. CASE HandleGetDeviceInfo
    BY <2>2 DEF HandleGetDeviceInfo
  <2> QED BY <2>1, <2>2
<1>2. /\ UNCHANGED <<pendingAcks, pendingDisplay, shown, displayEnabled, rxPC>>
      /\ rxPC = "idle"
  BY DEF HandleSetAppConfig, HandleGetDeviceInfo, hostVars, deviceVars, Device!RxAt
<1>3. /\ toHost' = Append(toHost, answer) /\ UNCHANGED disturbed
      /\ toDevice # <<>> /\ Head(toDevice) = command /\ toDevice' = Tail(toDevice)
  BY <1>1 DEF Reply, Received
<1>4. PICK job, f, g : /\ InFlight(job) /\ AsCommanded(job)
                       /\ AwaitsAcks(job, f) /\ AwaitsDisplay(job, g)
  BY <1>3 DEF Tracked
<1>5. toHost \in Seq({"ok", "failed", "info"}) /\ toDevice \in Seq(Commands)
  BY DEF LinkTypeOK
<1>6. /\ Len(toHost) \in Nat
      /\ Len(toHost') = Len(toHost) + 1
      /\ toHost'[Len(toHost) + 1] = answer
      /\ \A i \in 1 .. Len(toHost) : toHost'[i] = toHost[i]
  BY <1>3, <1>5
<1>7. /\ Len(toDevice) \in Nat /\ Len(toDevice) > 0 /\ Head(toDevice) = toDevice[1]
      /\ Len(toDevice') = Len(toDevice) - 1
      /\ \A i \in 1 .. Len(toDevice') : toDevice'[i] = toDevice[i + 1]
  BY <1>3, <1>5
<1>8. /\ Pending' = Pending /\ Underway = 0 /\ Underway' = 0
      /\ Executed = Len(toHost) /\ Executed' = Executed + 1
  BY <1>2, <1>6, <1>7 DEF Pending, Underway, Executed
<1>9. job[Len(toHost) + 1] = command /\ command \notin ForDisplay
  BY <1>3, <1>4, <1>6, <1>7, <1>8 DEF InFlight, ForDisplay
<1>10. InFlight(job)'
  <2>1. \A i \in 1 .. Len(toDevice') : job[Len(toHost') + Underway' + i] = toDevice'[i]
    <3> TAKE i \in 1 .. Len(toDevice')
    <3>1. /\ i + 1 \in 1 .. Len(toDevice)
          /\ Len(toHost') + Underway' + i = Len(toHost) + Underway + (i + 1)
      BY <1>6, <1>7, <1>8
    <3>2. job[Len(toHost) + Underway + (i + 1)] = toDevice[i + 1]
      BY <1>4, <3>1 DEF InFlight
    <3> QED BY <1>7, <3>1, <3>2
  <2>2. \A i \in 1 .. Len(toHost') :
          /\ toHost'[i] = "info" <=> job[i] = "get_info"
          /\ job[i] \in ForDisplay => toHost'[i] = "ok"
    <3> TAKE i \in 1 .. Len(toHost')
    <3>1. CASE i = Len(toHost) + 1
      BY <1>1, <1>6, <1>9, <3>1
    <3>2. CASE i \in 1 .. Len(toHost)
      BY <1>4, <1>6, <3>2 DEF InFlight
    <3> QED BY <1>6, <3>1, <3>2
  <2> QED BY <1>2, <1>4, <1>8, <2>1, <2>2 DEF InFlight
<1>11. AsCommanded(job)'
  <2>1. \A i \in 1 .. Executed' : i \in 1 .. Executed \/ (i = Executed' /\ job[i] \notin ForDisplay)
    BY <1>6, <1>8, <1>9
  <2>2. \A i \in 1 .. Executed : /\ i \in 1 .. Executed'
                                 /\ i + 1 .. Executed \subseteq i + 1 .. Executed'
    BY <1>6, <1>8
  <2> QED BY <1>2, <1>4, <2>1, <2>2 DEF AsCommanded
<1> QED BY <1>2, <1>4, <1>8, <1>10, <1>11, HostKeepsTrack

\* A command is sent, and noted as what it is.
LEMMA SendTracks ==
  ASSUME LinkTypeOK, Tracked, NEW command \in Commands, SendHostMessage(command)
  PROVE  Tracked'
<1> SUFFICES ASSUME ~disturbed' PROVE Tracked'
  BY DEF Tracked
<1>1. /\ UNCHANGED <<toHost, shown, displayEnabled, rxPC, disturbed>>
      /\ toDevice' = Append(toDevice, command)
      /\ Awaits(command)
  BY DEF SendHostMessage, deviceVars
<1>2. PICK job, f, g : /\ InFlight(job) /\ AsCommanded(job)
                       /\ AwaitsAcks(job, f) /\ AwaitsDisplay(job, g)
  BY <1>1 DEF Tracked
<1>3. /\ toHost \in Seq({"ok", "failed", "info"}) /\ toDevice \in Seq(Commands)
      /\ pendingAcks \in Seq({"display", "app_config"})
      /\ pendingDisplay \in Seq(BOOLEAN)
  BY DEF LinkTypeOK
<1>4. /\ Len(toHost) \in Nat /\ Underway \in {0, 1} /\ Len(toDevice) \in Nat
      /\ Len(toDevice') = Len(toDevice) + 1
      /\ toDevice'[Len(toDevice) + 1] = command
      /\ \A i \in 1 .. Len(toDevice) : toDevice'[i] = toDevice[i]
  BY <1>1, <1>3 DEF Underway
<1> PICK L \in Nat : L = Pending
  BY <1>4 DEF Pending
<1>5. /\ L = Len(toHost) + Underway + Len(toDevice)
      /\ Underway' = Underway /\ Pending' = L + 1
      /\ Executed' = Executed /\ Executed \in Nat /\ Executed <= L
  <2>1. L = Len(toHost) + Underway + Len(toDevice)
    BY DEF Pending
  <2>2. Underway' = Underway /\ Executed' = Executed
    BY <1>1 DEF Underway, Executed
  <2>3. Pending' = L + 1
    <3>1. Pending' = Len(toHost) + Underway + Len(toDevice')
      BY <1>1, <2>2 DEF Pending
    <3> QED BY <1>4, <2>1, <3>1
  <2>4. Executed \in Nat /\ Executed <= L
    BY <1>4, <2>1 DEF Underway, Executed
  <2> QED BY <2>1, <2>2, <2>3, <2>4
<1> DEFINE job2 == [i \in 1 .. L + 1 |-> IF i <= L THEN job[i] ELSE command]
<1>6. /\ job2 \in [1 .. L + 1 -> Commands]
      /\ \A i \in 1 .. L : job2[i] = job[i]
      /\ job2[L + 1] = command
  BY <1>2, <1>5 DEF InFlight
<1> HIDE DEF job2
<1>7. InFlight(job2)'
  <2>1. \A i \in 1 .. Len(toDevice') : job2[Len(toHost') + Underway' + i] = toDevice'[i]
    <3> TAKE i \in 1 .. Len(toDevice')
    <3>1. CASE i = Len(toDevice) + 1
      BY <1>1, <1>4, <1>5, <1>6, <3>1
    <3>2. CASE i \in 1 .. Len(toDevice)
      <4>1. Len(toHost) + Underway + i \in 1 .. L
        BY <1>4, <1>5, <3>2
      <4>2. job[Len(toHost) + Underway + i] = toDevice[i]
        BY <1>2, <3>2 DEF InFlight
      <4>3. toDevice'[i] = toDevice[i] /\ toHost' = toHost
        BY <1>1, <1>4, <3>2
      <4> QED BY <1>5, <1>6, <4>1, <4>2, <4>3
    <3> QED BY <1>4, <3>1, <3>2
  <2>2. rxPC # "idle" => job2[Len(toHost) + 1] = job[Len(toHost) + 1]
    <3>1. rxPC # "idle" => Len(toHost) + 1 \in 1 .. L
      BY <1>4, <1>5 DEF Underway
    <3> QED BY <1>6, <3>1
  <2>3. \A i \in 1 .. Len(toHost) : job2[i] = job[i]
    BY <1>4, <1>5, <1>6
  <2> QED BY <1>1, <1>2, <1>5, <1>6, <2>1, <2>2, <2>3 DEF InFlight, Target
<1>8. AsCommanded(job2)'
  <2>1. \A i \in 1 .. Executed : i \in 1 .. L
    BY <1>5
  <2>2. \A i \in 1 .. Executed : job2[i] = job[i]
    BY <1>6, <2>1
  <2>3. \A i \in 1 .. Executed : \A j \in i + 1 .. Executed : j \in 1 .. Executed
    BY <1>5
  <2> QED BY <1>1, <1>2, <1>5, <2>2, <2>3 DEF AsCommanded
<1>9. \E f2 : AwaitsAcks(job2, f2)'
  <2> DEFINE n == Len(pendingAcks)
             f2 == OneMore(f, n, L + 1)
  <2>1. n \in Nat /\ NeedAck(job, L) \in SUBSET (1 .. L)
    BY <1>3 DEF NeedAck
  <2>2. Enumerates(f, n, NeedAck(job, L)) /\ \A k \in 1 .. n : f[k] \in 1 .. L
    BY <1>2 DEF AwaitsAcks, Enumerates, NeedAck
  <2>3. \A k \in 1 .. n : pendingAcks[k] = "display" <=> job[f[k]] \in ForDisplay
    BY <1>2 DEF AwaitsAcks
  <2>4. CASE command = "get_info"
    <3>1. pendingAcks' = pendingAcks
      BY <1>1, <2>4 DEF Awaits
    <3>2. NeedAck(job2, L + 1) = NeedAck(job, L)
      <4>1. \A i \in 1 .. L + 1 : i \in 1 .. L \/ i = L + 1
        BY <1>5
      <4>2. \A i \in 1 .. L : i \in 1 .. L + 1
        BY <1>5
      <4> QED BY <1>6, <2>4, <4>1, <4>2 DEF NeedAck
    <3> QED BY <1>5, <1>6, <2>2, <2>3, <3>1, <3>2 DEF AwaitsAcks
  <2>5. CASE command # "get_info"
    <3>1. PICK kind \in {"display", "app_config"} :
            /\ pendingAcks' = Append(pendingAcks, kind)
            /\ kind = "display" <=> command \in ForDisplay
      BY <1>1, <2>5 DEF Awaits, Commands, ForDisplay
    <3>2. /\ Len(pendingAcks') = n + 1 /\ pendingAcks'[n + 1] = kind
          /\ \A k \in 1 .. n : pendingAcks'[k] = pendingAcks[k]
      BY <1>3, <3>1
    <3>3. NeedAck(job2, L + 1) = NeedAck(job, L) \cup {L + 1}
      <4>1. \A i \in 1 .. L + 1 : i \in 1 .. L \/ i = L + 1
        BY <1>5
      <4>2. \A i \in 1 .. L : i \in 1 .. L + 1
        BY <1>5
      <4>3. L + 1 \in 1 .. L + 1
        BY <1>5
      <4> QED BY <1>6, <2>5, <4>1, <4>2, <4>3 DEF NeedAck
    <3>4. Enumerates(f2, n + 1, NeedAck(job2, L + 1))
      <4>1. Enumerates(f2, n + 1, NeedAck(job, L) \cup {L + 1})
        BY <2>1, <2>2, EnumeratesOneMore
      <4> QED BY <3>3, <4>1
    <3>5. \A k \in 1 .. n + 1 : pendingAcks'[k] = "display" <=> job2[f2[k]] \in ForDisplay
      <4> TAKE k \in 1 .. n + 1
      <4>1. CASE k = n + 1
        BY <1>6, <2>1, <3>1, <3>2, <4>1 DEF OneMore
      <4>2. CASE k \in 1 .. n
        <5>1. f2[k] = f[k] /\ f[k] \in 1 .. L
          BY <2>1, <2>2, <4>2 DEF OneMore
        <5>2. job2[f2[k]] = job[f[k]]
          BY <1>6, <5>1
        <5>3. pendingAcks'[k] = pendingAcks[k]
          BY <3>2, <4>2
        <5> QED BY <2>3, <4>2, <5>2, <5>3
      <4> QED BY <2>1, <4>1, <4>2
    <3> HIDE DEF f2
    <3> QED BY <1>5, <3>2, <3>4, <3>5 DEF AwaitsAcks
  <2> QED BY <2>4, <2>5
<1>10. \E g2 : AwaitsDisplay(job2, g2)'
  <2> DEFINE n == Len(pendingDisplay)
             g2 == OneMore(g, n, L + 1)
  <2>1. n \in Nat /\ SetDisplay(job, L) \in SUBSET (1 .. L)
    BY <1>3 DEF SetDisplay
  <2>2. Enumerates(g, n, SetDisplay(job, L)) /\ \A k \in 1 .. n : g[k] \in 1 .. L
    BY <1>2 DEF AwaitsDisplay, Enumerates, SetDisplay
  <2>3. \A k \in 1 .. n : pendingDisplay[k] <=> job[g[k]] = "on"
    BY <1>2 DEF AwaitsDisplay
  <2>4. CASE command \notin ForDisplay
    <3>1. pendingDisplay' = pendingDisplay
      BY <1>1, <2>4 DEF Awaits, ForDisplay
    <3>2. SetDisplay(job2, L + 1) = SetDisplay(job, L)
      <4>1. \A i \in 1 .. L + 1 : i \in 1 .. L \/ i = L + 1
        BY <1>5
      <4>2. \A i \in 1 .. L : i \in 1 .. L + 1
        BY <1>5
      <4> QED BY <1>6, <2>4, <4>1, <4>2 DEF SetDisplay
    <3> QED BY <1>5, <1>6, <2>2, <2>3, <3>1, <3>2 DEF AwaitsDisplay
  <2>5. CASE command \in ForDisplay
    <3>1. PICK on \in BOOLEAN : /\ pendingDisplay' = Append(pendingDisplay, on)
                                /\ on <=> command = "on"
      BY <1>1, <2>5 DEF Awaits, ForDisplay
    <3>2. /\ Len(pendingDisplay') = n + 1 /\ (pendingDisplay'[n + 1] <=> on)
          /\ \A k \in 1 .. n : pendingDisplay'[k] <=> pendingDisplay[k]
      BY <1>3, <3>1
    <3>3. SetDisplay(job2, L + 1) = SetDisplay(job, L) \cup {L + 1}
      <4>1. \A i \in 1 .. L + 1 : i \in 1 .. L \/ i = L + 1
        BY <1>5
      <4>2. \A i \in 1 .. L : i \in 1 .. L + 1
        BY <1>5
      <4>3. L + 1 \in 1 .. L + 1
        BY <1>5
      <4> QED BY <1>6, <2>5, <4>1, <4>2, <4>3 DEF SetDisplay
    <3>4. Enumerates(g2, n + 1, SetDisplay(job2, L + 1))
      <4>1. Enumerates(g2, n + 1, SetDisplay(job, L) \cup {L + 1})
        BY <2>1, <2>2, EnumeratesOneMore
      <4> QED BY <3>3, <4>1
    <3>5. \A k \in 1 .. n + 1 : pendingDisplay'[k] <=> job2[g2[k]] = "on"
      <4> TAKE k \in 1 .. n + 1
      <4>1. CASE k = n + 1
        BY <1>6, <2>1, <3>1, <3>2, <4>1 DEF OneMore
      <4>2. CASE k \in 1 .. n
        <5>1. g2[k] = g[k] /\ g[k] \in 1 .. L
          BY <2>1, <2>2, <4>2 DEF OneMore
        <5>2. job2[g2[k]] = job[g[k]]
          BY <1>6, <5>1
        <5>3. pendingDisplay'[k] <=> pendingDisplay[k]
          BY <3>2, <4>2
        <5> QED BY <2>3, <4>2, <5>2, <5>3
      <4> QED BY <2>1, <4>1, <4>2
    <3> HIDE DEF g2
    <3> QED BY <1>5, <3>2, <3>4, <3>5 DEF AwaitsDisplay
  <2> QED BY <2>4, <2>5
<1> QED BY <1>7, <1>8, <1>9, <1>10 DEF Tracked

\* The commands under way when the oldest answer has arrived.
Rest(job, n) == [i \in 1 .. n - 1 |-> job[i + 1]]

\* The list of Acks awaited, if the oldest answer is DeviceInfo or an Ack.
LEMMA AcksOfRest ==
  ASSUME NEW L \in Nat, L > 0, NEW job, NEW f,
         pendingAcks \in Seq({"display", "app_config"}),
         Pending = L, Pending' = L - 1, AwaitsAcks(job, f),
         IF job[1] = "get_info" THEN pendingAcks' = pendingAcks
         ELSE pendingAcks # <<>> => pendingAcks' = Tail(pendingAcks)
  PROVE  /\ \E f2 : AwaitsAcks(Rest(job, L), f2)'
         /\ job[1] # "get_info" =>
              /\ pendingAcks # <<>>
              /\ Head(pendingAcks) = "display" <=> job[1] \in ForDisplay
<1> PICK n \in Nat : n = Len(pendingAcks)
  OBVIOUS
<1> DEFINE S == NeedAck(job, L)
           T == Lowered(S, L)
<1>1. S \in SUBSET (1 .. L) /\ 1 \in 1 .. L
  BY DEF NeedAck
<1>2. Enumerates(f, n, S) /\ \A k \in 1 .. n : f[k] \in 1 .. L
  BY DEF AwaitsAcks, Enumerates, NeedAck
<1>3. \A k \in 1 .. n : pendingAcks[k] = "display" <=> job[f[k]] \in ForDisplay
  BY DEF AwaitsAcks
<1>4. \A i \in 1 .. L - 1 : Rest(job, L)[i] = job[i + 1] /\ i + 1 \in 1 .. L
  BY DEF Rest
<1>5. NeedAck(Rest(job, L), L - 1) = T
  BY <1>4 DEF NeedAck, Lowered
<1>6. CASE job[1] = "get_info"
  <2> DEFINE f2 == AllLowered(f, n)
  <2>1. pendingAcks' = pendingAcks
    BY <1>6
  <2>2. 1 \notin S
    BY <1>6 DEF NeedAck
  <2>3. Enumerates(f2, n, T)
    BY <1>1, <1>2, <2>2, EnumeratesShifted
  <2>4. \A k \in 1 .. n : /\ f2[k] \in 1 .. L - 1
                          /\ f2[k] = f[k] - 1 /\ f[k] \in 1 .. L
    BY <1>2, <2>3 DEF Enumerates, AllLowered, Lowered
  <2> HIDE DEF f2, S, T
  <2>5. \A k \in 1 .. n : Rest(job, L)[f2[k]] = job[f[k]]
    <3> TAKE k \in 1 .. n
    <3>1. /\ f2[k] \in 1 .. L - 1 /\ f2[k] = f[k] - 1 /\ f[k] \in 1 .. L
      BY <2>4
    <3>2. f2[k] + 1 = f[k]
      BY <3>1
    <3> QED BY <1>4, <3>1, <3>2
  <2>6. AwaitsAcks(Rest(job, L), f2)'
    BY <1>3, <1>5, <2>1, <2>3, <2>5 DEF AwaitsAcks
  <2> QED BY <1>6, <2>6
<1>7. CASE job[1] # "get_info"
  <2> DEFINE f2 == RestLowered(f, n)
  <2>1. 1 \in S
    BY <1>1, <1>7 DEF NeedAck
  <2>2. n > 0 /\ f[1] = 1 /\ Enumerates(f2, n - 1, T)
    BY <1>1, <1>2, <2>1, EnumeratesRest
  <2>3. pendingAcks # <<>> /\ pendingAcks' = Tail(pendingAcks)
    BY <1>7, <2>2
  <2>4. /\ Len(pendingAcks') = n - 1 /\ Head(pendingAcks) = pendingAcks[1]
        /\ \A k \in 1 .. n - 1 : pendingAcks'[k] = pendingAcks[k + 1]
    BY <2>3, TailOf
  <2>5. \A k \in 1 .. n - 1 : /\ k + 1 \in 1 .. n /\ f2[k] \in 1 .. L - 1
                              /\ f2[k] = f[k + 1] - 1 /\ f[k + 1] \in 1 .. L
    <3> TAKE k \in 1 .. n - 1
    <3>1. k + 1 \in 1 .. n
      BY <1>1
    <3>2. f2[k] \in T
      BY <2>2 DEF Enumerates
    <3>3. f2[k] \in 1 .. L - 1
      BY <3>2 DEF Lowered
    <3>4. f2[k] = f[k + 1] - 1
      BY DEF RestLowered
    <3> QED BY <1>2, <3>1, <3>3, <3>4
  <2>6. \A k \in 1 .. n - 1 : Rest(job, L)[f2[k]] = job[f[k + 1]]
    <3> TAKE k \in 1 .. n - 1
    <3>1. /\ f2[k] \in 1 .. L - 1 /\ f[k + 1] \in 1 .. L
          /\ f2[k] = f[k + 1] - 1
      BY <2>5
    <3>2. Rest(job, L)[f2[k]] = job[f2[k] + 1] /\ f2[k] + 1 = f[k + 1]
      <4> HIDE DEF f2, S, T
      <4> QED BY <1>4, <3>1
    <3> QED BY <3>2
  <2>7. \A k \in 1 .. n - 1 :
          pendingAcks'[k] = "display" <=> Rest(job, L)[f2[k]] \in ForDisplay
    <3> TAKE k \in 1 .. n - 1
    <3>1. pendingAcks[k + 1] = "display" <=> job[f[k + 1]] \in ForDisplay
      BY <1>3, <2>5
    <3>2. pendingAcks'[k] = pendingAcks[k + 1]
      BY <2>4
    <3> QED BY <2>6, <3>1, <3>2
  <2>8. pendingAcks[1] = "display" <=> job[1] \in ForDisplay
    BY <1>1, <1>3, <2>2
  <2> HIDE DEF f2, S, T
  <2>9. AwaitsAcks(Rest(job, L), f2)'
    BY <1>5, <2>2, <2>4, <2>7 DEF AwaitsAcks
  <2> QED BY <2>3, <2>4, <2>8, <2>9
<1> QED BY <1>6, <1>7

\* And the list of the SetDisplayEnabled.
LEMMA DisplayOfRest ==
  ASSUME NEW L \in Nat, L > 0, NEW job, NEW g,
         pendingDisplay \in Seq(BOOLEAN),
         Pending = L, Pending' = L - 1, AwaitsDisplay(job, g),
         IF job[1] \in ForDisplay
         THEN pendingDisplay # <<>> => pendingDisplay' = Tail(pendingDisplay)
         ELSE pendingDisplay' = pendingDisplay
  PROVE  /\ \E g2 : AwaitsDisplay(Rest(job, L), g2)'
         /\ job[1] \in ForDisplay =>
              /\ pendingDisplay # <<>>
              /\ Head(pendingDisplay) <=> job[1] = "on"
<1> PICK n \in Nat : n = Len(pendingDisplay)
  OBVIOUS
<1> DEFINE S == SetDisplay(job, L)
           T == Lowered(S, L)
<1>1. S \in SUBSET (1 .. L) /\ 1 \in 1 .. L
  BY DEF SetDisplay
<1>2. Enumerates(g, n, S) /\ \A k \in 1 .. n : g[k] \in 1 .. L
  BY DEF AwaitsDisplay, Enumerates, SetDisplay
<1>3. \A k \in 1 .. n : pendingDisplay[k] <=> job[g[k]] = "on"
  BY DEF AwaitsDisplay
<1>4. \A i \in 1 .. L - 1 : Rest(job, L)[i] = job[i + 1] /\ i + 1 \in 1 .. L
  BY DEF Rest
<1>5. SetDisplay(Rest(job, L), L - 1) = T
  BY <1>4 DEF SetDisplay, Lowered
<1>6. CASE job[1] \notin ForDisplay
  <2> DEFINE g2 == AllLowered(g, n)
  <2>1. pendingDisplay' = pendingDisplay
    BY <1>6
  <2>2. 1 \notin S
    BY <1>6 DEF SetDisplay
  <2>3. Enumerates(g2, n, T)
    BY <1>1, <1>2, <2>2, EnumeratesShifted
  <2>4. \A k \in 1 .. n : /\ g2[k] \in 1 .. L - 1
                          /\ g2[k] = g[k] - 1 /\ g[k] \in 1 .. L
    BY <1>2, <2>3 DEF Enumerates, AllLowered, Lowered
  <2> HIDE DEF g2, S, T
  <2>5. \A k \in 1 .. n : Rest(job, L)[g2[k]] = job[g[k]]
    <3> TAKE k \in 1 .. n
    <3>1. /\ g2[k] \in 1 .. L - 1 /\ g2[k] = g[k] - 1 /\ g[k] \in 1 .. L
      BY <2>4
    <3>2. g2[k] + 1 = g[k]
      BY <3>1
    <3> QED BY <1>4, <3>1, <3>2
  <2>6. AwaitsDisplay(Rest(job, L), g2)'
    BY <1>3, <1>5, <2>1, <2>3, <2>5 DEF AwaitsDisplay
  <2> QED BY <1>6, <2>6
<1>7. CASE job[1] \in ForDisplay
  <2> DEFINE g2 == RestLowered(g, n)
  <2>1. 1 \in S
    BY <1>1, <1>7 DEF SetDisplay
  <2>2. n > 0 /\ g[1] = 1 /\ Enumerates(g2, n - 1, T)
    BY <1>1, <1>2, <2>1, EnumeratesRest
  <2>3. pendingDisplay # <<>> /\ pendingDisplay' = Tail(pendingDisplay)
    BY <1>7, <2>2
  <2>4. /\ Len(pendingDisplay') = n - 1 /\ Head(pendingDisplay) = pendingDisplay[1]
        /\ \A k \in 1 .. n - 1 : pendingDisplay'[k] = pendingDisplay[k + 1]
    BY <2>3, TailOf
  <2>5. \A k \in 1 .. n - 1 : /\ k + 1 \in 1 .. n /\ g2[k] \in 1 .. L - 1
                              /\ g2[k] = g[k + 1] - 1 /\ g[k + 1] \in 1 .. L
    <3> TAKE k \in 1 .. n - 1
    <3>1. k + 1 \in 1 .. n
      BY <1>1
    <3>2. g2[k] \in T
      BY <2>2 DEF Enumerates
    <3>3. g2[k] \in 1 .. L - 1
      BY <3>2 DEF Lowered
    <3>4. g2[k] = g[k + 1] - 1
      BY DEF RestLowered
    <3> QED BY <1>2, <3>1, <3>3, <3>4
  <2>6. \A k \in 1 .. n - 1 : Rest(job, L)[g2[k]] = job[g[k + 1]]
    <3> TAKE k \in 1 .. n - 1
    <3>1. /\ g2[k] \in 1 .. L - 1 /\ g[k + 1] \in 1 .. L
          /\ g2[k] = g[k + 1] - 1
      BY <2>5
    <3>2. Rest(job, L)[g2[k]] = job[g2[k] + 1] /\ g2[k] + 1 = g[k + 1]
      <4> HIDE DEF g2, S, T
      <4> QED BY <1>4, <3>1
    <3> QED BY <3>2
  <2>7. \A k \in 1 .. n - 1 : pendingDisplay'[k] <=> Rest(job, L)[g2[k]] = "on"
    <3> TAKE k \in 1 .. n - 1
    <3>1. pendingDisplay[k + 1] <=> job[g[k + 1]] = "on"
      BY <1>3, <2>5
    <3>2. pendingDisplay'[k] = pendingDisplay[k + 1]
      BY <2>4
    <3> QED BY <2>6, <3>1, <3>2
  <2>8. pendingDisplay[1] <=> job[1] = "on"
    BY <1>1, <1>3, <2>2
  <2> HIDE DEF g2, S, T
  <2>9. AwaitsDisplay(Rest(job, L), g2)'
    BY <1>5, <2>2, <2>4, <2>7 DEF AwaitsDisplay
  <2> QED BY <2>3, <2>4, <2>8, <2>9
<1> QED BY <1>6, <1>7

\* An answer arrives: an Ack, which has no name, finds its command.
LEMMA ReceiveTracks ==
  ASSUME LinkTypeOK, Tracked, ReceiveDeviceMessage
  PROVE  Tracked'
<1> SUFFICES ASSUME ~disturbed' PROVE Tracked'
  BY DEF Tracked
<1>1. /\ UNCHANGED <<toDevice, displayEnabled, rxPC, disturbed>>
      /\ toHost # <<>> /\ toHost' = Tail(toHost)
  BY DEF ReceiveDeviceMessage, deviceVars
<1>2. PICK job, f, g : /\ InFlight(job) /\ AsCommanded(job)
                       /\ AwaitsAcks(job, f) /\ AwaitsDisplay(job, g)
  BY <1>1 DEF Tracked
<1>3. /\ toHost \in Seq({"ok", "failed", "info"}) /\ toDevice \in Seq(Commands)
      /\ pendingAcks \in Seq({"display", "app_config"})
      /\ pendingDisplay \in Seq(BOOLEAN) /\ shown \in BOOLEAN
  BY DEF LinkTypeOK
<1>4. /\ Len(toHost) \in Nat /\ Len(toHost) > 0 /\ Len(toDevice) \in Nat
      /\ Underway \in {0, 1} /\ Head(toHost) = toHost[1]
      /\ Len(toHost') = Len(toHost) - 1
      /\ \A i \in 1 .. Len(toHost') : toHost'[i] = toHost[i + 1]
  BY <1>1, <1>3 DEF Underway
<1> PICK L \in Nat : L = Pending
  BY <1>4 DEF Pending
<1> PICK E \in Nat : E = Executed
  BY <1>4 DEF Executed
<1>5. /\ L = Len(toHost) + Underway + Len(toDevice) /\ L > 0
      /\ Underway' = Underway /\ Pending' = L - 1
      /\ E > 0 /\ E <= L /\ Executed' = E - 1
  <2>1. L = Len(toHost) + Underway + Len(toDevice)
    BY DEF Pending
  <2>2. Underway' = Underway
    BY <1>1 DEF Underway
  <2>3. Pending' = Len(toHost') + Underway + Len(toDevice)
    BY <1>1, <2>2 DEF Pending
  <2>4. E > 0 /\ E <= L
    BY <1>4, <2>1 DEF Underway, Executed
  <2>5. Executed' = Len(toHost') + (E - Len(toHost))
    <3>1. CASE rxPC = "ack"
      BY <1>1, <1>4, <3>1 DEF Executed
    <3>2. CASE rxPC # "ack"
      BY <1>1, <1>4, <3>2 DEF Executed
    <3> QED BY <3>1, <3>2
  <2> QED BY <1>4, <2>1, <2>2, <2>3, <2>4, <2>5
<1> DEFINE job2 == Rest(job, L)
<1>6. /\ job2 \in [1 .. L - 1 -> Commands]
      /\ \A i \in 1 .. L - 1 : job2[i] = job[i + 1]
  BY <1>2, <1>5 DEF InFlight, Rest
<1>7. /\ job[1] = "get_info" <=> Head(toHost) = "info"
      /\ job[1] \in ForDisplay => Head(toHost) = "ok"
  BY <1>2, <1>4 DEF InFlight
<1> HIDE DEF job2
<1>8. InFlight(job2)'
  <2>1. \A i \in 1 .. Len(toDevice') : job2[Len(toHost') + Underway' + i] = toDevice'[i]
    <3> TAKE i \in 1 .. Len(toDevice')
    <3>1. /\ Len(toHost') + Underway' + i \in 1 .. L - 1
          /\ Len(toHost') + Underway' + i + 1 = Len(toHost) + Underway + i
      BY <1>1, <1>4, <1>5
    <3>2. job[Len(toHost) + Underway + i] = toDevice[i]
      BY <1>1, <1>2 DEF InFlight
    <3> QED BY <1>1, <1>6, <3>1, <3>2
  <2>2. rxPC # "idle" => job2[Len(toHost') + 1] = IF Target' THEN "on" ELSE "off"
    <3> SUFFICES ASSUME rxPC # "idle"
                 PROVE  job2[Len(toHost') + 1] = IF Target' THEN "on" ELSE "off"
      OBVIOUS
    <3>1. Len(toHost') + 1 \in 1 .. L - 1 /\ Len(toHost') + 1 + 1 = Len(toHost) + 1
      BY <1>4, <1>5 DEF Underway
    <3>2. job2[Len(toHost') + 1] = job[Len(toHost) + 1]
      BY <1>6, <3>1
    <3>3. Target' <=> Target
      BY <1>1 DEF Target
    <3> QED BY <1>2, <3>2, <3>3 DEF InFlight
  <2>3. \A i \in 1 .. Len(toHost') :
          /\ toHost'[i] = "info" <=> job2[i] = "get_info"
          /\ job2[i] \in ForDisplay => toHost'[i] = "ok"
    <3> TAKE i \in 1 .. Len(toHost')
    <3>1. i \in 1 .. L - 1 /\ i + 1 \in 1 .. Len(toHost)
      BY <1>4, <1>5
    <3>2. job2[i] = job[i + 1] /\ toHost'[i] = toHost[i + 1]
      BY <1>4, <1>6, <3>1
    <3> QED BY <1>2, <3>1, <3>2 DEF InFlight
  <2> QED BY <1>1, <1>5, <1>6, <2>1, <2>2, <2>3 DEF InFlight
<1>9. IF job[1] = "get_info" THEN pendingAcks' = pendingAcks
      ELSE pendingAcks # <<>> => pendingAcks' = Tail(pendingAcks)
  BY <1>7 DEF ReceiveDeviceMessage, HandleAck
<1>10. /\ \E f2 : AwaitsAcks(job2, f2)'
       /\ job[1] # "get_info" =>
            /\ pendingAcks # <<>>
            /\ Head(pendingAcks) = "display" <=> job[1] \in ForDisplay
  BY <1>2, <1>3, <1>5, <1>9, AcksOfRest DEF job2
<1>11. /\ job[1] \in ForDisplay /\ pendingDisplay # <<>> =>
            /\ pendingDisplay' = Tail(pendingDisplay)
            /\ shown' <=> Head(pendingDisplay)
       /\ job[1] \notin ForDisplay => UNCHANGED <<pendingDisplay, shown>>
  <2>1. CASE job[1] \in ForDisplay
    <3>1. job[1] # "get_info" /\ Head(toHost) = "ok"
      BY <1>7, <2>1 DEF ForDisplay
    <3> QED BY <1>10, <2>1, <3>1 DEF ReceiveDeviceMessage, HandleAck, AckIsForDisplay
  <2>2. CASE job[1] \notin ForDisplay
    <3>1. Head(toHost) = "info" \/ ~AckIsForDisplay
      BY <1>7, <1>10, <2>2 DEF AckIsForDisplay
    <3> QED BY <2>2, <3>1 DEF ReceiveDeviceMessage, HandleAck
  <2> QED BY <2>1, <2>2
<1>12. /\ \E g2 : AwaitsDisplay(job2, g2)'
       /\ job[1] \in ForDisplay =>
            /\ pendingDisplay # <<>>
            /\ Head(pendingDisplay) <=> job[1] = "on"
  <2>1. IF job[1] \in ForDisplay
        THEN pendingDisplay # <<>> => pendingDisplay' = Tail(pendingDisplay)
        ELSE pendingDisplay' = pendingDisplay
    BY <1>11
  <2> QED BY <1>2, <1>3, <1>5, <2>1, DisplayOfRest DEF job2
<1>13. AsCommanded(job2)'
  <2>1. \A i \in 1 .. E - 1 : i \in 1 .. L - 1 /\ i + 1 \in 1 .. E /\ job2[i] = job[i + 1]
    BY <1>5, <1>6
  <2>2. \A i \in 1 .. E : i = 1 \/ (i - 1 \in 1 .. E - 1 /\ i = (i - 1) + 1)
    BY <1>5
  <2>3. ASSUME \A i \in 1 .. E - 1 : job2[i] \notin ForDisplay
        PROVE  shown' <=> displayEnabled
    <3>1. \A i \in 1 .. E : i = 1 \/ job[i] \notin ForDisplay
      BY <2>1, <2>2, <2>3
    <3>2. CASE job[1] \in ForDisplay
      <4>1. 1 \in 1 .. E /\ \A j \in 1 + 1 .. E : j \in 1 .. E /\ j # 1
        BY <1>5
      <4>2. displayEnabled <=> job[1] = "on"
        BY <1>2, <3>1, <3>2, <4>1 DEF AsCommanded
      <4>3. shown' <=> job[1] = "on"
        BY <1>11, <1>12, <3>2
      <4> QED BY <4>2, <4>3
    <3>3. CASE job[1] \notin ForDisplay
      <4>1. shown <=> displayEnabled
        BY <1>2, <3>1, <3>3 DEF AsCommanded
      <4>2. shown' = shown
        BY <1>11, <3>3
      <4> QED BY <4>1, <4>2
    <3> QED BY <3>2, <3>3
  <2>4. ASSUME NEW i \in 1 .. E - 1, job2[i] \in ForDisplay,
               \A j \in i + 1 .. E - 1 : job2[j] \notin ForDisplay
        PROVE  displayEnabled <=> job2[i] = "on"
    <3>1. i + 1 \in 1 .. E /\ job[i + 1] = job2[i]
      BY <2>1
    <3>2. \A j \in (i + 1) + 1 .. E : job[j] \notin ForDisplay
      <4> TAKE j \in (i + 1) + 1 .. E
      <4>1. j - 1 \in i + 1 .. E - 1 /\ j - 1 \in 1 .. E - 1 /\ (j - 1) + 1 = j
        OBVIOUS
      <4> QED BY <2>1, <2>4, <4>1
    <3> QED BY <1>2, <2>4, <3>1, <3>2 DEF AsCommanded
  <2> QED BY <1>1, <1>5, <2>3, <2>4 DEF AsCommanded
<1> QED BY <1>8, <1>10, <1>12, <1>13 DEF Tracked

\* Every reachable state keeps track of the commands.
LEMMA TrackedHolds == Spec => []Tracked
<1>1. Init => Tracked
  <2> SUFFICES ASSUME Init PROVE Tracked
    OBVIOUS
  <2>1. Pending = 0 /\ Executed = 0 /\ rxPC = "idle"
    BY DEF Init, Device!Init, Pending, Underway, Executed
  <2>2. toHost = <<>> /\ toDevice = <<>> /\ pendingAcks = <<>> /\ pendingDisplay = <<>>
    BY DEF Init
  <2>3. shown <=> displayEnabled
    BY DEF Init, Device!Init
  <2> DEFINE none == [i \in 1 .. 0 |-> "on"]
  <2>4. none \in [1 .. 0 -> Commands] /\ none \in [1 .. 0 -> {}]
    OBVIOUS
  <2> HIDE DEF none
  <2>5. InFlight(none)
    BY <2>1, <2>2, <2>4 DEF InFlight
  <2>6. AsCommanded(none)
    BY <2>1, <2>3 DEF AsCommanded
  <2>7. NeedAck(none, 0) = {} /\ SetDisplay(none, 0) = {}
    BY DEF NeedAck, SetDisplay
  <2>8. Enumerates(none, 0, {})
    BY <2>4 DEF Enumerates
  <2>9. AwaitsAcks(none, none) /\ AwaitsDisplay(none, none)
    <3>1. Len(pendingAcks) = 0 /\ Len(pendingDisplay) = 0
      BY <2>2
    <3>2. /\ Enumerates(none, Len(pendingAcks), NeedAck(none, Pending))
          /\ Enumerates(none, Len(pendingDisplay), SetDisplay(none, Pending))
      BY <2>1, <2>7, <2>8, <3>1
    <3> QED BY <3>1, <3>2 DEF AwaitsAcks, AwaitsDisplay
  <2> QED BY <2>5, <2>6, <2>9 DEF Tracked
<1>2. LinkTypeOK /\ Device!TypeOK /\ Tracked /\ [Next]_vars => Tracked'
  <2> SUFFICES ASSUME LinkTypeOK, Device!TypeOK, Tracked, [Next]_vars PROVE Tracked'
    OBVIOUS
  <2>1. CASE Device!Inner /\ UNCHANGED <<hostVars, linkVars>>
    BY <2>1, InnerTracks
  <2>2. CASE Dispatch
    BY <2>2, SetDisplayTracks, AnswersTrack DEF Dispatch
  <2>3. CASE DisplayIsSet
    BY <2>3, DisplayIsSetTracks
  <2>4. CASE ReceiveDeviceMessage
    BY <2>4, ReceiveTracks
  <2>5. CASE Reconnect
    BY <2>5 DEF Reconnect, Tracked
  <2>6. ASSUME NEW command \in Commands, SendHostMessage(command) PROVE Tracked'
    BY <2>6, SendTracks
  <2>7. CASE UNCHANGED vars
    BY <2>7 DEF vars, deviceVars, hostVars, linkVars, Tracked, InFlight, AsCommanded,
       AwaitsAcks, AwaitsDisplay, Pending, Underway, Executed, Target
  <2> QED
    BY <2>1, <2>2, <2>3, <2>4, <2>5, <2>6, <2>7 DEF Next, Host, Finished
<1>3. TypeOK => LinkTypeOK /\ Device!TypeOK
  BY DEF TypeOK, LinkTypeOK
<1> QED BY <1>1, <1>2, <1>3, TypeCorrect, PTL DEF Spec

\* While no Ack was dropped and the line did not break, a host that waits for
\* nothing shows the display as it is: every nameless Ack found its command
\* (visualizer_runtime.py, _handle_ack; comm_cmd.c:59-87).
THEOREM HostShowsTheDisplay == Spec => []HostShowsDisplay
<1>1. LinkTypeOK /\ Device!TypeOK /\ Tracked => HostShowsDisplay
  <2> SUFFICES ASSUME LinkTypeOK, Device!TypeOK, Tracked,
                      ~disturbed, pendingAcks = <<>>
               PROVE  shown = displayEnabled
    BY DEF HostShowsDisplay
  <2>1. PICK job, f, g : InFlight(job) /\ AsCommanded(job) /\ AwaitsAcks(job, f)
    BY DEF Tracked
  <2>2. \A i \in 1 .. Pending : job[i] \notin ForDisplay
    BY <2>1 DEF AwaitsAcks, Enumerates, NeedAck, ForDisplay
  <2>3. \A i \in 1 .. Executed : i \in 1 .. Pending
    BY DEF LinkTypeOK, Executed, Pending, Underway
  <2>4. shown <=> displayEnabled
    BY <2>1, <2>2, <2>3 DEF AsCommanded
  <2>5. shown \in BOOLEAN /\ displayEnabled \in BOOLEAN
    BY DEF LinkTypeOK, Device!TypeOK
  <2> QED BY <2>4, <2>5
<1>2. TypeOK => LinkTypeOK /\ Device!TypeOK
  BY DEF TypeOK, LinkTypeOK
<1> QED BY <1>1, <1>2, TypeCorrect, TrackedHolds, PTL
=============================================================================
