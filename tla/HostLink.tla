------------------------------ MODULE HostLink ------------------------------
(***************************************************************************)
(* The host visualizer (scripts/visualizer_runtime.py) and the command     *)
(* dispatch of the firmware (Serial/Src/comm_cmd.c), with the display the  *)
(* commands turn on and off.  The host sends a command and notes what kind *)
(* of Ack it waits for; an Ack does not say what it answers, the host      *)
(* takes it for that of its oldest command.                                *)
(*                                                                         *)
(* The serial line delivers in order.  The firmware drops a message when   *)
(* its transmit queue is full (see CommTx).  When the line breaks the host *)
(* opens it again and forgets what it waited for; what was under way may   *)
(* get lost or still arrive.                                               *)
(***************************************************************************)
EXTENDS Naturals, Sequences

CONSTANTS
  MaxCommands,  \* bound: commands the host sends
  MaxReconnects \* bound: times the line breaks

ASSUME HostLinkAssumption ==
  /\ MaxCommands \in Nat \ {0}
  /\ MaxReconnects \in Nat

VARIABLES
  displayEnabled, lcdInitialized, pipe, irqOn, rxPC, lcdPC, lcdSuspended,
  reloadFlag, uiPC, uiSuspended, uiVisible, health,
  toDevice,       \* commands on the way
  toHost,         \* messages on the way and in the transmit queue: Acks, "ok"
                  \* or "failed", and DeviceInfo, "info"
  pendingAcks,    \* pending_ack_types
  pendingDisplay, \* pending_display
  shown,          \* display_enabled of the host's state
  sent,           \* the number of commands so far
  reconnects,     \* and that of reconnections
  disturbed       \* history: an Ack was dropped, or the line broke

Device == INSTANCE DisplayControl

deviceVars == <<displayEnabled, lcdInitialized, pipe, irqOn, rxPC, lcdPC,
                lcdSuspended, reloadFlag, uiPC, uiSuspended, uiVisible, health>>
hostVars == <<pendingAcks, pendingDisplay, shown, sent, reconnects>>
linkVars == <<toDevice, toHost, disturbed>>
vars == <<deviceVars, hostVars, linkVars>>

Commands == {"on", "off", "app_config", "get_info"}

Init ==
  /\ Device!Init
  /\ toDevice = <<>> /\ toHost = <<>>
  /\ pendingAcks = <<>> /\ pendingDisplay = <<>>
  /\ shown = TRUE
  /\ sent = 0 /\ reconnects = 0
  /\ disturbed = FALSE

-----------------------------------------------------------------------------
(* The firmware: COM_Cmd_Dispatch, in the comm_rx thread. *)

\* COM_TX_Send, of a message that may find the queue full.
Reply(message) ==
  \/ toHost' = Append(toHost, message) /\ UNCHANGED disturbed
  \/ toHost' = toHost /\ disturbed' = TRUE

Received(command) ==
  /\ toDevice # <<>>
  /\ Head(toDevice) = command
  /\ toDevice' = Tail(toDevice)

HandleSetDisplayEnabled ==
  /\ \/ Received("on") /\ Device!SetDisplayEnabled(TRUE)
     \/ Received("off") /\ Device!SetDisplayEnabled(FALSE)
  /\ UNCHANGED <<toHost, disturbed, hostVars>>

DisplayIsSet ==
  /\ Device!Acknowledge
  /\ Reply("ok")
  /\ UNCHANGED <<toDevice, hostVars>>

\* The thresholds are taken, or refused (see RuntimeConfig).
HandleSetAppConfig ==
  /\ Device!RxAt("idle", "idle")
  /\ Received("app_config")
  /\ \E answer \in {"ok", "failed"} : Reply(answer)
  /\ UNCHANGED <<deviceVars, hostVars>>

\* DeviceInfo is no Ack.
HandleGetDeviceInfo ==
  /\ Device!RxAt("idle", "idle")
  /\ Received("get_info")
  /\ Reply("info")
  /\ UNCHANGED <<deviceVars, hostVars>>

Dispatch == HandleSetDisplayEnabled \/ HandleSetAppConfig \/ HandleGetDeviceInfo

-----------------------------------------------------------------------------
(* The host: receiver_loop. *)

\* Defect for HostShowsDisplay: no Ack is awaited for thresholds.
AwaitsDisplayOnly(command) ==
  /\ pendingAcks' = IF command \in {"on", "off"} THEN Append(pendingAcks, "display")
                    ELSE pendingAcks
  /\ pendingDisplay' = IF command \in {"on", "off"}
                       THEN Append(pendingDisplay, command = "on") ELSE pendingDisplay

\* What the host notes when it sends a command.
Awaits(command) ==
  /\ pendingAcks' =
       CASE command \in {"on", "off"} -> Append(pendingAcks, "display")
         [] command = "app_config"    -> Append(pendingAcks, "app_config")
         [] command = "get_info"      -> pendingAcks
  /\ pendingDisplay' = IF command \in {"on", "off"}
                       THEN Append(pendingDisplay, command = "on") ELSE pendingDisplay

\* _drain_host_commands, one command of the GUI.
SendHostMessage(command) ==
  /\ sent < MaxCommands
  /\ sent' = sent + 1
  /\ Awaits(command)
  /\ toDevice' = Append(toDevice, command)
  /\ UNCHANGED <<deviceVars, toHost, disturbed, shown, reconnects>>

\* Whether the next Ack is taken for that of a display request: if the oldest
\* command in flight is one, and also if no command was noted.
AckIsForDisplay ==
  /\ pendingDisplay # <<>>
  /\ pendingAcks # <<>> => Head(pendingAcks) = "display"

\* _handle_ack.
HandleAck(ok) ==
  /\ pendingAcks' = IF pendingAcks = <<>> THEN <<>> ELSE Tail(pendingAcks)
  /\ IF AckIsForDisplay
     THEN /\ pendingDisplay' = Tail(pendingDisplay)
          /\ shown' = IF ok THEN Head(pendingDisplay) ELSE shown
     ELSE UNCHANGED <<pendingDisplay, shown>>

\* recv_device_message and what is done with the message.
ReceiveDeviceMessage ==
  /\ toHost # <<>>
  /\ toHost' = Tail(toHost)
  /\ IF Head(toHost) = "info"
     THEN UNCHANGED <<pendingAcks, pendingDisplay, shown>>
     ELSE HandleAck(Head(toHost) = "ok")
  /\ UNCHANGED <<deviceVars, toDevice, disturbed, sent, reconnects>>

\* The line breaks.  The host opens it again and asks for DeviceInfo.
Reconnect ==
  /\ reconnects < MaxReconnects
  /\ reconnects' = reconnects + 1
  /\ pendingAcks' = <<>>
  /\ pendingDisplay' = <<>>
  /\ toDevice' \in {Append(toDevice, "get_info"), <<"get_info">>}
  /\ toHost' \in {toHost, <<>>}
  /\ disturbed' = TRUE
  /\ UNCHANGED <<deviceVars, shown, sent>>

Host == ReceiveDeviceMessage \/ Reconnect
        \/ \E command \in Commands : SendHostMessage(command)

-----------------------------------------------------------------------------

\* The host has used up its commands and all of them are answered.
Finished ==
  /\ sent = MaxCommands /\ toDevice = <<>> /\ toHost = <<>> /\ rxPC = "idle"
  /\ UNCHANGED vars

Next ==
  \/ Device!Inner /\ UNCHANGED <<hostVars, linkVars>>
  \/ Dispatch \/ DisplayIsSet
  \/ Host \/ Finished

Spec == Init /\ [][Next]_vars

\* The threads of the firmware run as in DisplayControl, and comm_rx takes the
\* next command.
FairSpec ==
  /\ Spec
  /\ Device!Fairness
  /\ SF_vars(DisplayIsSet)
  /\ SF_vars(Dispatch)
  /\ WF_vars(ReceiveDeviceMessage)

-----------------------------------------------------------------------------
(* Properties. *)

TypeOK ==
  /\ Device!TypeOK
  /\ toDevice \in Seq(Commands)
  /\ toHost \in Seq({"ok", "failed", "info"})
  /\ pendingAcks \in Seq({"display", "app_config"})
  /\ pendingDisplay \in Seq(BOOLEAN)
  /\ shown \in BOOLEAN
  /\ sent \in 0 .. MaxCommands /\ reconnects \in 0 .. MaxReconnects
  /\ disturbed \in BOOLEAN

\* As long as no Ack was dropped and the line did not break, the host shows the
\* display as it is whenever it waits for nothing: Acks without a name still
\* find their commands, thresholds that are refused and DeviceInfo among them.
HostShowsDisplay ==
  ~disturbed /\ pendingAcks = <<>> => shown = displayEnabled

\* No use of the LTDC controller while it is off, for any commands of the host.
NoPanic == Device!NoPanic

\* The UI and LCD reload threads never change the LTDC controller at the same
\* time, not even when the UI thread is suspended in the middle of a reload and
\* the display comes back on.
SectionsApart == Device!SectionsApart

\* When the host leaves the display on, the overlay is shown again and again.
OverlayReturns == Device!OverlayReturns
=============================================================================
