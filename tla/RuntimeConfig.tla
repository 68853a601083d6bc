--------------------------- MODULE RuntimeConfig ---------------------------
(***************************************************************************)
(* How a SetAppConfig command of the host reaches the postprocessing       *)
(* thread, and how the configuration in use is reported back               *)
(* (NN/Src/pp_thread.c, Serial/Src/comm_cmd.c, COM_Send_DeviceInfo).       *)
(*                                                                         *)
(* Two sequence locks, without a mutex.  The comm_rx thread writes the     *)
(* requested configuration and the PP thread reads it at a frame boundary; *)
(* the PP thread writes the active configuration and comm_rx reads it.     *)
(*                                                                         *)
(* The threads run under ThreadX on one core, without time slices.  PP has *)
(* priority 4 and comm_rx priority 9 (Config/Inc/thread_config.h), so      *)
(* comm_rx takes a step only while PP is blocked, and an output of the     *)
(* network preempts it between any two of its steps.                       *)
(***************************************************************************)
EXTENDS Integers

CONSTANTS
  Fields,      \* the fields of pp_runtime_config_t
  MaxRequests  \* bound: accepted requests

ASSUME ConfigAssumption == Fields # {} /\ MaxRequests \in Nat

\* A field holds the number of the request that wrote it.  Request 0 is the
\* default configuration; a cleared structure is not valid (tlost_cnt = 0).
Cleared == -1
Whole(n) == [f \in Fields |-> n]
Valid(cfg) == \A f \in Fields : cfg[f] # Cleared
Odd(n) == n % 2 = 1

VARIABLES
  reqSeq,     \* runtime_cfg_req_seq
  pending,    \* runtime_cfg_pending
  activeSeq,  \* runtime_cfg_active_seq
  active,     \* runtime_cfg_active
  ppPC,       \* where the PP thread is
  ppSeq,      \* its seq_start
  ppCopy,     \* its requested_runtime_cfg
  ppLeft,     \* the fields it has still to copy
  appliedSeq, \* its applied_runtime_cfg_req_seq
  inUse,      \* the fields of pp_params and trk_ctx.cfg
  rxPC,       \* where the comm_rx thread is
  rxSeq,      \* seq_start in PP_GetRuntimeConfig
  rxCopy,     \* its *out_cfg
  rxLeft,     \* the fields it has still to copy
  issued,     \* history: the number of requests accepted so far
  reported    \* history: the configuration in the last DeviceInfo

vars == <<reqSeq, pending, activeSeq, active, ppPC, ppSeq, ppCopy, ppLeft,
          appliedSeq, inUse, rxPC, rxSeq, rxCopy, rxLeft, issued, reported>>

ppVars == <<activeSeq, active, ppPC, ppSeq, ppCopy, ppLeft, appliedSeq, inUse>>
rxVars == <<reqSeq, pending, rxPC, rxSeq, rxCopy, rxLeft, issued, reported>>

\* The state in which the PP thread first blocks: PP_ThreadStart, then the
\* thread's own start, which applies the default configuration.  No thread of
\* a lower priority has run before.
Init ==
  /\ reqSeq = 0
  /\ pending = Whole(Cleared)
  /\ activeSeq = 2
  /\ active = Whole(0)
  /\ ppPC = "wait"
  /\ ppSeq = 0
  /\ ppCopy = Whole(Cleared)
  /\ ppLeft = {}
  /\ appliedSeq = 0
  /\ inUse = Whole(0)
  /\ rxPC = "idle"
  /\ rxSeq = 0
  /\ rxCopy = Whole(Cleared)
  /\ rxLeft = {}
  /\ issued = 0
  /\ reported = Whole(0)

-----------------------------------------------------------------------------
(* The PP thread. *)

\* An output of the network is ready: PP leaves BQUE_GetReady.
OutputReady ==
  /\ ppPC = "wait"
  /\ ppPC' = "sample"
  /\ UNCHANGED <<activeSeq, active, ppSeq, ppCopy, ppLeft, appliedSeq, inUse,
                 rxVars>>

\* seq_start is read.
Sample ==
  /\ ppPC = "sample"
  /\ ppSeq' = reqSeq
  /\ ppPC' = "check"
  /\ UNCHANGED <<activeSeq, active, ppCopy, ppLeft, appliedSeq, inUse, rxVars>>

\* A writer is at work: try again, without giving up the processor.
Spin ==
  /\ ppPC = "check"
  /\ Odd(ppSeq)
  /\ ppPC' = "sample"
  /\ UNCHANGED <<activeSeq, active, ppSeq, ppCopy, ppLeft, appliedSeq, inUse,
                 rxVars>>

\* Defect for FramesUseLatest: an odd sequence number is taken for a stable one.
BeginCopyUnchecked ==
  /\ ppPC = "check"
  /\ ppLeft' = Fields
  /\ ppPC' = "copy"
  /\ UNCHANGED <<activeSeq, active, ppSeq, ppCopy, appliedSeq, inUse, rxVars>>

BeginCopy ==
  /\ ppPC = "check"
  /\ ~Odd(ppSeq)
  /\ ppLeft' = Fields
  /\ ppPC' = "copy"
  /\ UNCHANGED <<activeSeq, active, ppSeq, ppCopy, appliedSeq, inUse, rxVars>>

CopyPending(f) ==
  /\ ppPC = "copy"
  /\ f \in ppLeft
  /\ ppCopy' = [ppCopy EXCEPT ![f] = pending[f]]
  /\ ppLeft' = ppLeft \ {f}
  /\ UNCHANGED <<activeSeq, active, ppPC, ppSeq, appliedSeq, inUse, rxVars>>

\* seq_end is read.  The copy counts if no writer came by; it is applied if
\* it is new and valid.
EndCopy ==
  /\ ppPC = "copy"
  /\ ppLeft = {}
  /\ IF ppSeq # reqSeq
     THEN ppPC' = "sample" /\ UNCHANGED <<activeSeq, inUse, appliedSeq>>
     ELSE IF reqSeq = 0 \/ reqSeq = appliedSeq
     THEN ppPC' = "run" /\ UNCHANGED <<activeSeq, inUse, appliedSeq>>
     ELSE /\ appliedSeq' = reqSeq
          /\ IF Valid(ppCopy)
             THEN /\ inUse' = ppCopy
                  /\ activeSeq' = activeSeq + 1
                  /\ ppPC' = "apply"
             ELSE ppPC' = "run" /\ UNCHANGED <<activeSeq, inUse>>
  /\ ppLeft' = IF ppPC' = "apply" THEN Fields ELSE {}
  /\ UNCHANGED <<active, ppSeq, ppCopy, rxVars>>

\* pp_apply_runtime_config: the active configuration is overwritten ...
CopyActive(f) ==
  /\ ppPC = "apply"
  /\ f \in ppLeft
  /\ active' = [active EXCEPT ![f] = ppCopy[f]]
  /\ ppLeft' = ppLeft \ {f}
  /\ UNCHANGED <<activeSeq, ppPC, ppSeq, ppCopy, appliedSeq, inUse, rxVars>>

\* ... and its sequence number is even again.
EndApply ==
  /\ ppPC = "apply"
  /\ ppLeft = {}
  /\ activeSeq' = activeSeq + 1
  /\ ppPC' = "run"
  /\ UNCHANGED <<active, ppSeq, ppCopy, ppLeft, appliedSeq, inUse, rxVars>>

\* The frame is postprocessed and tracked with the configuration in use, and
\* the thread blocks for the next output.
ProcessFrame ==
  /\ ppPC = "run"
  /\ ppPC' = "wait"
  /\ UNCHANGED <<activeSeq, active, ppSeq, ppCopy, ppLeft, appliedSeq, inUse,
                 rxVars>>

PostProcess ==
  \/ Sample \/ Spin \/ BeginCopy \/ EndCopy \/ EndApply \/ ProcessFrame
  \/ \E f \in Fields : CopyPending(f) \/ CopyActive(f)

-----------------------------------------------------------------------------
(* The comm_rx thread, which runs only while PP is blocked. *)

\* SetAppConfig with valid values; an invalid one changes nothing.
Request ==
  /\ ppPC = "wait"
  /\ rxPC = "idle"
  /\ issued < MaxRequests
  /\ reqSeq' = reqSeq + 1
  /\ rxLeft' = Fields
  /\ rxPC' = "write"
  /\ UNCHANGED <<pending, rxSeq, rxCopy, issued, reported, ppVars>>

WritePending(f) ==
  /\ ppPC = "wait"
  /\ rxPC = "write"
  /\ f \in rxLeft
  /\ pending' = [pending EXCEPT ![f] = issued + 1]
  /\ rxLeft' = rxLeft \ {f}
  /\ UNCHANGED <<reqSeq, rxPC, rxSeq, rxCopy, issued, reported, ppVars>>

EndRequest ==
  /\ ppPC = "wait"
  /\ rxPC = "write"
  /\ rxLeft = {}
  /\ reqSeq' = reqSeq + 1
  /\ issued' = issued + 1
  /\ rxPC' = "idle"
  /\ UNCHANGED <<pending, rxSeq, rxCopy, rxLeft, reported, ppVars>>

\* Defect for InfoAnswered: a retry keeps the sequence number it began with.
InfoSampleOnce ==
  /\ ppPC = "wait"
  /\ rxPC \in {"idle", "sample"}
  /\ rxSeq' = IF rxPC = "idle" THEN activeSeq ELSE rxSeq
  /\ rxPC' = "read"
  /\ rxLeft' = Fields
  /\ UNCHANGED <<reqSeq, pending, rxCopy, issued, reported, ppVars>>

\* GetDeviceInfo: PP_GetRuntimeConfig reads its seq_start.
InfoSample ==
  /\ ppPC = "wait"
  /\ rxPC \in {"idle", "sample"}
  /\ rxSeq' = activeSeq
  /\ IF Odd(activeSeq)
     THEN rxPC' = "sample" /\ UNCHANGED rxLeft
     ELSE rxPC' = "read" /\ rxLeft' = Fields
  /\ UNCHANGED <<reqSeq, pending, rxCopy, issued, reported, ppVars>>

InfoCopy(f) ==
  /\ ppPC = "wait"
  /\ rxPC = "read"
  /\ f \in rxLeft
  /\ rxCopy' = [rxCopy EXCEPT ![f] = active[f]]
  /\ rxLeft' = rxLeft \ {f}
  /\ UNCHANGED <<reqSeq, pending, rxPC, rxSeq, issued, reported, ppVars>>

\* Defect for ReportsWhole: the second sequence number is not compared.
InfoEndUnchecked ==
  /\ ppPC = "wait"
  /\ rxPC = "read"
  /\ rxLeft = {}
  /\ rxPC' = "idle"
  /\ reported' = rxCopy
  /\ UNCHANGED <<reqSeq, pending, rxSeq, rxCopy, rxLeft, issued, ppVars>>

\* Defect for ReportsNeverOlder: instead of reading again, COM_Send_DeviceInfo
\* falls back to the defaults.
InfoEndDefaults ==
  /\ ppPC = "wait"
  /\ rxPC = "read"
  /\ rxLeft = {}
  /\ rxPC' = "idle"
  /\ reported' = IF rxSeq = activeSeq THEN rxCopy ELSE Whole(0)
  /\ UNCHANGED <<reqSeq, pending, rxSeq, rxCopy, rxLeft, issued, ppVars>>

\* The copy is reported if PP did not write meanwhile, or else taken again.
InfoEnd ==
  /\ ppPC = "wait"
  /\ rxPC = "read"
  /\ rxLeft = {}
  /\ IF rxSeq = activeSeq
     THEN rxPC' = "idle" /\ reported' = rxCopy
     ELSE rxPC' = "sample" /\ UNCHANGED reported
  /\ UNCHANGED <<reqSeq, pending, rxSeq, rxCopy, rxLeft, issued, ppVars>>

\* What comm_rx has begun, it goes on with.
Continue ==
  \/ EndRequest \/ InfoEnd
  \/ rxPC = "sample" /\ InfoSample
  \/ \E f \in Fields : WritePending(f) \/ InfoCopy(f)

-----------------------------------------------------------------------------

Next == OutputReady \/ PostProcess \/ Request \/ InfoSample \/ Continue

Spec == Init /\ [][Next]_vars

\* PP runs whenever it is ready.  comm_rx gets the processor again and again
\* if PP blocks again and again.
FairSpec == Spec /\ WF_vars(PostProcess) /\ SF_vars(Continue)

-----------------------------------------------------------------------------
(* Properties. *)

Values == Cleared .. MaxRequests
Configs == [Fields -> Values]

TypeOK ==
  /\ reqSeq \in 0 .. 2 * MaxRequests
  /\ pending \in Configs
  /\ activeSeq \in 2 .. 2 * MaxRequests + 2
  /\ active \in Configs
  /\ ppPC \in {"wait", "sample", "check", "copy", "apply", "run"}
  /\ ppSeq \in 0 .. 2 * MaxRequests
  /\ ppCopy \in Configs
  /\ ppLeft \subseteq Fields
  /\ appliedSeq \in 0 .. 2 * MaxRequests
  /\ inUse \in Configs
  /\ rxPC \in {"idle", "write", "sample", "read"}
  /\ rxSeq \in 0 .. 2 * MaxRequests + 2
  /\ rxCopy \in Configs
  /\ rxLeft \subseteq Fields
  /\ issued \in 0 .. MaxRequests
  /\ reported \in Configs

\* Every frame is processed with the thresholds of the last accepted request,
\* all of them: a request that PP interrupts half way, or that comes in while
\* PP works on a frame, never mixes two configurations.
FramesUseLatest == ppPC = "run" => inUse = Whole(issued)

\* DeviceInfo never mixes two configurations, although PP can overwrite the
\* active one between any two fields that comm_rx reads.
ReportsWhole == \E n \in 0 .. issued : reported = Whole(n)

\* DeviceInfo never goes back to an older configuration.
ReportsNeverOlder ==
  [][\A f \in Fields : reported'[f] >= reported[f]]_reported

\* DeviceInfo is answered, however often PP makes comm_rx read again.
InfoAnswered == (rxPC = "read") ~> (rxPC = "idle")

\* "Apply host-updated thresholds at a frame boundary" (pp_thread.c:204): PP
\* gets past the configuration of every frame.
AppliedAtFrameBoundary == (ppPC = "sample") ~> (ppPC = "run")
=============================================================================
