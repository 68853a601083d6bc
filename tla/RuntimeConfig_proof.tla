------------------------ MODULE RuntimeConfig_proof ------------------------
(***************************************************************************)
(* Proofs about RuntimeConfig, for every set of fields and every number of *)
(* requests: no frame is processed with a mixture of two configurations or *)
(* with an old one, and no report mixes two configurations or goes back.   *)
(*                                                                         *)
(* The argument rests on the priorities: comm_rx moves only while PP is    *)
(* blocked, so once PP has sampled an even sequence number, nothing can    *)
(* change the request any more.                                            *)
(***************************************************************************)
EXTENDS RuntimeConfig, TLAPS

-----------------------------------------------------------------------------
(* The inductive invariant. *)

\* The sequence number of the request is odd exactly while comm_rx writes.
Requested ==
  /\ reqSeq = 2 * issued + (IF rxPC = "write" THEN 1 ELSE 0)
  /\ rxPC = "write" => issued < MaxRequests
  /\ rxPC = "write" => \A f \in Fields \ rxLeft : pending[f] = issued + 1
  /\ rxPC # "write" /\ issued > 0 => \A f \in Fields : pending[f] = issued

\* What PP has sampled, and copied since, is still what is requested.
Sampled ==
  /\ ppPC \in {"check", "copy"} => ppSeq = reqSeq
  /\ ppPC \in {"copy", "apply", "run"} => rxPC # "write"
  /\ ppPC = "copy" => \A f \in Fields \ ppLeft : ppCopy[f] = pending[f]

\* The configuration in use is the one of the last request applied.
Applied ==
  /\ appliedSeq <= reqSeq
  /\ \A f \in Fields : appliedSeq = 2 * inUse[f]
  /\ ppPC \in {"apply", "run"} => \A f \in Fields : inUse[f] = issued

\* The active configuration is the one in use, except while PP copies it.
Activated ==
  /\ ppPC = "apply" => /\ activeSeq <= appliedSeq + 1
                       /\ \A f \in Fields : ppCopy[f] = inUse[f]
                       /\ \A f \in Fields \ ppLeft : active[f] = inUse[f]
  /\ ppPC # "apply" => /\ activeSeq <= appliedSeq + 2
                       /\ \A f \in Fields : active[f] = inUse[f]

\* While the sequence number is the one comm_rx has sampled, what it has
\* copied is the active configuration.
Read ==
  /\ rxPC = "read" => rxSeq <= activeSeq
  /\ rxPC = "read" /\ ppPC = "apply" => rxSeq < activeSeq
  /\ rxPC = "read" /\ rxSeq = activeSeq =>
       \A f \in Fields \ rxLeft : rxCopy[f] = active[f]

\* The last report is whole, and not newer than the configuration in use.
Reported ==
  /\ \A f, g \in Fields : reported[f] = reported[g]
  /\ \A f \in Fields : 0 <= reported[f] /\ reported[f] <= inUse[f]

IndInv ==
  /\ TypeOK
  /\ Requested
  /\ Sampled
  /\ Applied
  /\ Activated
  /\ Read
  /\ Reported

-----------------------------------------------------------------------------

\* The sequence number of a request tells whether comm_rx is writing.
LEMMA OddWhileWriting ==
  ASSUME NEW n \in Nat
  PROVE  ~Odd(2 * n) /\ Odd(2 * n + 1)
BY DEF Odd

\* The initial state satisfies the invariant.
LEMMA InitEstablishesIndInv == Init => IndInv
BY ConfigAssumption
   DEF Init, IndInv, TypeOK, Requested, Sampled, Applied, Activated, Read,
       Reported, Configs, Values, Cleared, Whole

\* Every step of PP keeps the invariant.
LEMMA PPKeepsIndInv == IndInv /\ (OutputReady \/ PostProcess) => IndInv'
<1> SUFFICES ASSUME IndInv, OutputReady \/ PostProcess PROVE IndInv'
  OBVIOUS
<1> USE ConfigAssumption
<1> USE DEF IndInv, TypeOK, Configs, Values, Cleared
<1>1. CASE OutputReady
  BY <1>1 DEF OutputReady, rxVars, Requested, Sampled, Applied, Activated,
              Read, Reported
<1>2. CASE Sample
  BY <1>2 DEF Sample, rxVars, Requested, Sampled, Applied, Activated, Read,
              Reported
<1>3. CASE Spin
  BY <1>3 DEF Spin, rxVars, Requested, Sampled, Applied, Activated, Read,
              Reported
<1>4. CASE BeginCopy
  <2>1. rxPC # "write"
    BY <1>4, OddWhileWriting DEF BeginCopy, Requested, Sampled
  <2> QED
    BY <1>4, <2>1 DEF BeginCopy, rxVars, Requested, Sampled, Applied,
                      Activated, Read, Reported
<1>5. ASSUME NEW f \in Fields, CopyPending(f) PROVE IndInv'
  BY <1>5 DEF CopyPending, rxVars, Requested, Sampled, Applied, Activated,
              Read, Reported
<1>6. CASE EndCopy
  <2>1. /\ ppPC = "copy" /\ ppLeft = {} /\ ppSeq = reqSeq
        /\ rxPC # "write" /\ reqSeq = 2 * issued
        /\ \A f \in Fields : ppCopy[f] = pending[f]
    BY <1>6 DEF EndCopy, Requested, Sampled
  <2>a. /\ appliedSeq \in Nat /\ issued \in Nat /\ appliedSeq <= reqSeq
        /\ \A f \in Fields : inUse[f] \in Int /\ appliedSeq = 2 * inUse[f]
    BY DEF Applied
  <2>2. UNCHANGED <<active, ppSeq, ppCopy, reqSeq, pending, rxPC, rxSeq,
                    rxCopy, rxLeft, issued, reported>>
    BY <1>6 DEF EndCopy, rxVars
  <2>3. CASE reqSeq = 0 \/ reqSeq = appliedSeq
    <3>1. ppPC' = "run" /\ ppLeft' = {}
          /\ UNCHANGED <<activeSeq, inUse, appliedSeq>>
      BY <1>6, <2>1, <2>3 DEF EndCopy
    <3>2. ASSUME NEW f \in Fields PROVE inUse[f] = issued
      BY <2>a, <2>1, <2>3
    <3> QED
      BY <2>1, <2>2, <3>1, <3>2
         DEF Requested, Sampled, Applied, Activated, Read, Reported
  <2>4. CASE ~(reqSeq = 0 \/ reqSeq = appliedSeq)
    <3>1. issued > 0 /\ \A f \in Fields : ppCopy[f] = issued
      <4>1. issued > 0
        BY <2>a, <2>1, <2>4
      <4> QED
        BY <2>1, <4>1 DEF Requested
    <3>2. Valid(ppCopy)
      <4>1. issued # Cleared
        BY <2>a
      <4> QED
        BY <3>1, <4>1 DEF Valid
    <3>3. /\ appliedSeq' = reqSeq /\ inUse' = ppCopy
          /\ activeSeq' = activeSeq + 1
          /\ ppPC' = "apply" /\ ppLeft' = Fields
      BY <1>6, <2>1, <2>4, <3>2 DEF EndCopy
    <3>4. ASSUME NEW f \in Fields PROVE inUse[f] < issued
      BY <2>a, <2>1, <2>4
    <3>5. appliedSeq + 2 <= reqSeq /\ activeSeq <= appliedSeq + 2
      <4>1. PICK f \in Fields : TRUE
        OBVIOUS
      <4>2. inUse[f] < issued /\ appliedSeq = 2 * inUse[f] /\ inUse[f] \in Int
        BY <2>a, <3>4
      <4> QED
        BY <2>a, <2>1, <4>2 DEF Activated
    <3>6. TypeOK'
      BY <2>1, <2>2, <3>3, <3>5
    <3>7. Applied' /\ Reported'
      BY <2>1, <2>2, <3>1, <3>3, <3>4 DEF Applied, Reported
    <3>8. Requested' /\ Sampled' /\ Activated' /\ Read'
      BY <2>1, <2>2, <3>3, <3>5
         DEF Requested, Sampled, Applied, Activated, Read
    <3> QED
      BY <3>6, <3>7, <3>8
  <2> QED
    BY <2>3, <2>4
<1>7. ASSUME NEW f \in Fields, CopyActive(f) PROVE IndInv'
  BY <1>7 DEF CopyActive, rxVars, Requested, Sampled, Applied, Activated,
              Read, Reported
<1>8. CASE EndApply
  BY <1>8 DEF EndApply, rxVars, Requested, Sampled, Applied, Activated, Read,
              Reported
<1>9. CASE ProcessFrame
  BY <1>9 DEF ProcessFrame, rxVars, Requested, Sampled, Applied, Activated,
              Read, Reported
<1> QED
  BY <1>1, <1>2, <1>3, <1>4, <1>5, <1>6, <1>7, <1>8, <1>9 DEF PostProcess

\* Every step of comm_rx keeps the invariant.
LEMMA RxKeepsIndInv == IndInv /\ (Request \/ InfoSample \/ Continue) => IndInv'
<1> SUFFICES ASSUME IndInv, Request \/ InfoSample \/ Continue PROVE IndInv'
  OBVIOUS
<1> USE ConfigAssumption
<1> USE DEF IndInv, TypeOK, Configs, Values, Cleared
<1>1. CASE Request
  BY <1>1 DEF Request, ppVars, Requested, Sampled, Applied, Activated, Read,
              Reported
<1>2. ASSUME NEW f \in Fields, WritePending(f) PROVE IndInv'
  BY <1>2 DEF WritePending, ppVars, Requested, Sampled, Applied, Activated,
              Read, Reported, Cleared
<1>3. CASE EndRequest
  BY <1>3 DEF EndRequest, ppVars, Requested, Sampled, Applied, Activated, Read,
              Reported
<1>4. CASE InfoSample
  BY <1>4 DEF InfoSample, ppVars, Requested, Sampled, Applied, Activated, Read,
              Reported
<1>5. ASSUME NEW f \in Fields, InfoCopy(f) PROVE IndInv'
  BY <1>5 DEF InfoCopy, ppVars, Requested, Sampled, Applied, Activated, Read,
              Reported
<1>6. CASE InfoEnd
  BY <1>6 DEF InfoEnd, ppVars, Requested, Sampled, Applied, Activated, Read,
              Reported
<1> QED
  BY <1>1, <1>2, <1>3, <1>4, <1>5, <1>6 DEF Continue

\* Every step keeps the invariant.
LEMMA StepKeepsIndInv == IndInv /\ [Next]_vars => IndInv'
<1>1. IndInv /\ UNCHANGED vars => IndInv'
  BY DEF vars, IndInv, TypeOK, Requested, Sampled, Applied, Activated, Read,
         Reported, Configs, Values
<1> QED
  BY <1>1, PPKeepsIndInv, RxKeepsIndInv DEF Next

-----------------------------------------------------------------------------

\* The inductive invariant holds in every reachable state.
THEOREM IndInvHolds == Spec => []IndInv
BY InitEstablishesIndInv, StepKeepsIndInv, PTL DEF Spec

\* Type correctness; the sequence numbers grow by two per request at most.
THEOREM TypeCorrect == Spec => []TypeOK
<1>1. IndInv => TypeOK
  BY DEF IndInv
<1> QED
  BY <1>1, IndInvHolds, PTL

\* A frame is processed with the last accepted configuration, whole
\* (pp_thread.c:204-221).
THEOREM FramesAreConsistent == Spec => []FramesUseLatest
<1>1. IndInv => FramesUseLatest
  BY DEF IndInv, TypeOK, Applied, FramesUseLatest, Whole, Configs, Values
<1> QED
  BY <1>1, IndInvHolds, PTL

\* COM_Send_DeviceInfo reports one configuration, never parts of two.
THEOREM ReportsAreWhole == Spec => []ReportsWhole
<1>1. ASSUME IndInv PROVE ReportsWhole
  <2>1. PICK f \in Fields : TRUE
    BY ConfigAssumption
  <2>2. reported[f] \in 0 .. issued
    BY <1>1 DEF IndInv, TypeOK, Requested, Applied, Reported, Configs, Values,
                Cleared
  <2>3. reported = Whole(reported[f])
    BY <1>1 DEF IndInv, TypeOK, Reported, Whole, Configs, Values
  <2> QED
    BY <2>2, <2>3 DEF ReportsWhole
<1> QED
  BY <1>1, IndInvHolds, PTL

\* COM_Send_DeviceInfo never reports an older configuration than before.
THEOREM ReportsNeverGoBack == Spec => ReportsNeverOlder
<1> DEFINE NeverOlder == \A f \in Fields : reported'[f] >= reported[f]
<1>1. ASSUME IndInv, [Next]_vars PROVE [NeverOlder]_reported
  <2>1. CASE InfoEnd
    BY <1>1, <2>1 DEF InfoEnd, IndInv, TypeOK, Activated, Read, Reported,
                      Configs, Values
  <2>2. CASE ~InfoEnd
    <3>1. reported' = reported
      BY <1>1, <2>2 DEF Next, OutputReady, PostProcess, Sample, Spin, BeginCopy,
         CopyPending, EndCopy, CopyActive, EndApply, ProcessFrame, Request,
         InfoSample, Continue, EndRequest, WritePending, InfoCopy, rxVars, vars
    <3> QED
      BY <3>1
  <2> QED
    BY <2>1, <2>2
<1>2. [][NeverOlder]_reported <=> ReportsNeverOlder
  BY DEF ReportsNeverOlder
<1> QED
  BY <1>1, <1>2, IndInvHolds, PTL DEF Spec
=============================================================================
