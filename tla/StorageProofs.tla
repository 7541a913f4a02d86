----------------------------- MODULE StorageProofs -----------------------------
(***************************************************************************)
(* Storage implements DevNonce and WaterFlow side by side, for any number   *)
(* of pulses, nonces, resets, failures and commands, if the hash gives the  *)
(* two keys different ids (which TLC computes, in MCStorage).  What is      *)
(* proved of either module therefore holds of the device.                   *)
(***************************************************************************)
EXTENDS Storage, DevNonceProofs, WaterFlowProofs

\* With two ids, a write of one key leaves the value of the other alone.
LEMMA Apart ==
    ASSUME ~ Collide
    PROVE  /\ NonceWritten => stored' = stored
           /\ FlowWritten => nvs' = nvs
  BY DEF NonceWritten, FlowWritten

\* Each step of the device is a step of the nonce's protocol, or leaves it alone.
LEMMA NonceStep ==
    ASSUME ~ Collide, [StorageNext]_storageVars
    PROVE  [Next]_vars
  <1>1. CASE Main
    BY <1>1 DEF Main
  <1>2. CASE ControlTask
    BY <1>2 DEF ControlTask, ControlBoot, ControlInc, ControlRadio, Next, Joining
  <1>3. CASE FlowIsr
    BY <1>3, Apart DEF FlowIsr, vars
  <1>4. CASE SensorTask \/ SensorTaskFails
    BY <1>4 DEF SensorTask, SensorTaskFails
  <1>5. CASE Shell
    BY <1>5, Apart DEF Shell, Next, vars
  <1>6. CASE PowerLoss \/ Idle
    BY <1>6 DEF PowerLoss, Idle, Next
  <1>7. CASE UNCHANGED storageVars
    BY <1>7 DEF storageVars
  <1> QED
    BY <1>1, <1>2, <1>3, <1>4, <1>5, <1>6, <1>7 DEF StorageNext

\* Each step of the device is a step of the flow counter, or leaves it alone.
LEMMA FlowStep ==
    ASSUME ~ Collide, [StorageNext]_storageVars
    PROVE  [FlowNext]_flowVars
  <1>1. CASE Main
    BY <1>1 DEF Main, FlowNext
  <1>2. CASE ControlBoot \/ ControlRadio \/ Idle
    BY <1>2 DEF ControlBoot, ControlRadio, Idle
  <1>3. CASE ControlInc
    BY <1>3, Apart DEF ControlInc, flowVars
  <1>4. CASE FlowIsr \/ PowerLoss
    BY <1>4 DEF FlowIsr, PowerLoss, FlowNext
  <1>5. CASE SensorTask
    <2>1. PICK n \in 1 .. MaxPulses : Measure(n)
      BY <1>5 DEF SensorTask
    <2>2. n \in 0 .. MaxPulses
      BY FlowAssumption
    <2> QED
      BY <2>1, <2>2 DEF FlowNext
  <1>6. CASE SensorTaskFails
    <2>1. 0 \in 0 .. MaxPulses
      BY FlowAssumption
    <2> QED
      BY <1>6, <2>1 DEF SensorTaskFails, FlowNext
  <1>7. CASE Shell
    BY <1>7, Apart DEF Shell, FlowNext, flowVars
  <1>8. CASE UNCHANGED storageVars
    BY <1>8 DEF storageVars
  <1> QED
    BY <1>1, <1>2, <1>3, <1>4, <1>5, <1>6, <1>7, <1>8 DEF StorageNext, ControlTask

\* With different ids, the nonce and the count behave as if each had a memory of
\* its own, whatever interrupts, tasks and the shell do to the other.
THEOREM KeysStayApart == ASSUME ~ Collide PROVE StorageSpec => KeysApart
  <1>1. StorageInit => Init /\ FlowInit
    BY DEF StorageInit
  <1>2. [StorageNext]_storageVars => [Next]_vars
    BY NonceStep
  <1>3. [StorageNext]_storageVars => [FlowNext]_flowVars
    BY FlowStep
  <1> QED
    BY <1>1, <1>2, <1>3, PTL DEF StorageSpec, KeysApart, Spec, FlowSpec

-----------------------------------------------------------------------------
(* What the device inherits from its two parts *)

\* In the device, too, the variables of both keep their types.
THEOREM StorageTypeCorrect ==
    ASSUME ~ Collide
    PROVE  StorageSpec => []TypeOK /\ []FlowTypeOK
  BY KeysStayApart, NonceTypeCorrect, FlowTypeCorrect, PTL DEF KeysApart

\* Every write of the count that succeeds makes up for the pulses before it,
\* whatever the control task and the shell write in between.
THEOREM StoragePulsesMadeUp ==
    ASSUME ~ Collide
    PROVE  StorageSpec => []PulsesMadeUp
  BY KeysStayApart, PulsesMadeUpAlways, PTL DEF KeysApart

\* The flow interrupt's writes do not make a join request fall behind an earlier one.
THEOREM StorageNoncesNeverFall ==
    ASSUME ~ Collide
    PROVE  StorageSpec => NoncesNeverFall
  BY KeysStayApart, NoncesNeverFallEver, PTL DEF KeysApart

\* The writes of the nonce do not make a reported count fall.
THEOREM StorageReportsNeverFall ==
    ASSUME ~ Collide
    PROVE  StorageSpec => ReportsNeverFall
  BY KeysStayApart, ReportsNeverFallEver, PTL DEF KeysApart
=============================================================================
