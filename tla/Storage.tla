-------------------------------- MODULE Storage --------------------------------
(***************************************************************************)
(* The device's memory: the nonce of the control task (DevNonce) and the    *)
(* count of the water-flow interrupt (WaterFlow) live in one NVS, under     *)
(* 16-bit ids that sys_cfg.c hashes from their keys.  Both are there after  *)
(* a reset, both are missing when the mount has failed, and the shell sets  *)
(* either at any time.  A key whose id is that of the other key would share *)
(* its value.                                                               *)
(***************************************************************************)
EXTENDS DevNonce, WaterFlow

CONSTANT KeyId      \* KeyId[k]: get_key_id of key k

Keys == {"dev_nonce", "water_flow"}

ASSUME KeyAssumption == KeyId \in [Keys -> Nat]

storageVars == <<vars, flowVars>>

StorageInit == Init /\ FlowInit

Collide == KeyId["dev_nonce"] = KeyId["water_flow"]

\* what a write of the nonce makes of the count, and the other way round
NonceWritten == stored' = IF Collide /\ nvs' # nvs THEN nvs' ELSE stored
FlowWritten == nvs' = IF Collide /\ stored' # stored THEN stored' ELSE nvs

-----------------------------------------------------------------------------
\* main: bsp_init, syscfg_init
Main == (BspInit \/ SysCfgInit) /\ UNCHANGED vars

\* the control task starts after them; in an NVS that is not mounted it finds no
\* nonce, and writes none
ControlBoot ==
    /\ main = "up"
    /\ Boot
    /\ ~ mounted /\ pc' = "join" => dev_nonce' = 0 /\ failed'
    /\ UNCHANGED flowVars

ControlInc ==
    /\ IncDevNonce
    /\ ~ mounted => nvs' = nvs /\ failed'
    /\ NonceWritten
    /\ UNCHANGED <<main, mounted, count, pulses, age, shown>>

ControlRadio == (Request \/ Answer \/ TimeOut) /\ UNCHANGED flowVars

ControlTask == ControlBoot \/ ControlInc \/ ControlRadio

\* the interrupt of the flow meter comes between any two of their steps
FlowIsr ==
    /\ Pulse
    /\ FlowWritten
    /\ UNCHANGED <<pc, dev_nonce, ret, accepted, sent, wrapped, failed, resets, lost, sets>>

SensorTask == (\E n \in 1 .. MaxPulses : Measure(n)) /\ UNCHANGED vars
SensorTaskFails == Measure(0) /\ UNCHANGED vars

\* cmd_syscfg_set
Shell ==
    \/ /\ mounted
       /\ \E n \in Nonce : ShellSet(n)
       /\ NonceWritten
       /\ UNCHANGED <<main, mounted, count, pulses, age, shown>>
    \/ /\ \E n \in 0 .. MaxPulses : FlowSet(n)
       /\ FlowWritten
       /\ UNCHANGED <<pc, dev_nonce, ret, accepted, sent, wrapped, failed, resets, lost, sets>>

PowerLoss == Reset /\ FlowReset

\* the device may stay joined, or without its radio, with no pulse to come
Idle == Settled /\ UNCHANGED flowVars

StorageNext ==
    \/ Main \/ ControlTask \/ FlowIsr \/ SensorTask \/ SensorTaskFails
    \/ Shell \/ PowerLoss \/ Idle

StorageSpec == StorageInit /\ [][StorageNext]_storageVars

\* Threads run, lorawan_join returns, and not every read of the NVS fails.
\* Pulses, resets and losses end with their bounds.
FairStorageSpec ==
    /\ StorageSpec
    /\ WF_storageVars(Main)
    /\ WF_storageVars(ControlTask)
    /\ WF_storageVars(SensorTask)
-----------------------------------------------------------------------------
(* Properties *)

\* The NVS keeps its two keys apart: to the control task it is a private cell
\* that behaves as in DevNonce, and to the water-flow counter one that behaves as
\* in WaterFlow, although an interrupt, two tasks and the shell write to it.
KeysApart == Spec /\ FlowSpec
=============================================================================
