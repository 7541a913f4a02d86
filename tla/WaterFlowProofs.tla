--------------------------- MODULE WaterFlowProofs ---------------------------
(***************************************************************************)
(* Proofs about WaterFlow, for any number of pulses, resets, failures and   *)
(* commands of the shell.                                                   *)
(***************************************************************************)
EXTENDS WaterFlow, TLAPS

\* The count in RAM is exact; the one in the NVS, if it is of this boot, lies
\* between what has been reported of this boot and the count in RAM.
Count ==
    /\ count = pulses
    /\ age = "current" => stored = count
    /\ age = "behind" => stored < count
    /\ age # "old" => shown <= stored
    /\ shown <= count

FlowInv == FlowTypeOK /\ Count

LEMMA FlowInitInv == FlowInit => FlowInv
  <1> SUFFICES ASSUME FlowInit PROVE FlowInv
    OBVIOUS
  <1>1. 0 \in 0 .. MaxPulses
    BY FlowAssumption
  <1>2. FlowTypeOK
    BY <1>1 DEF FlowInit, FlowTypeOK
  <1>3. Count
    BY DEF FlowInit, Count
  <1> QED
    BY <1>2, <1>3 DEF FlowInv

LEMMA FlowTypeStep == FlowInv /\ [FlowNext]_flowVars => FlowTypeOK'
  <1> SUFFICES ASSUME FlowTypeOK, Count, [FlowNext]_flowVars PROVE FlowTypeOK'
    BY DEF FlowInv
  <1> USE FlowAssumption
  <1>1. CASE BspInit
    BY <1>1 DEF BspInit, FlowTypeOK
  <1>2. CASE SysCfgInit
    BY <1>2 DEF SysCfgInit, FlowTypeOK
  <1>3. CASE Pulse
    <2>1. pulses' = pulses + 1 /\ pulses' \in 0 .. MaxPulses
      BY <1>3 DEF Pulse, FlowTypeOK
    <2>2. count' \in 0 .. MaxPulses
      BY <1>3, <2>1 DEF Pulse, Count
    <2>3. stored' \in {stored, count'} /\ age' \in {"old", "current", "behind"}
      BY <1>3 DEF Pulse, WriteFlow
    <2>4. main' = main /\ mounted' = mounted /\ shown' = shown
      BY <1>3 DEF Pulse
    <2> QED
      BY <2>1, <2>2, <2>3, <2>4 DEF FlowTypeOK
  <1>4. CASE FlowReset
    <2>1. 0 \in 0 .. MaxPulses
      OBVIOUS
    <2> QED
      BY <1>4, <2>1 DEF FlowReset, FlowTypeOK
  <1>5. ASSUME NEW n \in 0 .. MaxPulses, Measure(n) PROVE FlowTypeOK'
    <2>1. shown' \in 0 .. MaxPulses
      BY <1>5 DEF Measure, FlowTypeOK
    <2> QED
      BY <1>5, <2>1 DEF Measure, FlowTypeOK
  <1>6. ASSUME NEW n \in 0 .. MaxPulses, FlowSet(n) PROVE FlowTypeOK'
    BY <1>6 DEF FlowSet, FlowTypeOK
  <1>7. CASE UNCHANGED flowVars
    BY <1>7 DEF flowVars, FlowTypeOK
  <1> QED
    BY <1>1, <1>2, <1>3, <1>4, <1>5, <1>6, <1>7 DEF FlowNext

LEMMA CountStep == FlowInv /\ [FlowNext]_flowVars => Count'
  <1> SUFFICES ASSUME FlowTypeOK, Count, [FlowNext]_flowVars PROVE Count'
    BY DEF FlowInv
  <1> USE DEF FlowTypeOK, Count
  <1>1. CASE BspInit
    BY <1>1 DEF BspInit
  <1>2. CASE SysCfgInit
    BY <1>2 DEF SysCfgInit
  <1>3. CASE Pulse
    <2>1. count' = pulses' /\ count' = count + 1 /\ shown' = shown /\ shown' <= count'
      BY <1>3 DEF Pulse
    <2>2. CASE stored' = count' /\ age' = "current"
      BY <2>1, <2>2
    <2>3. CASE stored' = stored /\ age' = IF age = "old" THEN "old" ELSE "behind"
      BY <2>1, <2>3
    <2> QED
      BY <1>3, <2>2, <2>3 DEF Pulse, WriteFlow
  <1>4. CASE FlowReset
    BY <1>4 DEF FlowReset
  <1>5. ASSUME NEW n \in 0 .. MaxPulses, Measure(n) PROVE Count'
    BY <1>5 DEF Measure
  <1>6. ASSUME NEW n \in 0 .. MaxPulses, FlowSet(n) PROVE Count'
    BY <1>6 DEF FlowSet
  <1>7. CASE UNCHANGED flowVars
    BY <1>7 DEF flowVars
  <1> QED
    BY <1>1, <1>2, <1>3, <1>4, <1>5, <1>6, <1>7 DEF FlowNext

LEMMA FlowInvStep == FlowInv /\ [FlowNext]_flowVars => FlowInv'
  BY FlowTypeStep, CountStep DEF FlowInv

\* The variables of the water-flow counter always have their types.
THEOREM FlowTypeCorrect == FlowSpec => []FlowTypeOK
  <1>1. FlowInv => FlowTypeOK
    BY DEF FlowInv
  <1> QED
    BY FlowInitInv, FlowInvStep, <1>1, PTL DEF FlowSpec

\* Every write of the count that succeeds makes up for all that have failed or
\* came before the NVS was mounted.
THEOREM PulsesMadeUpAlways == FlowSpec => []PulsesMadeUp
  <1>1. FlowInv => PulsesMadeUp
    BY DEF FlowInv, Count, PulsesMadeUp
  <1> QED
    BY FlowInitInv, FlowInvStep, <1>1, PTL DEF FlowSpec

\* Within a boot, the reported counts never fall.
THEOREM ReportsNeverFallEver == FlowSpec => ReportsNeverFall
  <1>1. FlowInv /\ [FlowNext]_flowVars
          => [\A n \in 1 .. MaxPulses : Measure(n) /\ age # "old" => n >= shown]_flowVars
    BY DEF FlowInv, FlowTypeOK, Count, Measure
  <1> QED
    BY FlowInitInv, FlowInvStep, <1>1, PTL DEF FlowSpec, ReportsNeverFall
=============================================================================
