------------------------------- MODULE WaterFlow -------------------------------
(***************************************************************************)
(* The water-flow counter (bsp.c, sensor_task.c).  The interrupt of the     *)
(* flow meter's pin counts pulses in RAM and writes each count to the NVS,  *)
(* from where the sensor task reads the count it reports.  bsp_init enables *)
(* the interrupt before syscfg_init mounts the NVS; the mount and every     *)
(* access may fail, and all those results are ignored.                      *)
(*                                                                          *)
(* The names of this module differ from those of DevNonce, so that Storage  *)
(* can extend both.                                                         *)
(***************************************************************************)
EXTENDS Naturals

CONSTANT MaxPulses      \* bound: pulses in one boot (the count has 32 bits)

ASSUME FlowAssumption == MaxPulses \in Nat

VARIABLES
    main,       \* the main thread: "off", "bsp" (bsp_init is done), "up"
    mounted,    \* the NVS is mounted
    count,      \* water_flower_count
    stored,     \* "water_flow" in the NVS: the number atoi makes of its text
    pulses,     \* history: the pulses since the interrupt was enabled
    age,        \* history: "old" if this boot has not written the count, "current"
                \* if it has written the last one, otherwise "behind"
    shown       \* history: the last count of this boot that was reported, or 0

flowVars == <<main, mounted, count, stored, pulses, age, shown>>

FlowInit ==
    /\ main = "off" /\ mounted = FALSE
    /\ count = 0 /\ stored = 0
    /\ pulses = 0 /\ age = "old" /\ shown = 0

-----------------------------------------------------------------------------
\* bsp_init: gpio_pin_interrupt_set enables the interrupt
BspInit ==
    /\ main = "off"
    /\ main' = "bsp"
    /\ UNCHANGED <<mounted, count, stored, pulses, age, shown>>

\* syscfg_init, which may fail; main goes on, and starts the tasks
SysCfgInit ==
    /\ main = "bsp"
    /\ mounted' \in BOOLEAN
    /\ main' = "up"
    /\ UNCHANGED <<count, stored, pulses, age, shown>>

\* syscfg_set of "water_flow" by the interrupt: without a mounted NVS it fails,
\* and it may fail with one, also because it interrupts another access
WriteFlow(n) ==
    \/ mounted /\ stored' = n /\ age' = "current"
    \/ stored' = stored /\ age' = IF age = "old" THEN "old" ELSE "behind"

\* Mutant: only pulses that could be written are counted.
PulseIfWritten ==
    /\ main # "off" /\ pulses < MaxPulses
    /\ pulses' = pulses + 1
    /\ WriteFlow(count + 1)
    /\ count' = IF stored' = count + 1 THEN count + 1 ELSE count
    /\ UNCHANGED <<main, mounted, shown>>

\* Mutant: the counter is narrow, and starts over when it is full.
PulseStartsOver ==
    /\ main # "off" /\ pulses < MaxPulses
    /\ pulses' = pulses + 1
    /\ count' = (count % 2) + 1
    /\ WriteFlow(count')
    /\ UNCHANGED <<main, mounted, shown>>

\* water_flower_check, at a rising edge of the pin
Pulse ==
    /\ main # "off" /\ pulses < MaxPulses
    /\ pulses' = pulses + 1
    /\ count' = count + 1
    /\ WriteFlow(count')
    /\ UNCHANGED <<main, mounted, shown>>

\* Mutant: the count is read once in a boot.
MeasureOnce(n) ==
    /\ main = "up"
    /\ n = 0 \/ (mounted /\ n = IF shown = 0 THEN stored ELSE shown)
    /\ shown' = IF n = 0 \/ age = "old" THEN shown ELSE n
    /\ UNCHANGED <<main, mounted, count, stored, pulses, age>>

\* sensor_measure_msg_handler: the count n that is reported to the event task is
\* what syscfg_get has read, or 0, from an empty text, when that fails
Measure(n) ==
    /\ main = "up"
    /\ n = 0 \/ (mounted /\ n = stored)
    /\ shown' = IF n = 0 \/ age = "old" THEN shown ELSE n
    /\ UNCHANGED <<main, mounted, count, stored, pulses, age>>

\* cmd_syscfg_set: `syscfg set water_flow <n>`
FlowSet(n) ==
    /\ mounted
    /\ stored' = n /\ age' = "old"
    /\ UNCHANGED <<main, mounted, count, pulses, shown>>

\* Mutant: the count survives in RAM that nobody clears.
FlowResetKeeps ==
    /\ main' = "off" /\ mounted' = FALSE
    /\ count' = count
    /\ pulses' = 0 /\ age' = "old" /\ shown' = 0
    /\ UNCHANGED stored

\* power is lost: what was not in the NVS is gone
FlowReset ==
    /\ main' = "off" /\ mounted' = FALSE
    /\ count' = 0
    /\ pulses' = 0 /\ age' = "old" /\ shown' = 0
    /\ UNCHANGED stored

FlowNext ==
    \/ BspInit \/ SysCfgInit
    \/ Pulse
    \/ FlowReset
    \/ \E n \in 0 .. MaxPulses : Measure(n) \/ FlowSet(n)

FlowSpec == FlowInit /\ [][FlowNext]_flowVars
-----------------------------------------------------------------------------
(* Properties *)

\* The variables have their types.
FlowTypeOK ==
    /\ main \in {"off", "bsp", "up"}
    /\ mounted \in BOOLEAN
    /\ count \in 0 .. MaxPulses /\ stored \in 0 .. MaxPulses
    /\ pulses \in 0 .. MaxPulses
    /\ age \in {"old", "current", "behind"}
    /\ shown \in 0 .. MaxPulses

\* No pulse is lost for good: whatever came before the NVS was mounted, and
\* however many writes failed, the next write that succeeds makes the count in
\* the NVS exact; in between it is too small, never too large.
PulsesMadeUp ==
    /\ age = "current" => stored = pulses
    /\ age = "behind" => stored < pulses

\* Within a boot, counts of this boot are reported in increasing order, whatever
\* failed, overtook or was set by the shell in between.  (Only a count that an
\* earlier boot has left behind can be followed by a smaller one, and a failed
\* read is reported as 0.)
ReportsNeverFall ==
    [][\A n \in 1 .. MaxPulses : Measure(n) /\ age # "old" => n >= shown]_flowVars

\* The last pulse, once written, is reported in the end.
LastPulseReported == <>[](age = "current" => shown = pulses)
=============================================================================
