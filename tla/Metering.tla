------------------------------ MODULE Metering ------------------------------
(***************************************************************************)
(* meter.c: every period of the PIT its interrupt handler reads voltage    *)
(* and current and wakes a thread for each; the current thread wakes       *)
(* CalcThread, which multiplies the two instantaneous values and, once per *)
(* cycle of ARRAY_SIZE samples, updates energy, power, power factor and    *)
(* cost.  The instantaneous values are plain globals, CalcThread is almost *)
(* the least urgent thread, and the next period may come before it is      *)
(* done: ProtocolThread outranks it, and erases flash for several periods. *)
(*                                                                         *)
(* Units: Meter_Energy is in 8192 / 2^32 J, the energy of one unit of      *)
(* sumOfPower in 1.25 ms; Meter_Cost is in 2^-32 of the price a rate is in *)
(* 2^-16 of, as in the code.                                               *)
(***************************************************************************)
EXTENDS Sampling

CONSTANTS
    Readings,             \* pairs of readings <<voltage, current>>
    Rates, InitialRate,   \* what Tariff_GetRate can return, scaled, and does at first
    JOULE_PER_KWH,        \* 3600000 in the code, scaled as the rates are
    MaxTicks,             \* bound: periods of the PIT
    MaxChanges            \* bound: changes of mode or rate

ASSUME MeteringAssumption ==
    /\ Readings \subseteq Int \X Int
    /\ Rates \subseteq Nat /\ InitialRate \in Rates
    /\ JOULE_PER_KWH \in Nat \ {0}
    /\ {MaxTicks, MaxChanges} \subseteq Nat

VARIABLES
    count, waiters,                      \* the kernel's semaphores
    at,                                  \* the next statement of each thread
    isr,                                 \* where PIT_ISR is
    Meter_Voltage, Meter_Current,
    InstantaneousVoltage, InstantaneousCurrent,
    voltage, current,                    \* the two windows and RMS values
    frequency,                           \* MeterFrequency's variables
    TestMode, rate,                      \* set by the protocol
    loaded, cnt, sumOfPower, energyForOnePeriod,     \* CalcThread's variables
    Meter_Energy, Meter_AveragePower, Meter_PowerFactor, Meter_Cost,
    ticks, changes,
    cycles,                              \* cycles CalcThread has completed
    truth,                               \* what an ideal meter has counted
    disturbed                            \* see Tick and Change

threads == {"VoltageThread", "CurrentThread", "CalcThread"}
priority == [t \in threads |->
    CASE t = "VoltageThread" -> 3 [] t = "CurrentThread" -> 4 [] t = "CalcThread" -> 8]
semaphores == {"Voltage", "Current", "Calc"}

INSTANCE OS WITH Threads <- threads, Semaphores <- semaphores, Priority <- priority

osV == <<count, waiters>>
readingV == <<Meter_Voltage, Meter_Current>>
channelV == <<InstantaneousVoltage, InstantaneousCurrent, voltage, current, frequency>>
modeV == <<TestMode, rate, changes>>
calcV == <<loaded, cnt, sumOfPower, energyForOnePeriod, cycles>>
meterV == <<Meter_Energy, Meter_AveragePower, Meter_PowerFactor, Meter_Cost>>
histV == <<ticks, truth, disturbed>>
vars == <<osV, at, isr, readingV, channelV, modeV, calcV, meterV, histV>>

Init ==
    /\ OS_SemaphoreCreate([s \in semaphores |-> 0])
    /\ at = [t \in threads |-> "wait"] /\ isr = "out"
    /\ Meter_Voltage = 0 /\ Meter_Current = 0
    /\ InstantaneousVoltage = 0 /\ InstantaneousCurrent = 0
    /\ voltage = NewChannel /\ current = NewChannel /\ frequency = NewFrequency
    /\ TestMode = FALSE /\ rate = InitialRate /\ changes = 0
    /\ loaded = 0 /\ cnt = 0 /\ sumOfPower = 0 /\ energyForOnePeriod = 0 /\ cycles = 0
    /\ Meter_Energy = 0 /\ Meter_AveragePower = 0
    /\ Meter_PowerFactor = 0 /\ Meter_Cost = 0
    /\ ticks = 0 /\ disturbed = FALSE
    /\ truth = [sum |-> 0, n |-> 0, energy |-> 0, cost |-> 0, lost |-> 0]

-----------------------------------------------------------------------------
(* Arithmetic *)

\* Fault: a negative sum is not cut.
WattsUncut(sum) == (sum + 82) \div 164

\* From 100/2^30 to 32Q16, rounded, and cut at 0.
Watts(sum) == LET rounded == (sum + 82) \div 164 IN IF rounded < 0 THEN 0 ELSE rounded

\* Protocol_GetTime(100), in units of 8192: 1.25 ms, or 3600 times that.
Protocol_GetTime == IF TestMode THEN 3600 ELSE 1

\* The price of a cycle: (energy >> 16) * rate / 3600000, with both truncations.
Cost(energy) == ((energy \div 8) * rate) \div JOULE_PER_KWH

AveragePower(sum) == ((sum * 100) \div ARRAY_SIZE) \div 1000

\* ((V * I << 16) / (1000 * P)) >> 8.  By 0 the division is undefined in C;
\* the library routine returns all ones, or 0 for 0 / 0.
PowerFactors(power) ==
    LET apparent == voltage.rms * current.rms
        true == 1000 * power
    IN  IF power = 0 THEN {0, Word - 1}
        ELSE {(256 * (apparent \div true) + (256 * (apparent % true)) \div true) % Word}

-----------------------------------------------------------------------------
(* Scheduling *)

Running(t) ==
    /\ isr = "out" /\ Ready(t)
    /\ \A u \in threads : priority[u] < priority[t] => ~ Ready(u)

Step(t, from, to) ==
    /\ Running(t)
    /\ at[t] = from
    /\ at' = [at EXCEPT ![t] = to]

AtRest == isr = "out" /\ \A t \in threads : ~ Ready(t)

\* The last reading has been multiplied, and none other is under way.
Taken ==
    /\ isr = "out" /\ count["Calc"] = 0
    /\ ~ Ready("VoltageThread") /\ ~ Ready("CurrentThread")
    /\ Ready("CalcThread") => at["CalcThread"] \in {"energy", "power", "cost"}

-----------------------------------------------------------------------------
(* The interrupt and the protocol *)

\* What a meter that takes no time counts at a reading.
Ideal(v, c) ==
    LET sum == truth.sum + v * c
        energy == Watts(sum) * Protocol_GetTime
    IN  IF truth.n + 1 < ARRAY_SIZE
        THEN [truth EXCEPT !.sum = sum, !.n = @ + 1]
        ELSE [sum |-> 0, n |-> 0, energy |-> truth.energy + energy,
              cost |-> truth.cost + energy * rate,
              lost |-> truth.lost + 8 * (JOULE_PER_KWH - 1) + 7 * rate]

\* PIT_ISR reads both channels and MeterCallback signals the voltage thread...
PIT_ISR ==
    /\ isr = "out" /\ ticks < MaxTicks
    /\ \E reading \in Readings :
        /\ Meter_Voltage' = reading[1] /\ Meter_Current' = reading[2]
        /\ truth' = Ideal(reading[1], reading[2])
    /\ OS_SemaphoreSignal("Voltage")
    /\ isr' = "callback"
    /\ ticks' = ticks + 1
    /\ disturbed' = (disturbed \/ ~ Taken)
    /\ UNCHANGED <<at, channelV, modeV, calcV, meterV>>

\* ... and the current thread.
MeterCallback ==
    /\ isr = "callback"
    /\ OS_SemaphoreSignal("Current")
    /\ isr' = "out"
    /\ UNCHANGED <<at, readingV, channelV, modeV, calcV, meterV, histV>>

\* ProtocolThread runs, before CalcThread but not before the analog threads:
\* HandleTest sets TestMode, HandleTariff or HandleTime the rate.
Protocol ==
    /\ isr = "out" /\ changes < MaxChanges
    /\ ~ Ready("VoltageThread") /\ ~ Ready("CurrentThread")
    /\ \/ TestMode' = ~ TestMode /\ UNCHANGED rate
       \/ rate' \in Rates \ {rate} /\ UNCHANGED TestMode
    /\ changes' = changes + 1
    /\ disturbed' = (disturbed \/ ~ AtRest)
    /\ UNCHANGED <<osV, at, isr, readingV, channelV, calcV, meterV, ticks, truth>>

-----------------------------------------------------------------------------
(* AnalogLoopbackThread, once per channel *)

VoltageWait ==
    /\ Step("VoltageThread", "wait", "sample")
    /\ OS_SemaphoreWait("Voltage", "VoltageThread")
    /\ UNCHANGED <<isr, readingV, channelV, modeV, calcV, meterV, histV>>

\* Fault: the voltage thread wakes CalcThread too.
VoltageSampleSignals ==
    /\ Step("VoltageThread", "sample", "wait")
    /\ InstantaneousVoltage' = Meter_Voltage
    /\ frequency' = MeterFrequency(frequency, Meter_Voltage)
    /\ voltage' = Sampled(voltage, 100, Meter_Voltage)
    /\ OS_SemaphoreSignal("Calc")
    /\ UNCHANGED <<isr, readingV, InstantaneousCurrent, current, modeV, calcV,
                   meterV, histV>>

VoltageSample ==
    /\ Step("VoltageThread", "sample", "wait")
    /\ InstantaneousVoltage' = Meter_Voltage
    /\ frequency' = MeterFrequency(frequency, Meter_Voltage)
    /\ voltage' = Sampled(voltage, 100, Meter_Voltage)
    /\ UNCHANGED <<osV, isr, readingV, InstantaneousCurrent, current, modeV, calcV,
                   meterV, histV>>

CurrentWait ==
    /\ Step("CurrentThread", "wait", "sample")
    /\ OS_SemaphoreWait("Current", "CurrentThread")
    /\ UNCHANGED <<isr, readingV, channelV, modeV, calcV, meterV, histV>>

\* Fault: CalcThread is only woken when it sleeps.
CurrentSampleForgets ==
    /\ Step("CurrentThread", "sample", "wait")
    /\ InstantaneousCurrent' = Meter_Current
    /\ current' = Sampled(current, 1, Meter_Current)
    /\ IF Ready("CalcThread") THEN UNCHANGED osV ELSE OS_SemaphoreSignal("Calc")
    /\ UNCHANGED <<isr, readingV, InstantaneousVoltage, voltage, frequency, modeV,
                   calcV, meterV, histV>>

CurrentSample ==
    /\ Step("CurrentThread", "sample", "wait")
    /\ InstantaneousCurrent' = Meter_Current
    /\ current' = Sampled(current, 1, Meter_Current)
    /\ OS_SemaphoreSignal("Calc")
    /\ UNCHANGED <<isr, readingV, InstantaneousVoltage, voltage, frequency, modeV,
                   calcV, meterV, histV>>

-----------------------------------------------------------------------------
(* CalcThread: the other threads and the interrupt may run between any two *)
(* of its steps.                                                           *)

CalcWait ==
    /\ Step("CalcThread", "wait", "load")
    /\ OS_SemaphoreWait("Calc", "CalcThread")
    /\ UNCHANGED <<isr, readingV, channelV, modeV, calcV, meterV, histV>>

CalcLoad ==
    /\ Step("CalcThread", "load", "add")
    /\ loaded' = InstantaneousCurrent
    /\ UNCHANGED <<osV, isr, readingV, channelV, modeV, cnt, sumOfPower,
                   energyForOnePeriod, cycles, meterV, histV>>

CalcAdd ==
    /\ Step("CalcThread", "add", IF cnt + 1 = ARRAY_SIZE THEN "energy" ELSE "wait")
    /\ sumOfPower' = sumOfPower + loaded * InstantaneousVoltage
    /\ cnt' = cnt + 1
    /\ UNCHANGED <<osV, isr, readingV, channelV, modeV, loaded, energyForOnePeriod,
                   cycles, meterV, histV>>

\* Fault: the counter of samples is not reset, and wraps at 2 * ARRAY_SIZE.
CalcEnergyNoReset ==
    /\ Step("CalcThread", "energy", "power")
    /\ cnt' = cnt % (2 * ARRAY_SIZE)
    /\ cycles' = cycles + 1
    /\ sumOfPower' = Watts(sumOfPower)
    /\ energyForOnePeriod' = sumOfPower' * Protocol_GetTime
    /\ Meter_Energy' = Meter_Energy + energyForOnePeriod'
    /\ UNCHANGED <<osV, isr, readingV, channelV, modeV, loaded,
                   Meter_AveragePower, Meter_PowerFactor, Meter_Cost, histV>>

CalcEnergy ==
    /\ Step("CalcThread", "energy", "power")
    /\ cnt' = 0
    /\ cycles' = cycles + 1
    /\ sumOfPower' = Watts(sumOfPower)
    /\ energyForOnePeriod' = sumOfPower' * Protocol_GetTime
    /\ Meter_Energy' = Meter_Energy + energyForOnePeriod'
    /\ UNCHANGED <<osV, isr, readingV, channelV, modeV, loaded,
                   Meter_AveragePower, Meter_PowerFactor, Meter_Cost, histV>>

CalcPower ==
    /\ Step("CalcThread", "power", "cost")
    /\ Meter_AveragePower' = AveragePower(sumOfPower)
    /\ Meter_PowerFactor' \in PowerFactors(AveragePower(sumOfPower))
    /\ UNCHANGED <<osV, isr, readingV, channelV, modeV, calcV, Meter_Energy,
                   Meter_Cost, histV>>

\* Fault: the sum goes on into the next cycle.
CalcCostNoReset ==
    /\ Step("CalcThread", "cost", "wait")
    /\ Meter_Cost' = Meter_Cost + Cost(energyForOnePeriod)
    /\ UNCHANGED <<osV, isr, readingV, channelV, modeV, calcV,
                   Meter_Energy, Meter_AveragePower, Meter_PowerFactor, histV>>

CalcCost ==
    /\ Step("CalcThread", "cost", "wait")
    /\ Meter_Cost' = Meter_Cost + Cost(energyForOnePeriod)
    /\ sumOfPower' = 0
    /\ UNCHANGED <<osV, isr, readingV, channelV, modeV, loaded, cnt,
                   energyForOnePeriod, cycles,
                   Meter_Energy, Meter_AveragePower, Meter_PowerFactor, histV>>

-----------------------------------------------------------------------------

Analog == VoltageWait \/ VoltageSample \/ CurrentWait \/ CurrentSample
Calc == CalcWait \/ CalcLoad \/ CalcAdd \/ CalcEnergy \/ CalcPower \/ CalcCost

Next == PIT_ISR \/ MeterCallback \/ Protocol \/ Analog \/ Calc

\* A handler returns, and a ready thread runs once no other wants the processor.
\* Nothing is assumed of the PIT nor of the protocol.
Spec == Init /\ [][Next]_vars
             /\ WF_vars(MeterCallback) /\ WF_vars(Analog) /\ WF_vars(Calc)

-----------------------------------------------------------------------------
(* Properties *)

\* Each variable stays in its type; no semaphore of the meter counts more than
\* the ticks there have been.
TypeOK ==
    /\ count \in [semaphores -> 0 .. MaxTicks]
    /\ cnt \in 0 .. ARRAY_SIZE
    /\ at["CalcThread"] \in {"wait", "load", "add", "energy", "power", "cost"}
    /\ voltage.rms \in 0 .. Word - 1 /\ current.rms \in 0 .. Word - 1
    /\ Meter_PowerFactor \in 0 .. Word - 1
    /\ Meter_Energy \in Nat /\ Meter_Cost \in Nat

Multiplied == ARRAY_SIZE * cycles + cnt

\* Every tick of the PIT is counted once, neither lost nor counted twice, however
\* late the threads run: when all are asleep the samples multiplied are the ticks.
EveryTickCounted == AtRest => Multiplied = ticks

\* While no tick comes before the last reading was multiplied, and the mode and the
\* rate are set between readings, energy and cost are those of a meter that takes no
\* time: voltage and current are paired, every cycle is closed once and at the
\* mode and rate of its end, and nothing leaks from one cycle into the next.  The
\* energy is exact; of the cost the truncations of a cycle lose less than one unit
\* and the price of one unit of energy >> 16.
CostUnit == 8 * JOULE_PER_KWH

EnergyExact ==
    AtRest /\ ~ disturbed =>
        /\ Meter_Energy = truth.energy
        /\ truth.cost - CostUnit * Meter_Cost \in 0 .. truth.lost

\* The meter never runs backwards, whatever the signs of the readings.
NeverDecreases == [][Meter_Energy' >= Meter_Energy /\ Meter_Cost' >= Meter_Cost]_vars

\* However many ticks pile up, CalcThread catches up with each of them.
CaughtUp == \A k \in 1 .. MaxTicks : ticks = k ~> Multiplied >= k

\* meter.c documents Meter_PowerFactor as "16Q8, from 0 to 1": at most 256, with
\* some room for the rounding of the RMS values.
PowerFactorAtMostOne ==
    AtRest /\ ~ disturbed /\ Meter_AveragePower > 0 => Meter_PowerFactor <= 264

=============================================================================
