---------------------------- MODULE MeteringProofs ----------------------------
(***************************************************************************)
(* Every tick of the PIT is multiplied once, energy and cost never         *)
(* decrease and, undisturbed, they are exact: for every length of a cycle, *)
(* every reading and any number of ticks and changes.  A tick is on its    *)
(* way as a unit of the current thread's semaphore, then in that thread,   *)
(* then as a unit of CalcSemaphore, then in CalcThread; TicksCounted says  *)
(* where they all are.  No variable leaves its type: the RMS values, by    *)
(* what ChannelProofs shows of a window, the power factor, the counts.     *)
(***************************************************************************)
EXTENDS Metering, TLAPS

\* The numbers CalcThread works with.
Types ==
    /\ {Meter_Voltage, Meter_Current, InstantaneousVoltage, InstantaneousCurrent} \subseteq Int
    /\ loaded \in Int /\ sumOfPower \in Int
    /\ {cnt, cycles, ticks, energyForOnePeriod, Meter_Energy, Meter_Cost, rate} \subseteq Nat

Control ==
    /\ count \in [semaphores -> Nat]
    /\ waiters \in [semaphores -> SUBSET threads]
    /\ at \in [threads -> {"wait", "sample", "load", "add", "energy", "power", "cost"}]
    /\ isr \in {"out", "callback"}
    /\ at["CurrentThread"] \in {"wait", "sample"}
    /\ at["CalcThread"] # "sample"

\* Each thread sleeps on its own semaphore only, behind its wait, and only while
\* that semaphore has no unit.
Sleeping ==
    /\ waiters["Voltage"] \subseteq {"VoltageThread"}
    /\ waiters["Current"] \subseteq {"CurrentThread"}
    /\ waiters["Calc"] \subseteq {"CalcThread"}
    /\ waiters["Current"] # {} => at["CurrentThread"] = "sample" /\ count["Current"] = 0
    /\ waiters["Calc"] # {} => at["CalcThread"] = "load" /\ count["Calc"] = 0

\* CalcThread closes the cycle when its count is full, and not before.
Closing == IF at["CalcThread"] = "energy" THEN cnt = ARRAY_SIZE ELSE cnt < ARRAY_SIZE

One(condition) == IF condition THEN 1 ELSE 0

\* The ticks that have reached the current thread's semaphore, and CalcThread's.
AtCurrent == count["Current"]
             + One(at["CurrentThread"] = "sample" /\ waiters["Current"] = {})
AtCalc == count["Calc"]
          + One(at["CalcThread"] \in {"load", "add"} /\ waiters["Calc"] = {})

TicksCounted == ticks = Multiplied + AtCalc + AtCurrent + One(isr = "callback")

IInv == Types /\ Control /\ Sleeping /\ Closing /\ TicksCounted

-----------------------------------------------------------------------------

\* A wait either takes a unit or sleeps, where only t sleeps on s.
LEMMA Waited ==
    ASSUME NEW s \in semaphores, NEW t \in threads, Control, OS_SemaphoreWait(s, t)
    PROVE  /\ count' \in [semaphores -> Nat] /\ waiters' \in [semaphores -> SUBSET threads]
           /\ \A r \in semaphores \ {s} : count'[r] = count[r] /\ waiters'[r] = waiters[r]
           /\ \/ count[s] > 0 /\ count'[s] = count[s] - 1 /\ waiters'[s] = waiters[s]
              \/ count[s] = 0 /\ count'[s] = 0 /\ waiters'[s] = waiters[s] \cup {t}
  BY DEF Control, OS_SemaphoreWait, Take, Sleep

\* A signal either adds a unit or wakes t, where only t sleeps on s.
LEMMA Signalled ==
    ASSUME NEW s \in semaphores, NEW t \in threads, Control, waiters[s] \subseteq {t},
           OS_SemaphoreSignal(s)
    PROVE  /\ count' \in [semaphores -> Nat] /\ waiters' \in [semaphores -> SUBSET threads]
           /\ \A r \in semaphores \ {s} : count'[r] = count[r] /\ waiters'[r] = waiters[r]
           /\ waiters'[s] = {}
           /\ \/ waiters[s] = {} /\ count'[s] = count[s] + 1
              \/ waiters[s] = {t} /\ count'[s] = count[s]
  BY DEF Control, OS_SemaphoreSignal, Give, HandOver

\* Nothing has been counted at the start.
LEMMA InitOK == Init => IInv
  <1> SUFFICES ASSUME Init PROVE IInv
    OBVIOUS
  <1>1. Types
    BY MeteringAssumption DEF Init, Types
  <1>2. Control /\ Sleeping
    BY DEF Init, Control, Sleeping, OS_SemaphoreCreate, semaphores, threads
  <1>3. Closing
    BY SamplingAssumption DEF Init, Closing, threads
  <1>4. TicksCounted
    BY SamplingAssumption DEF Init, TicksCounted, Multiplied, AtCalc, AtCurrent, One,
       OS_SemaphoreCreate, semaphores, threads
  <1> QED BY <1>1, <1>2, <1>3, <1>4 DEF IInv

\* PIT_ISR signals the voltage thread, and is then inside the callback.
LEMMA PIT_ISROK == IInv /\ PIT_ISR => IInv'
  <1> SUFFICES ASSUME IInv, PIT_ISR PROVE IInv'
    OBVIOUS
  <1>1. /\ isr = "out" /\ isr' = "callback" /\ ticks' = ticks + 1
        /\ OS_SemaphoreSignal("Voltage")
        /\ UNCHANGED <<at, channelV, modeV, calcV, meterV>>
    BY DEF PIT_ISR
  <1>2. /\ waiters'["Voltage"] = {}
        /\ \A r \in {"Current", "Calc"} : count'[r] = count[r] /\ waiters'[r] = waiters[r]
        /\ count' \in [semaphores -> Nat] /\ waiters' \in [semaphores -> SUBSET threads]
    BY <1>1, Signalled DEF IInv, Sleeping, semaphores, threads
  <1>3. Types'
    <2>1. Meter_Voltage' \in Int /\ Meter_Current' \in Int
      BY MeteringAssumption DEF PIT_ISR
    <2> QED BY <1>1, <2>1 DEF IInv, Types, channelV, modeV, calcV, meterV
  <1>4. Control' /\ Sleeping' /\ Closing'
    BY <1>1, <1>2 DEF IInv, Control, Sleeping, Closing, calcV
  <1>5. TicksCounted'
    <2>1. Multiplied' = Multiplied /\ AtCalc' = AtCalc /\ AtCurrent' = AtCurrent
      BY <1>1, <1>2 DEF Multiplied, AtCalc, AtCurrent, calcV
    <2>2. Multiplied \in Int /\ AtCalc \in Int /\ AtCurrent \in Int
      BY SamplingAssumption DEF IInv, Types, Control, Multiplied, AtCalc, AtCurrent, One,
         semaphores
    <2> QED BY <1>1, <2>1, <2>2 DEF IInv, TicksCounted, One
  <1> QED BY <1>3, <1>4, <1>5 DEF IInv

\* What the counts are made of.
LEMMA Counts ==
    IInv => /\ Multiplied \in Int /\ AtCalc \in Int /\ AtCurrent \in Int
            /\ ARRAY_SIZE \in Nat \ {0} /\ cnt \in Nat /\ cycles \in Nat /\ ticks \in Nat
            /\ \A s \in semaphores : count[s] \in Nat
  BY SamplingAssumption DEF IInv, Types, Control, Multiplied, AtCalc, AtCurrent, One, semaphores

\* MeterCallback passes the tick on to the current thread.
LEMMA MeterCallbackOK == IInv /\ MeterCallback => IInv'
  <1> SUFFICES ASSUME IInv, MeterCallback PROVE IInv'
    OBVIOUS
  <1>1. /\ isr = "callback" /\ isr' = "out" /\ OS_SemaphoreSignal("Current")
        /\ UNCHANGED <<at, readingV, channelV, modeV, calcV, meterV, histV>>
    BY DEF MeterCallback
  <1>2. /\ waiters'["Current"] = {}
        /\ \A r \in {"Voltage", "Calc"} : count'[r] = count[r] /\ waiters'[r] = waiters[r]
        /\ count' \in [semaphores -> Nat] /\ waiters' \in [semaphores -> SUBSET threads]
        /\ \/ waiters["Current"] = {} /\ count'["Current"] = count["Current"] + 1
           \/ waiters["Current"] = {"CurrentThread"} /\ count'["Current"] = count["Current"]
    BY <1>1, Signalled DEF IInv, Sleeping, semaphores, threads
  <1>3. Types'
    BY <1>1 DEF IInv, Types, readingV, channelV, modeV, calcV, meterV, histV
  <1>4. Control' /\ Sleeping' /\ Closing'
    BY <1>1, <1>2 DEF IInv, Control, Sleeping, Closing, calcV
  <1>5. TicksCounted'
    <2>1. Multiplied' = Multiplied /\ AtCalc' = AtCalc /\ ticks' = ticks
      BY <1>1, <1>2 DEF Multiplied, AtCalc, calcV, histV
    <2>2. AtCurrent' = AtCurrent + 1
      BY <1>1, <1>2, Counts DEF IInv, Sleeping, AtCurrent, One, semaphores
    <2> QED BY <1>1, <2>1, <2>2, Counts DEF IInv, TicksCounted, One
  <1> QED BY <1>3, <1>4, <1>5 DEF IInv

\* ProtocolThread changes the mode or the rate, and no more.
LEMMA ProtocolOK == IInv /\ Protocol => IInv'
  <1> SUFFICES ASSUME IInv, Protocol PROVE IInv'
    OBVIOUS
  <1>1. UNCHANGED <<osV, at, isr, readingV, channelV, calcV, meterV, ticks>>
    BY DEF Protocol
  <1>2. rate' \in Nat
    BY MeteringAssumption DEF Protocol, IInv, Types
  <1>3. Types'
    BY <1>1, <1>2 DEF IInv, Types, readingV, channelV, calcV, meterV
  <1>4. Control' /\ Sleeping' /\ Closing' /\ TicksCounted'
    BY <1>1 DEF IInv, Control, Sleeping, Closing, TicksCounted, Multiplied, AtCalc, AtCurrent,
       osV, calcV
  <1> QED BY <1>3, <1>4 DEF IInv

\* The voltage thread's steps do not concern the ticks on their way.
LEMMA VoltageOK == IInv /\ (VoltageWait \/ VoltageSample) => IInv'
  <1> SUFFICES ASSUME IInv, VoltageWait \/ VoltageSample PROVE IInv'
    OBVIOUS
  <1>1. /\ at' \in [threads -> {"wait", "sample", "load", "add", "energy", "power", "cost"}]
        /\ at'["CurrentThread"] = at["CurrentThread"] /\ at'["CalcThread"] = at["CalcThread"]
        /\ UNCHANGED <<isr, modeV, calcV, meterV, histV>>
    BY DEF IInv, Control, VoltageWait, VoltageSample, Step, threads
  <1>2. /\ waiters'["Voltage"] \subseteq {"VoltageThread"}
        /\ \A r \in {"Current", "Calc"} : count'[r] = count[r] /\ waiters'[r] = waiters[r]
        /\ count' \in [semaphores -> Nat] /\ waiters' \in [semaphores -> SUBSET threads]
    <2>1. CASE VoltageWait
      BY <2>1, Waited DEF IInv, Sleeping, VoltageWait, semaphores, threads
    <2>2. CASE VoltageSample
      BY <2>2 DEF IInv, Control, Sleeping, VoltageSample, osV, semaphores
    <2> QED BY <2>1, <2>2
  <1>3. Types'
    BY <1>1 DEF IInv, Types, VoltageWait, VoltageSample, readingV, channelV, modeV, calcV,
       meterV, histV
  <1>4. Control' /\ Sleeping' /\ Closing' /\ TicksCounted'
    BY <1>1, <1>2 DEF IInv, Control, Sleeping, Closing, TicksCounted, Multiplied, AtCalc,
       AtCurrent, calcV, histV
  <1> QED BY <1>3, <1>4 DEF IInv

\* The current thread takes a unit, or sleeps behind its wait.
LEMMA CurrentWaitOK == IInv /\ CurrentWait => IInv'
  <1> SUFFICES ASSUME IInv, CurrentWait PROVE IInv'
    OBVIOUS
  <1>1. /\ at["CurrentThread"] = "wait" /\ at' = [at EXCEPT !["CurrentThread"] = "sample"]
        /\ OS_SemaphoreWait("Current", "CurrentThread")
        /\ UNCHANGED <<isr, readingV, channelV, modeV, calcV, meterV, histV>>
    BY DEF CurrentWait, Step
  <1>2. /\ \A r \in {"Voltage", "Calc"} : count'[r] = count[r] /\ waiters'[r] = waiters[r]
        /\ count' \in [semaphores -> Nat] /\ waiters' \in [semaphores -> SUBSET threads]
        /\ waiters["Current"] = {}
        /\ \/ count["Current"] > 0 /\ count'["Current"] = count["Current"] - 1
              /\ waiters'["Current"] = {}
           \/ count["Current"] = 0 /\ count'["Current"] = 0
              /\ waiters'["Current"] = {"CurrentThread"}
    BY <1>1, Waited DEF IInv, Sleeping, semaphores, threads
  <1>3. /\ at' \in [threads -> {"wait", "sample", "load", "add", "energy", "power", "cost"}]
        /\ at'["CurrentThread"] = "sample" /\ at'["CalcThread"] = at["CalcThread"]
    BY <1>1 DEF IInv, Control, threads
  <1>4. Types'
    BY <1>1 DEF IInv, Types, readingV, channelV, modeV, calcV, meterV, histV
  <1>5. Control' /\ Sleeping' /\ Closing'
    BY <1>1, <1>2, <1>3 DEF IInv, Control, Sleeping, Closing, calcV
  <1>6. TicksCounted'
    <2>1. Multiplied' = Multiplied /\ AtCalc' = AtCalc
      BY <1>1, <1>2, <1>3 DEF Multiplied, AtCalc, calcV
    <2>2. AtCurrent' = AtCurrent
      BY <1>1, <1>2, <1>3, Counts DEF AtCurrent, One, semaphores
    <2> QED BY <1>1, <2>1, <2>2 DEF IInv, TicksCounted, histV
  <1> QED BY <1>4, <1>5, <1>6 DEF IInv

\* The current thread passes the tick on to CalcThread.
LEMMA CurrentSampleOK == IInv /\ CurrentSample => IInv'
  <1> SUFFICES ASSUME IInv, CurrentSample PROVE IInv'
    OBVIOUS
  <1>1. /\ at["CurrentThread"] = "sample" /\ at' = [at EXCEPT !["CurrentThread"] = "wait"]
        /\ Ready("CurrentThread") /\ OS_SemaphoreSignal("Calc")
        /\ UNCHANGED <<isr, readingV, modeV, calcV, meterV, histV>>
    BY DEF CurrentSample, Step, Running
  <1>2. /\ \A r \in {"Voltage", "Current"} : count'[r] = count[r] /\ waiters'[r] = waiters[r]
        /\ count' \in [semaphores -> Nat] /\ waiters' \in [semaphores -> SUBSET threads]
        /\ waiters["Current"] = {} /\ waiters'["Calc"] = {}
        /\ \/ waiters["Calc"] = {} /\ count'["Calc"] = count["Calc"] + 1
           \/ waiters["Calc"] = {"CalcThread"} /\ count'["Calc"] = count["Calc"]
    BY <1>1, Signalled DEF IInv, Sleeping, Ready, semaphores, threads
  <1>3. /\ at' \in [threads -> {"wait", "sample", "load", "add", "energy", "power", "cost"}]
        /\ at'["CurrentThread"] = "wait" /\ at'["CalcThread"] = at["CalcThread"]
    BY <1>1 DEF IInv, Control, threads
  <1>4. Types'
    BY <1>1 DEF IInv, Types, CurrentSample, readingV, modeV, calcV, meterV, histV
  <1>5. Control' /\ Sleeping' /\ Closing'
    BY <1>1, <1>2, <1>3 DEF IInv, Control, Sleeping, Closing, calcV
  <1>6. TicksCounted'
    <2>1. Multiplied' = Multiplied
      BY <1>1 DEF Multiplied, calcV
    <2>2. AtCurrent' = AtCurrent - 1
      BY <1>1, <1>2, <1>3, Counts DEF AtCurrent, One, semaphores
    <2>3. AtCalc' = AtCalc + 1
      BY <1>1, <1>2, <1>3, Counts DEF IInv, Sleeping, AtCalc, One, semaphores
    <2> QED BY <1>1, <2>1, <2>2, <2>3, Counts DEF IInv, TicksCounted, One, histV
  <1> QED BY <1>4, <1>5, <1>6 DEF IInv

\* CalcThread takes a unit, or sleeps behind its wait.
LEMMA CalcWaitOK == IInv /\ CalcWait => IInv'
  <1> SUFFICES ASSUME IInv, CalcWait PROVE IInv'
    OBVIOUS
  <1>1. /\ at["CalcThread"] = "wait" /\ at' = [at EXCEPT !["CalcThread"] = "load"]
        /\ OS_SemaphoreWait("Calc", "CalcThread")
        /\ UNCHANGED <<isr, readingV, channelV, modeV, calcV, meterV, histV>>
    BY DEF CalcWait, Step
  <1>2. /\ \A r \in {"Voltage", "Current"} : count'[r] = count[r] /\ waiters'[r] = waiters[r]
        /\ count' \in [semaphores -> Nat] /\ waiters' \in [semaphores -> SUBSET threads]
        /\ waiters["Calc"] = {}
        /\ \/ count["Calc"] > 0 /\ count'["Calc"] = count["Calc"] - 1 /\ waiters'["Calc"] = {}
           \/ count["Calc"] = 0 /\ count'["Calc"] = 0 /\ waiters'["Calc"] = {"CalcThread"}
    BY <1>1, Waited DEF IInv, Sleeping, semaphores, threads
  <1>3. /\ at' \in [threads -> {"wait", "sample", "load", "add", "energy", "power", "cost"}]
        /\ at'["CurrentThread"] = at["CurrentThread"] /\ at'["CalcThread"] = "load"
    BY <1>1 DEF IInv, Control, threads
  <1>4. Types'
    BY <1>1 DEF IInv, Types, readingV, channelV, modeV, calcV, meterV, histV
  <1>5. Control' /\ Sleeping' /\ Closing'
    BY <1>1, <1>2, <1>3 DEF IInv, Control, Sleeping, Closing, calcV
  <1>6. TicksCounted'
    <2>1. Multiplied' = Multiplied /\ AtCurrent' = AtCurrent
      BY <1>1, <1>2, <1>3 DEF Multiplied, AtCurrent, calcV
    <2>2. AtCalc' = AtCalc
      BY <1>1, <1>2, <1>3, Counts DEF AtCalc, One, semaphores
    <2> QED BY <1>1, <2>1, <2>2 DEF IInv, TicksCounted, histV
  <1> QED BY <1>4, <1>5, <1>6 DEF IInv

\* What every other step of CalcThread leaves alone: it moves `at' only.
LEMMA CalcMoves ==
    ASSUME IInv, NEW from, NEW to \in {"wait", "add", "energy", "power", "cost"},
           Step("CalcThread", from, to), UNCHANGED osV, UNCHANGED isr, from # "wait"
    PROVE  /\ at' \in [threads -> {"wait", "sample", "load", "add", "energy", "power", "cost"}]
           /\ at'["CurrentThread"] = at["CurrentThread"]
           /\ at["CalcThread"] = from /\ at'["CalcThread"] = to
           /\ waiters["Calc"] = {} /\ Control' /\ Sleeping' /\ AtCurrent' = AtCurrent
  <1>1. /\ at["CalcThread"] = from /\ at' = [at EXCEPT !["CalcThread"] = to]
        /\ Ready("CalcThread") /\ UNCHANGED <<count, waiters>>
    BY DEF Step, Running, osV
  <1>2. waiters["Calc"] = {}
    BY <1>1 DEF IInv, Sleeping, Ready, semaphores
  <1>3. /\ at' \in [threads -> {"wait", "sample", "load", "add", "energy", "power", "cost"}]
        /\ at'["CurrentThread"] = at["CurrentThread"] /\ at'["CalcThread"] = to
    BY <1>1 DEF IInv, Control, threads
  <1>4. Control' /\ Sleeping' /\ AtCurrent' = AtCurrent
    BY <1>1, <1>2, <1>3 DEF IInv, Control, Sleeping, AtCurrent
  <1> QED BY <1>1, <1>2, <1>3, <1>4

\* CalcThread reads the current.
LEMMA CalcLoadOK == IInv /\ CalcLoad => IInv'
  <1> SUFFICES ASSUME IInv, CalcLoad PROVE IInv'
    OBVIOUS
  <1>1. /\ Step("CalcThread", "load", "add") /\ UNCHANGED osV /\ UNCHANGED isr
        /\ UNCHANGED <<cnt, cycles, ticks>>
    BY DEF CalcLoad, histV
  <1>2. /\ at["CalcThread"] = "load" /\ at'["CalcThread"] = "add" /\ waiters["Calc"] = {}
        /\ Control' /\ Sleeping' /\ AtCurrent' = AtCurrent
    BY <1>1, CalcMoves
  <1>3. Types'
    BY DEF IInv, Types, CalcLoad, readingV, channelV, modeV, meterV, histV
  <1>4. Closing' /\ TicksCounted'
    BY <1>1, <1>2 DEF IInv, Closing, TicksCounted, Multiplied, AtCalc, osV
  <1> QED BY <1>2, <1>3, <1>4 DEF IInv

\* CalcThread adds one product: the tick has arrived.
LEMMA CalcAddOK == IInv /\ CalcAdd => IInv'
  <1> SUFFICES ASSUME IInv, CalcAdd PROVE IInv'
    OBVIOUS
  <1> DEFINE to == IF cnt + 1 = ARRAY_SIZE THEN "energy" ELSE "wait"
  <1>1. /\ Step("CalcThread", "add", to) /\ UNCHANGED osV /\ UNCHANGED isr
        /\ cnt' = cnt + 1 /\ UNCHANGED <<cycles, ticks>>
    BY DEF CalcAdd, histV
  <1>2. /\ at["CalcThread"] = "add" /\ at'["CalcThread"] = to /\ waiters["Calc"] = {}
        /\ Control' /\ Sleeping' /\ AtCurrent' = AtCurrent
    BY <1>1, CalcMoves
  <1>3. Types'
    <2>1. sumOfPower' \in Int /\ cnt' \in Nat
      BY DEF IInv, Types, CalcAdd
    <2> QED BY <2>1 DEF IInv, Types, CalcAdd, readingV, channelV, modeV, meterV, histV
  <1>4. Closing'
    BY <1>1, <1>2, Counts DEF IInv, Closing
  <1>5. TicksCounted'
    <2>1. Multiplied' = Multiplied + 1
      BY <1>1, Counts DEF Multiplied
    <2>2. AtCalc' = AtCalc - 1
      BY <1>1, <1>2, Counts DEF AtCalc, One, osV, semaphores
    <2> QED BY <1>1, <1>2, <2>1, <2>2, Counts DEF IInv, TicksCounted, One
  <1> QED BY <1>2, <1>3, <1>4, <1>5 DEF IInv

\* Energy is never negative.
LEMMA WattsNatural == ASSUME NEW sum \in Int PROVE Watts(sum) \in Nat
  <1>1. (sum + 82) \div 164 \in Int
    OBVIOUS
  <1> QED BY <1>1 DEF Watts

\* CalcThread closes the cycle: as many ticks as before, in one cycle more.
LEMMA CalcEnergyOK == IInv /\ CalcEnergy => IInv'
  <1> SUFFICES ASSUME IInv, CalcEnergy PROVE IInv'
    OBVIOUS
  <1>1. /\ Step("CalcThread", "energy", "power") /\ UNCHANGED osV /\ UNCHANGED isr
        /\ cnt' = 0 /\ cycles' = cycles + 1 /\ UNCHANGED ticks
    BY DEF CalcEnergy, histV
  <1>2. /\ at["CalcThread"] = "energy" /\ at'["CalcThread"] = "power" /\ waiters["Calc"] = {}
        /\ Control' /\ Sleeping' /\ AtCurrent' = AtCurrent
    BY <1>1, CalcMoves
  <1>3. Types'
    <2>1. sumOfPower' \in Nat
      BY WattsNatural DEF IInv, Types, CalcEnergy
    <2>2. energyForOnePeriod' \in Nat /\ Meter_Energy' \in Nat
      BY <2>1 DEF IInv, Types, CalcEnergy, Protocol_GetTime
    <2> QED BY <1>1, <2>1, <2>2
            DEF IInv, Types, CalcEnergy, readingV, channelV, modeV, histV
  <1>4. Closing'
    BY <1>1, <1>2, Counts DEF Closing
  <1>5. TicksCounted'
    <2>1. Multiplied' = Multiplied
      <3>1. cnt = ARRAY_SIZE
        BY <1>2 DEF IInv, Closing
      <3>2. ARRAY_SIZE * (cycles + 1) = ARRAY_SIZE * cycles + ARRAY_SIZE
        BY Counts
      <3> QED BY <1>1, <3>1, <3>2, Counts DEF Multiplied
    <2>2. AtCalc' = AtCalc
      BY <1>1, <1>2 DEF AtCalc, osV
    <2> QED BY <1>1, <1>2, <2>1, <2>2 DEF IInv, TicksCounted
  <1> QED BY <1>2, <1>3, <1>4, <1>5 DEF IInv

\* The cost of a cycle is a natural number, whatever the rate.
LEMMA CostIsNat ==
    ASSUME NEW energy \in Nat, rate \in Nat
    PROVE  Cost(energy) \in Nat
  <1>1. energy \div 8 \in Nat
    OBVIOUS
  <1> DEFINE k == energy \div 8
  <1>2. k * rate \in Nat
    BY <1>1
  <1> DEFINE p == k * rate
  <1> HIDE DEF p
  <1>3. p \div JOULE_PER_KWH \in Nat
    <2>1. p \in Nat /\ JOULE_PER_KWH \in Nat /\ JOULE_PER_KWH > 0
      BY <1>2, MeteringAssumption DEF p
    <2> QED BY <2>1
  <1> QED BY <1>3 DEF Cost, p

\* Power, power factor and cost follow from the closed cycle.
LEMMA CalcCostOK == IInv /\ (CalcPower \/ CalcCost) => IInv'
  <1> SUFFICES ASSUME IInv, CalcPower \/ CalcCost PROVE IInv'
    OBVIOUS
  <1>1. /\ UNCHANGED osV /\ UNCHANGED isr /\ UNCHANGED <<cnt, cycles, ticks>>
        /\ \/ Step("CalcThread", "power", "cost")
           \/ Step("CalcThread", "cost", "wait")
    BY DEF CalcPower, CalcCost, calcV, histV
  <1>2. /\ at["CalcThread"] \in {"power", "cost"} /\ at'["CalcThread"] \in {"cost", "wait"}
        /\ Control' /\ Sleeping' /\ AtCurrent' = AtCurrent
    BY <1>1, CalcMoves
  <1>3. Types'
    <2>1. Meter_Cost' \in Nat
      <3>1. Cost(energyForOnePeriod) \in Nat
        BY CostIsNat DEF IInv, Types
      <3> QED BY <3>1 DEF IInv, Types, CalcPower, CalcCost
    <2> QED BY <2>1 DEF IInv, Types, CalcPower, CalcCost, readingV, channelV, modeV, calcV,
               histV
  <1>4. Closing' /\ TicksCounted'
    BY <1>1, <1>2 DEF IInv, Closing, TicksCounted, Multiplied, AtCalc, osV
  <1> QED BY <1>2, <1>3, <1>4 DEF IInv

\* Every step keeps the invariant.
LEMMA StepOK == IInv /\ [Next]_vars => IInv'
  <1> SUFFICES ASSUME IInv, [Next]_vars PROVE IInv'
    OBVIOUS
  <1>1. CASE UNCHANGED vars
    <2>1. UNCHANGED <<osV, at, isr, readingV, channelV, modeV, calcV, meterV, histV>>
      BY <1>1 DEF vars
    <2> QED BY <2>1 DEF IInv, Types, Control, Sleeping, Closing, TicksCounted, Multiplied, AtCalc,
               AtCurrent, osV, readingV, channelV, modeV, calcV, meterV, histV
  <1>2. CASE PIT_ISR \/ MeterCallback \/ Protocol
    BY <1>2, PIT_ISROK, MeterCallbackOK, ProtocolOK
  <1>3. CASE Analog
    BY <1>3, VoltageOK, CurrentWaitOK, CurrentSampleOK DEF Analog
  <1>4. CASE Calc
    BY <1>4, CalcWaitOK, CalcLoadOK, CalcAddOK, CalcEnergyOK, CalcCostOK DEF Calc
  <1> QED BY <1>1, <1>2, <1>3, <1>4 DEF Next

-----------------------------------------------------------------------------

\* Where every tick is, as an invariant.
THEOREM Invariant == Spec => []IInv
  BY InitOK, StepOK, PTL DEF Spec

\* Each tick of the PIT is multiplied once: when all threads are asleep none is on its
\* way, however long a cycle is and however late the threads ran.
THEOREM TicksMultiplied == Spec => []EveryTickCounted
  <1>1. IInv => EveryTickCounted
    <2> SUFFICES ASSUME IInv, AtRest PROVE Multiplied = ticks
      BY DEF EveryTickCounted
    <2>1. waiters["Current"] # {} /\ waiters["Calc"] # {}
      BY DEF IInv, Control, Sleeping, AtRest, Ready, semaphores, threads
    <2>2. AtCurrent = 0 /\ AtCalc = 0
      BY <2>1 DEF IInv, Sleeping, AtCurrent, AtCalc, One
    <2> QED BY <2>2, Counts DEF IInv, TicksCounted, AtRest, One
  <1> QED BY <1>1, Invariant, PTL

\* Meter_Energy and Meter_Cost never decrease, whatever the signs of the readings.
THEOREM MeterForward == Spec => NeverDecreases
  <1>1. IInv /\ [Next]_vars =>
            [Meter_Energy' >= Meter_Energy /\ Meter_Cost' >= Meter_Cost]_vars
    <2> SUFFICES ASSUME IInv, Next PROVE Meter_Energy' >= Meter_Energy /\ Meter_Cost' >= Meter_Cost
      OBVIOUS
    <2>1. Meter_Energy \in Nat /\ Meter_Cost \in Nat
      BY DEF IInv, Types
    <2>2. CASE CalcEnergy
      <3>1. energyForOnePeriod' \in Nat
        BY <2>2, CalcEnergyOK DEF IInv, Types
      <3> QED BY <2>1, <2>2, <3>1 DEF CalcEnergy
    <2>3. CASE CalcCost
      <3>1. Cost(energyForOnePeriod) \in Nat
        BY CostIsNat DEF IInv, Types
      <3> QED BY <2>1, <2>3, <3>1 DEF CalcCost, CalcPower
    <2>4. CASE ~ CalcEnergy /\ ~ CalcCost
      <3>1. UNCHANGED <<Meter_Energy, Meter_Cost>>
        BY <2>4 DEF Next, PIT_ISR, MeterCallback, Protocol, Analog, VoltageWait, VoltageSample,
           CurrentWait, CurrentSample, Calc, CalcWait, CalcLoad, CalcAdd, CalcPower, meterV
      <3> QED BY <2>1, <3>1
    <2> QED BY <2>2, <2>3, <2>4
  <1> QED BY <1>1, Invariant, PTL DEF Spec, NeverDecreases

-----------------------------------------------------------------------------
(* Undisturbed, the energy and the cost are exact: the ideal meter is ahead *)
(* of CalcThread by at most one reading, the last one, and by the cycle     *)
(* that is being closed.                                                    *)

\* The readings the voltage thread has still to take.
AtVoltage == count["Voltage"]
             + One(at["VoltageThread"] = "sample" /\ waiters["Voltage"] = {})

\* The readings still to be multiplied.
Pending == AtCalc + AtCurrent + One(isr = "callback")

TruthType == truth \in [sum : Int, n : Nat, energy : Nat, cost : Nat, lost : Nat]

\* An instantaneous value is the last reading unless that is still to be taken.
Fresh ==
    /\ at["VoltageThread"] \in {"wait", "sample"}
    /\ waiters["Voltage"] \subseteq {"VoltageThread"}
    /\ waiters["Voltage"] # {} => at["VoltageThread"] = "sample" /\ count["Voltage"] = 0
    /\ AtVoltage = 0 => InstantaneousVoltage = Meter_Voltage
    /\ AtCurrent = 0 /\ isr = "out" => InstantaneousCurrent = Meter_Current

\* CalcThread is between the energy and the cost of a cycle.
Pricing == at["CalcThread"] \in {"power", "cost"}

\* CalcThread has at most one reading to multiply, the last one.
Alone ==
    /\ Pricing => cnt = 0
    /\ ~ disturbed => /\ Pending <= 1
                      /\ at["CalcThread"] = "add" => loaded = Meter_Current

\* The energy of the cycle that is being closed.
Due == IF at["CalcThread"] = "energy" THEN Watts(sumOfPower) * Protocol_GetTime
       ELSE energyForOnePeriod

\* What CalcThread will have counted once it has closed that cycle.
Finished ==
    IF at["CalcThread"] = "energy" \/ Pricing
    THEN [sum |-> 0, n |-> 0,
          energy |-> IF Pricing THEN Meter_Energy ELSE Meter_Energy + Due,
          cost |-> Meter_Cost + Cost(Due)]
    ELSE [sum |-> sumOfPower, n |-> cnt, energy |-> Meter_Energy, cost |-> Meter_Cost]

\* What CalcThread will count from m with one more product.
With(m, product) ==
    LET energy == Watts(m.sum + product) * Protocol_GetTime
    IN  IF m.n + 1 = ARRAY_SIZE
        THEN [sum |-> 0, n |-> 0, energy |-> m.energy + energy, cost |-> m.cost + Cost(energy)]
        ELSE [sum |-> m.sum + product, n |-> m.n + 1, energy |-> m.energy, cost |-> m.cost]

Expected == IF Pending = 0 THEN Finished
            ELSE With(Finished, Meter_Voltage * Meter_Current)

\* m and the ideal meter agree, but for the truncations of the cost.
Same(m) ==
    /\ truth.sum = m.sum /\ truth.n = m.n /\ truth.energy = m.energy
    /\ truth.cost - CostUnit * m.cost \in 0 .. truth.lost

Agrees == ~ disturbed => Same(Expected)

EInv == TruthType /\ Fresh /\ Alone /\ Agrees


-----------------------------------------------------------------------------

\* The readings still to be multiplied are the ticks that have not been.
LEMMA PendingCounted == IInv => Pending = ticks - Multiplied /\ Pending \in Nat
  <1> SUFFICES ASSUME IInv PROVE Pending = ticks - Multiplied /\ Pending \in Nat
    OBVIOUS
  <1>1. AtCalc \in Nat /\ AtCurrent \in Nat
    BY Counts DEF AtCalc, AtCurrent, One, semaphores
  <1>2. isr \in {"out", "callback"}
    BY DEF IInv, Control
  <1> QED BY <1>1, <1>2, Counts DEF IInv, TicksCounted, Pending, One

\* A step that leaves them all where they are or passes one on.
LEMMA PendingKept ==
    ASSUME IInv, IInv', ticks' = ticks, Multiplied' = Multiplied
    PROVE  Pending' = Pending
  <1>1. AtCalc' \in Int /\ AtCurrent' \in Int /\ Multiplied' \in Int
    BY SamplingAssumption DEF IInv, Types, Control, Multiplied, AtCalc, AtCurrent, One, semaphores
  <1>2. ticks' = Multiplied' + AtCalc' + AtCurrent' + One(isr' = "callback")
    BY DEF IInv, TicksCounted
  <1>3. Pending' = ticks' - Multiplied'
    BY <1>1, <1>2 DEF Pending, One
  <1> QED BY <1>3, PendingCounted

\* The cost of a cycle differs from its price by the truncations only.
LEMMA CostTruncates ==
    ASSUME NEW energy \in Nat, rate \in Nat
    PROVE  energy * rate - CostUnit * Cost(energy) \in 0 .. 8 * (JOULE_PER_KWH - 1) + 7 * rate
  <1> DEFINE J == JOULE_PER_KWH
             k == energy \div 8
             e == energy % 8
             p == k * rate
             q == p \div J
             r == p % J
  <1>1. J \in Nat /\ J > 0
    BY MeteringAssumption
  <1>2. k \in Nat /\ e \in 0 .. 7 /\ energy = 8 * k + e
    OBVIOUS
  <1>3. p \in Nat
    BY <1>2
  <1>4. q \in Nat /\ r \in 0 .. J - 1 /\ p = J * q + r
    <2> HIDE DEF p, J
    <2> QED BY <1>1, <1>3
  <1>5. energy * rate = 8 * p + e * rate
    <2> HIDE DEF k, e
    <2>1. (8 * k + e) * rate = 8 * (k * rate) + e * rate
      BY <1>2
    <2> QED BY <1>2, <2>1
  <1>6. e * rate \in 0 .. 7 * rate
    <2> HIDE DEF e
    <2>1. e = 0 \/ e = 1 \/ e = 2 \/ e = 3 \/ e = 4 \/ e = 5 \/ e = 6 \/ e = 7
      BY <1>2
    <2> QED BY <2>1
  <1>7. Cost(energy) = q /\ CostUnit = 8 * J
    BY DEF Cost, CostUnit
  <1>8. (8 * J) * q = 8 * (J * q) /\ J * q \in Nat
    <2> HIDE DEF q, J
    <2> QED BY <1>1, <1>4
  <1> DEFINE m == J * q
             w == e * rate
  <1>9. 8 * p + w - 8 * m \in 0 .. 8 * (J - 1) + 7 * rate
    <2> HIDE DEF p, q, r, J, e, m, w
    <2>1. p = m + r
      BY <1>4 DEF m
    <2>2. m \in Nat /\ w \in 0 .. 7 * rate
      BY <1>6, <1>8 DEF m, w
    <2> QED BY <1>1, <1>3, <1>4, <2>1, <2>2
  <1> QED
    <2>1. energy * rate - CostUnit * Cost(energy) = 8 * p + w - 8 * m
      <3> HIDE DEF p, q, J, w, m
      <3>1. energy * rate = 8 * p + w
        BY <1>5 DEF w
      <3>2. CostUnit * Cost(energy) = 8 * m
        BY <1>7, <1>8 DEF m
      <3> DEFINE total == energy * rate
                 priced == CostUnit * Cost(energy)
      <3>3. total = 8 * p + w /\ priced = 8 * m
        BY <3>1, <3>2
      <3> HIDE DEF total, priced
      <3>4. p \in Nat /\ w \in Nat /\ m \in Nat
        <4>1. w \in 0 .. 7 * rate /\ m \in Nat
          BY <1>6, <1>8 DEF w, m
        <4> QED BY <1>3, <4>1
      <3>5. total - priced = 8 * p + w - 8 * m
        BY <3>3, <3>4
      <3> QED BY <3>5 DEF total, priced
    <2> HIDE DEF p, q, J, w, m
    <2> QED BY <1>9, <2>1 DEF J

\* A step that moves none of CalcThread's numbers, takes and brings no reading and
\* keeps the mode and the rate.
LEMMA ExpectedKept ==
    ASSUME UNCHANGED <<readingV, sumOfPower, cnt, energyForOnePeriod, Meter_Energy, Meter_Cost,
                       TestMode, rate, truth, disturbed>>,
           at'["CalcThread"] = at["CalcThread"], Pending' = Pending, Agrees
    PROVE  Agrees'
  <1>1. Due' = Due
    BY DEF Due, Watts, Protocol_GetTime
  <1>2. Finished' = Finished
    BY <1>1 DEF Finished, Pricing, Cost
  <1>3. Expected' = Expected
    BY <1>2 DEF Expected, With, Watts, Protocol_GetTime, Cost, readingV
  <1> QED BY <1>3 DEF Agrees, Same, CostUnit


LEMMA ExactInit == Init => EInv
  <1> SUFFICES ASSUME Init PROVE EInv
    OBVIOUS
  <1>1. /\ at["VoltageThread"] = "wait" /\ at["CurrentThread"] = "wait" /\ at["CalcThread"] = "wait"
        /\ \A s \in semaphores : count[s] = 0 /\ waiters[s] = {}
    BY DEF Init, OS_SemaphoreCreate, semaphores, threads
  <1>2. AtVoltage = 0 /\ Pending = 0
    BY <1>1 DEF Init, AtVoltage, AtCurrent, AtCalc, Pending, One, semaphores
  <1>3. TruthType
    BY DEF Init, TruthType
  <1>4. Fresh
    BY <1>1 DEF Init, Fresh, semaphores
  <1>5. Alone
    BY <1>1, <1>2 DEF Init, Alone, Pricing
  <1>6. Agrees
    <2>1. Expected = [sum |-> 0, n |-> 0, energy |-> 0, cost |-> 0]
      BY <1>1, <1>2 DEF Init, Expected, Finished, Pricing
    <2>2. CostUnit * 0 = 0
      BY MeteringAssumption DEF CostUnit
    <2> QED BY <2>1, <2>2 DEF Init, Agrees, Same
  <1> QED BY <1>3, <1>4, <1>5, <1>6 DEF EInv

\* What the steps of the analog threads, of the interrupt handler and of CalcThread's
\* wait have in common: at most `at' of the others moves.
LEMMA CalcKept ==
    ASSUME IInv, IInv', EInv, UNCHANGED <<calcV, meterV, modeV, histV, readingV>>,
           at'["CalcThread"] = at["CalcThread"]
    PROVE  TruthType' /\ Alone' /\ Agrees'
  <1>1. Pending' = Pending
    BY PendingKept DEF Multiplied, calcV, histV
  <1>2. TruthType'
    BY DEF EInv, TruthType, histV
  <1>3. Alone'
    BY <1>1 DEF EInv, Alone, Pricing, calcV, histV, readingV
  <1>4. Agrees'
    BY <1>1, ExpectedKept DEF EInv, calcV, meterV, modeV, histV
  <1> QED BY <1>2, <1>3, <1>4

\* The voltage thread takes a unit, or sleeps behind its wait.
LEMMA ExactVoltageWait == IInv /\ IInv' /\ EInv /\ VoltageWait => EInv'
  <1> SUFFICES ASSUME IInv, IInv', EInv, VoltageWait PROVE EInv'
    OBVIOUS
  <1>1. /\ at["VoltageThread"] = "wait" /\ at' = [at EXCEPT !["VoltageThread"] = "sample"]
        /\ OS_SemaphoreWait("Voltage", "VoltageThread")
        /\ UNCHANGED <<isr, readingV, channelV, modeV, calcV, meterV, histV>>
    BY DEF VoltageWait, Step
  <1>2. /\ \A r \in {"Current", "Calc"} : count'[r] = count[r] /\ waiters'[r] = waiters[r]
        /\ count' \in [semaphores -> Nat] /\ waiters' \in [semaphores -> SUBSET threads]
        /\ waiters["Voltage"] = {}
        /\ \/ count["Voltage"] > 0 /\ count'["Voltage"] = count["Voltage"] - 1
              /\ waiters'["Voltage"] = {}
           \/ count["Voltage"] = 0 /\ count'["Voltage"] = 0
              /\ waiters'["Voltage"] = {"VoltageThread"}
    BY <1>1, Waited DEF IInv, EInv, Fresh, semaphores, threads
  <1>3. /\ at'["VoltageThread"] = "sample" /\ at'["CurrentThread"] = at["CurrentThread"]
        /\ at'["CalcThread"] = at["CalcThread"]
    BY <1>1 DEF IInv, Control, threads
  <1>4. AtVoltage' = AtVoltage /\ AtCurrent' = AtCurrent
    <2>1. AtVoltage' = AtVoltage
      BY <1>1, <1>2, <1>3, Counts DEF AtVoltage, One, semaphores
    <2>2. AtCurrent' = AtCurrent
      BY <1>1, <1>2, <1>3, Counts DEF AtCurrent, One, semaphores
    <2> QED BY <2>1, <2>2
  <1>5. Fresh'
    BY <1>1, <1>2, <1>3, <1>4 DEF EInv, Fresh, readingV, channelV
  <1>6. TruthType' /\ Alone' /\ Agrees'
    BY <1>1, <1>3, CalcKept
  <1> QED BY <1>5, <1>6 DEF EInv

\* The voltage thread takes the last reading of the voltage.
LEMMA ExactVoltageSample == IInv /\ IInv' /\ EInv /\ VoltageSample => EInv'
  <1> SUFFICES ASSUME IInv, IInv', EInv, VoltageSample PROVE EInv'
    OBVIOUS
  <1>1. /\ at["VoltageThread"] = "sample" /\ at' = [at EXCEPT !["VoltageThread"] = "wait"]
        /\ Ready("VoltageThread") /\ InstantaneousVoltage' = Meter_Voltage
        /\ UNCHANGED <<count, waiters, isr, readingV, InstantaneousCurrent, modeV, calcV, meterV, histV>>
    BY DEF VoltageSample, Step, Running, osV
  <1>2. waiters["Voltage"] = {}
    BY <1>1 DEF EInv, Fresh, Ready, semaphores
  <1>3. /\ at'["VoltageThread"] = "wait" /\ at'["CurrentThread"] = at["CurrentThread"]
        /\ at'["CalcThread"] = at["CalcThread"]
    BY <1>1 DEF IInv, Control, threads
  <1>4. AtCurrent' = AtCurrent
    BY <1>1, <1>3 DEF AtCurrent, One
  <1>5. Fresh'
    BY <1>1, <1>2, <1>3, <1>4 DEF EInv, Fresh, readingV
  <1>6. TruthType' /\ Alone' /\ Agrees'
    BY <1>1, <1>3, CalcKept
  <1> QED BY <1>5, <1>6 DEF EInv

\* The current thread takes a unit, or sleeps behind its wait.
LEMMA ExactCurrentWait == IInv /\ IInv' /\ EInv /\ CurrentWait => EInv'
  <1> SUFFICES ASSUME IInv, IInv', EInv, CurrentWait PROVE EInv'
    OBVIOUS
  <1>1. /\ at["CurrentThread"] = "wait" /\ at' = [at EXCEPT !["CurrentThread"] = "sample"]
        /\ OS_SemaphoreWait("Current", "CurrentThread")
        /\ UNCHANGED <<isr, readingV, channelV, modeV, calcV, meterV, histV>>
    BY DEF CurrentWait, Step
  <1>2. /\ \A r \in {"Voltage", "Calc"} : count'[r] = count[r] /\ waiters'[r] = waiters[r]
        /\ count' \in [semaphores -> Nat] /\ waiters' \in [semaphores -> SUBSET threads]
        /\ waiters["Current"] = {}
        /\ \/ count["Current"] > 0 /\ count'["Current"] = count["Current"] - 1
              /\ waiters'["Current"] = {}
           \/ count["Current"] = 0 /\ count'["Current"] = 0
              /\ waiters'["Current"] = {"CurrentThread"}
    BY <1>1, Waited DEF IInv, Sleeping, semaphores, threads
  <1>3. /\ at'["CurrentThread"] = "sample" /\ at'["VoltageThread"] = at["VoltageThread"]
        /\ at'["CalcThread"] = at["CalcThread"]
    BY <1>1 DEF IInv, Control, threads
  <1>4. AtVoltage' = AtVoltage /\ AtCurrent' = AtCurrent
    <2>1. AtVoltage' = AtVoltage
      BY <1>1, <1>2, <1>3, Counts DEF AtVoltage, One, semaphores
    <2>2. AtCurrent' = AtCurrent
      <3>1. at["CurrentThread"] = "wait" /\ count["Current"] \in Nat
        BY <1>1, Counts DEF semaphores
      <3>2. {"CurrentThread"} # {}
        OBVIOUS
      <3>3. AtCurrent = count["Current"]
        BY <3>1 DEF AtCurrent, One
      <3>4. CASE count["Current"] > 0
        BY <1>2, <1>3, <3>1, <3>3, <3>4 DEF AtCurrent, One
      <3>5. CASE count["Current"] = 0
        <4>1. count'["Current"] = 0 /\ waiters'["Current"] # {}
          BY <1>2, <3>2, <3>5
        <4> QED BY <3>3, <3>5, <4>1 DEF AtCurrent, One
      <3> QED BY <3>1, <3>4, <3>5
    <2> QED BY <2>1, <2>2
  <1>5. Fresh'
    BY <1>1, <1>2, <1>3, <1>4 DEF EInv, Fresh, readingV, channelV
  <1>6. TruthType' /\ Alone' /\ Agrees'
    BY <1>1, <1>3, CalcKept
  <1> QED BY <1>5, <1>6 DEF EInv

\* The current thread takes the last reading of the current, and wakes CalcThread.
LEMMA ExactCurrentSample == IInv /\ IInv' /\ EInv /\ CurrentSample => EInv'
  <1> SUFFICES ASSUME IInv, IInv', EInv, CurrentSample PROVE EInv'
    OBVIOUS
  <1>1. /\ at["CurrentThread"] = "sample" /\ at' = [at EXCEPT !["CurrentThread"] = "wait"]
        /\ InstantaneousCurrent' = Meter_Current /\ OS_SemaphoreSignal("Calc")
        /\ UNCHANGED <<isr, readingV, InstantaneousVoltage, modeV, calcV, meterV, histV>>
    BY DEF CurrentSample, Step
  <1>2. count'["Voltage"] = count["Voltage"] /\ waiters'["Voltage"] = waiters["Voltage"]
    BY <1>1, Signalled DEF IInv, Sleeping, semaphores, threads
  <1>3. /\ at'["CurrentThread"] = "wait" /\ at'["VoltageThread"] = at["VoltageThread"]
        /\ at'["CalcThread"] = at["CalcThread"]
    BY <1>1 DEF IInv, Control, threads
  <1>4. AtVoltage' = AtVoltage
    BY <1>2, <1>3 DEF AtVoltage
  <1>5. Fresh'
    BY <1>1, <1>2, <1>3, <1>4 DEF EInv, Fresh, readingV
  <1>6. TruthType' /\ Alone' /\ Agrees'
    BY <1>1, <1>3, CalcKept
  <1> QED BY <1>5, <1>6 DEF EInv

\* MeterCallback passes the tick on: the current is still to be taken.
LEMMA ExactMeterCallback == IInv /\ IInv' /\ EInv /\ MeterCallback => EInv'
  <1> SUFFICES ASSUME IInv, IInv', EInv, MeterCallback PROVE EInv'
    OBVIOUS
  <1>1. /\ isr = "callback" /\ isr' = "out" /\ OS_SemaphoreSignal("Current")
        /\ UNCHANGED <<at, readingV, channelV, modeV, calcV, meterV, histV>>
    BY DEF MeterCallback
  <1>2. /\ count'["Voltage"] = count["Voltage"] /\ waiters'["Voltage"] = waiters["Voltage"]
        /\ \/ waiters["Current"] = {} /\ count'["Current"] = count["Current"] + 1
           \/ waiters["Current"] = {"CurrentThread"} /\ count'["Current"] = count["Current"]
        /\ waiters'["Current"] = {} /\ count' \in [semaphores -> Nat]
    BY <1>1, Signalled DEF IInv, Sleeping, semaphores, threads
  <1>3. AtVoltage' = AtVoltage
    BY <1>1, <1>2 DEF AtVoltage
  <1>4. AtCurrent' # 0
    <2>1. AtCurrent' = AtCurrent + 1
      BY <1>1, <1>2, Counts DEF IInv, Sleeping, AtCurrent, One, semaphores
    <2>2. AtCurrent \in Nat
      BY Counts DEF AtCurrent, One, semaphores
    <2> QED BY <2>1, <2>2
  <1>5. Fresh'
    BY <1>1, <1>2, <1>3, <1>4 DEF EInv, Fresh, readingV, channelV
  <1>6. TruthType' /\ Alone' /\ Agrees'
    BY <1>1, CalcKept
  <1> QED BY <1>5, <1>6 DEF EInv


\* Taken means that no reading is on its way.
LEMMA NonePending == IInv /\ Taken => Pending = 0
  <1> SUFFICES ASSUME IInv, Taken PROVE Pending = 0
    OBVIOUS
  <1>1. isr = "out" /\ count["Calc"] = 0
    BY DEF Taken
  <1>2. waiters["Current"] # {}
    BY DEF IInv, Sleeping, Control, Taken, Ready, semaphores, threads
  <1>3. AtCurrent = 0
    BY <1>2 DEF IInv, Sleeping, AtCurrent, One
  <1>4. AtCalc = 0
    <2>1. CASE waiters["Calc"] # {}
      BY <1>1, <2>1 DEF AtCalc, One
    <2>2. CASE waiters["Calc"] = {}
      <3>1. Ready("CalcThread")
        BY <2>2 DEF IInv, Sleeping, Ready, semaphores
      <3>2. at["CalcThread"] \in {"energy", "power", "cost"}
        BY <3>1 DEF Taken
      <3> QED BY <1>1, <3>2 DEF AtCalc, One
    <2> QED BY <2>1, <2>2
  <1> QED BY <1>1, <1>3, <1>4 DEF Pending, One

\* What CalcThread works with, as numbers.
LEMMA FinishedTypes ==
    ASSUME IInv
    PROVE  /\ Finished.sum \in Int /\ Finished.n \in 0 .. ARRAY_SIZE - 1
           /\ Finished.energy \in Nat /\ Finished.cost \in Nat
           /\ Due \in Nat /\ rate \in Nat /\ Cost(Due) \in Nat
  <1>1. Watts(sumOfPower) \in Nat /\ Protocol_GetTime \in Nat
    BY WattsNatural DEF IInv, Types, Protocol_GetTime
  <1>2. Due \in Nat /\ rate \in Nat
    BY <1>1 DEF IInv, Types, Due
  <1>3. Cost(Due) \in Nat
    BY <1>2, CostIsNat
  <1>4. 0 \in 0 .. ARRAY_SIZE - 1
    BY Counts
  <1>5. at["CalcThread"] # "energy" => cnt \in 0 .. ARRAY_SIZE - 1
    BY Counts DEF IInv, Closing
  <1> QED BY <1>2, <1>3, <1>4, <1>5 DEF IInv, Types, Finished

\* The ideal meter counts in integers, and its energy and cost only grow.
LEMMA IdealType ==
    ASSUME NEW v \in Int, NEW c \in Int, rate \in Nat, TruthType
    PROVE  Ideal(v, c) \in [sum : Int, n : Nat, energy : Nat, cost : Nat, lost : Nat]
  <1> DEFINE s == truth.sum + v * c
             n == truth.n + 1
             energy == Watts(s) * Protocol_GetTime
             e == truth.energy + energy
             x == truth.cost + energy * rate
             l == truth.lost + 8 * (JOULE_PER_KWH - 1) + 7 * rate
  <1>1. s \in Int /\ n \in Nat
    BY DEF TruthType
  <1>2. energy \in Nat
    <2> HIDE DEF s
    <2>1. Watts(s) \in Nat /\ Protocol_GetTime \in Nat
      BY <1>1, WattsNatural DEF Protocol_GetTime
    <2> QED BY <2>1
  <1>3. e \in Nat /\ x \in Nat
    <2> HIDE DEF energy
    <2>1. energy * rate \in Nat
      BY <1>2
    <2> QED BY <1>2, <2>1 DEF TruthType
  <1>4. l \in Nat
    BY MeteringAssumption DEF TruthType
  <1>5. Ideal(v, c) = IF n < ARRAY_SIZE THEN [truth EXCEPT !.sum = s, !.n = n]
                      ELSE [sum |-> 0, n |-> 0, energy |-> e, cost |-> x, lost |-> l]
    BY DEF Ideal, TruthType
  <1> HIDE DEF s, n, e, x, l
  <1>6. [truth EXCEPT !.sum = s, !.n = n]
            \in [sum : Int, n : Nat, energy : Nat, cost : Nat, lost : Nat]
    BY <1>1 DEF TruthType
  <1>7. [sum |-> 0, n |-> 0, energy |-> e, cost |-> x, lost |-> l]
            \in [sum : Int, n : Nat, energy : Nat, cost : Nat, lost : Nat]
    BY <1>3, <1>4
  <1> QED BY <1>5, <1>6, <1>7

\* One reading more keeps the ideal meter and CalcThread together: in the middle of
\* a cycle both add the product, at its end the cost is truncated once more.
LEMMA OneMore ==
    ASSUME NEW m, m.sum \in Int, m.n \in 0 .. ARRAY_SIZE - 1, m.energy \in Nat, m.cost \in Nat,
           NEW v \in Int, NEW c \in Int, rate \in Nat, TruthType, Same(m)
    PROVE  LET after == With(m, v * c)
               ideal == Ideal(v, c)
           IN  /\ ideal.sum = after.sum /\ ideal.n = after.n /\ ideal.energy = after.energy
               /\ ideal.cost - CostUnit * after.cost \in 0 .. ideal.lost
  <1> DEFINE p == v * c
             energy == Watts(m.sum + p) * Protocol_GetTime
  <1>1. p \in Int
    OBVIOUS
  <1>2. /\ truth.sum \in Int /\ truth.n \in Nat /\ truth.energy \in Nat /\ truth.cost \in Nat
        /\ truth.lost \in Nat /\ DOMAIN truth = {"sum", "n", "energy", "cost", "lost"}
        /\ truth.sum = m.sum /\ truth.n = m.n /\ truth.energy = m.energy
        /\ truth.cost - CostUnit * m.cost \in 0 .. truth.lost
    BY DEF TruthType, Same
  <1> HIDE DEF p
  <1>3. energy \in Nat
    <2>1. Watts(m.sum + p) \in Nat /\ Protocol_GetTime \in Nat
      BY <1>1, WattsNatural DEF Protocol_GetTime
    <2> QED BY <2>1
  <1>4. ARRAY_SIZE \in Nat \ {0}
    BY SamplingAssumption
  <1>5. CASE m.n + 1 # ARRAY_SIZE
    <2>1. m.n + 1 < ARRAY_SIZE
      BY <1>4, <1>5
    <2>2. With(m, p) = [sum |-> m.sum + p, n |-> m.n + 1, energy |-> m.energy, cost |-> m.cost]
      BY <1>5 DEF With
    <2>3. Ideal(v, c) = [truth EXCEPT !.sum = truth.sum + p, !.n = truth.n + 1]
      BY <1>2, <2>1 DEF Ideal, p
    <2>4. /\ Ideal(v, c).sum = m.sum + p /\ Ideal(v, c).n = m.n + 1
          /\ Ideal(v, c).energy = m.energy /\ Ideal(v, c).cost = truth.cost
          /\ Ideal(v, c).lost = truth.lost
      <3> DEFINE s == m.sum + p
                 n == m.n + 1
      <3>1. s \in Int /\ n \in Nat
        BY <1>1, <1>2
      <3>2. Ideal(v, c) = [truth EXCEPT !.sum = s, !.n = n]
        BY <1>2, <2>3
      <3> HIDE DEF s, n
      <3>3. /\ Ideal(v, c).sum = s /\ Ideal(v, c).n = n
            /\ Ideal(v, c).energy = truth.energy /\ Ideal(v, c).cost = truth.cost
            /\ Ideal(v, c).lost = truth.lost
        BY <3>2 DEF TruthType
      <3> QED BY <1>2, <3>3 DEF s, n
    <2> QED BY <1>2, <2>2, <2>4 DEF p
  <1>6. CASE m.n + 1 = ARRAY_SIZE
    <2>1. ~ (m.n + 1 < ARRAY_SIZE)
      BY <1>4, <1>6
    <2>2. With(m, p) = [sum |-> 0, n |-> 0, energy |-> m.energy + energy,
                        cost |-> m.cost + Cost(energy)]
      BY <1>6 DEF With
    <2>3. Ideal(v, c) = [sum |-> 0, n |-> 0, energy |-> truth.energy + energy,
                         cost |-> truth.cost + energy * rate,
                         lost |-> truth.lost + 8 * (JOULE_PER_KWH - 1) + 7 * rate]
      BY <1>2, <2>1 DEF Ideal, p
    <2>4. energy * rate - CostUnit * Cost(energy) \in 0 .. 8 * (JOULE_PER_KWH - 1) + 7 * rate
      BY <1>3, CostTruncates
    <2>5. CostUnit \in Nat /\ Cost(energy) \in Nat /\ JOULE_PER_KWH \in Nat \ {0}
      BY <1>3, CostIsNat, MeteringAssumption DEF CostUnit
    <2> DEFINE w == energy * rate
               u == CostUnit * m.cost
               x == CostUnit * Cost(energy)
    <2>6. w \in Nat /\ u \in Nat /\ x \in Nat /\ CostUnit * (m.cost + Cost(energy)) = u + x
      <3> HIDE DEF energy
      <3> DEFINE q == Cost(energy)
      <3>1. q \in Nat
        BY <2>5
      <3> HIDE DEF q
      <3>2. CostUnit * (m.cost + q) = CostUnit * m.cost + CostUnit * q
        BY <2>5, <3>1
      <3>3. energy * rate \in Nat /\ CostUnit * m.cost \in Nat /\ CostUnit * q \in Nat
        BY <1>3, <2>5, <3>1
      <3> QED BY <3>2, <3>3 DEF q
    <2>7. /\ w - x \in 0 .. 8 * (JOULE_PER_KWH - 1) + 7 * rate
          /\ truth.cost - u \in 0 .. truth.lost
      BY <1>2, <2>4
    <2> DEFINE z == 8 * (JOULE_PER_KWH - 1) + 7 * rate
    <2>8. z \in Nat
      BY <2>5
    <2> HIDE DEF w, u, x, z
    <2>9. (truth.cost + w) - (u + x) \in 0 .. truth.lost + z
      BY <1>2, <2>6, <2>7, <2>8 DEF z
    <2>10. /\ Ideal(v, c).sum = 0 /\ Ideal(v, c).n = 0
           /\ Ideal(v, c).energy = truth.energy + energy
           /\ Ideal(v, c).cost = truth.cost + w
           /\ Ideal(v, c).lost = truth.lost + z
      <3>1. truth.lost + 8 * (JOULE_PER_KWH - 1) + 7 * rate = truth.lost + z
        BY <1>2, <2>5 DEF z
      <3> QED BY <2>3, <3>1 DEF w
    <2>11. Ideal(v, c).cost - CostUnit * With(m, p).cost \in 0 .. Ideal(v, c).lost
      BY <2>2, <2>6, <2>9, <2>10
    <2> QED BY <1>2, <2>2, <2>10, <2>11 DEF p
  <1> QED BY <1>5, <1>6


\* PIT_ISR brings a reading: undisturbed, it is the only one on its way.
LEMMA ExactPIT_ISR == IInv /\ IInv' /\ EInv /\ PIT_ISR => EInv'
  <1> SUFFICES ASSUME IInv, IInv', EInv, PIT_ISR PROVE EInv'
    OBVIOUS
  <1>1. /\ isr = "out" /\ isr' = "callback" /\ OS_SemaphoreSignal("Voltage")
        /\ disturbed' = (disturbed \/ ~ Taken)
        /\ UNCHANGED <<at, channelV, modeV, calcV, meterV>>
    BY DEF PIT_ISR
  <1>2. /\ waiters'["Voltage"] = {} /\ count' \in [semaphores -> Nat]
        /\ \A r \in {"Current", "Calc"} : count'[r] = count[r] /\ waiters'[r] = waiters[r]
        /\ \/ waiters["Voltage"] = {} /\ count'["Voltage"] = count["Voltage"] + 1
           \/ waiters["Voltage"] = {"VoltageThread"} /\ count'["Voltage"] = count["Voltage"]
    BY <1>1, Signalled DEF IInv, EInv, Fresh, semaphores, threads
  <1>3. PICK reading \in Readings :
            /\ Meter_Voltage' = reading[1] /\ Meter_Current' = reading[2]
            /\ truth' = Ideal(reading[1], reading[2])
    BY DEF PIT_ISR
  <1> DEFINE v == reading[1]
             c == reading[2]
  <1>4. v \in Int /\ c \in Int
    BY MeteringAssumption
  <1>5. AtVoltage' # 0
    <2>1. AtVoltage' = count'["Voltage"] + One(at["VoltageThread"] = "sample")
      BY <1>1, <1>2 DEF AtVoltage, One
    <2>2. count["Voltage"] \in Nat
      BY Counts DEF semaphores
    <2>3. waiters["Voltage"] = {"VoltageThread"} => at["VoltageThread"] = "sample"
      BY DEF EInv, Fresh
    <2> QED BY <1>2, <2>1, <2>2, <2>3 DEF One
  <1>6. Fresh'
    BY <1>1, <1>2, <1>5 DEF EInv, Fresh
  <1>7. at["CalcThread"] = at'["CalcThread"] /\ AtCalc' = AtCalc /\ AtCurrent' = AtCurrent
    BY <1>1, <1>2 DEF AtCalc, AtCurrent
  <1>8. ~ disturbed' => Pending = 0 /\ Pending' = 1
    <2> SUFFICES ASSUME ~ disturbed' PROVE Pending = 0 /\ Pending' = 1
      OBVIOUS
    <2>1. Pending = 0
      BY <1>1, NonePending
    <2>2. AtCalc + AtCurrent = 0 /\ AtCalc \in Int /\ AtCurrent \in Int
      BY <1>1, <2>1, Counts DEF Pending, One
    <2> QED BY <1>1, <1>7, <2>1, <2>2 DEF Pending, One
  <1>9. Alone'
    <2>1. UNCHANGED cnt
      BY <1>1 DEF calcV
    <2>2. ~ disturbed' => at["CalcThread"] # "add"
      <3> SUFFICES ASSUME ~ disturbed', at["CalcThread"] = "add" PROVE FALSE
        OBVIOUS
      <3>1. ~ Ready("CalcThread")
        BY <1>1 DEF Taken
      <3>2. waiters["Calc"] # {}
        BY <3>1 DEF IInv, Control, Sleeping, Ready, semaphores
      <3> QED BY <3>2 DEF IInv, Sleeping
    <2> QED BY <1>7, <1>8, <2>1, <2>2 DEF EInv, Alone, Pricing
  <1>10. TruthType'
    <2>1. Ideal(v, c) \in [sum : Int, n : Nat, energy : Nat, cost : Nat, lost : Nat]
      BY <1>4, IdealType, FinishedTypes DEF EInv
    <2> QED BY <1>3, <2>1 DEF TruthType
  <1>11. Finished' = Finished
    BY <1>1 DEF Finished, Pricing, Due, Watts, Protocol_GetTime, Cost, modeV, calcV, meterV
  <1>12. Agrees'
    <2> SUFFICES ASSUME ~ disturbed' PROVE Same(Expected)'
      BY DEF Agrees
    <2>1. Same(Finished)
      BY <1>1, <1>8 DEF EInv, Agrees, Expected
    <2>2. Expected' = With(Finished, v * c)
      <3>1. Expected' = With(Finished, v * c)'
        BY <1>3, <1>8, <1>11 DEF Expected
      <3>2. With(Finished, v * c)' = With(Finished, v * c)
        BY <1>1, <1>11 DEF With, Watts, Protocol_GetTime, Cost, modeV
      <3> QED BY <3>1, <3>2
    <2> DEFINE ideal == Ideal(v, c)
               after == With(Finished, v * c)
    <2>3. /\ ideal.sum = after.sum /\ ideal.n = after.n /\ ideal.energy = after.energy
          /\ ideal.cost - CostUnit * after.cost \in 0 .. ideal.lost
      BY <1>4, <2>1, FinishedTypes, OneMore DEF EInv
    <2>4. truth' = ideal /\ Expected' = after
      BY <1>3, <2>2
    <2> HIDE DEF ideal, after
    <2> QED BY <2>3, <2>4 DEF Same, CostUnit
  <1> QED BY <1>6, <1>9, <1>10, <1>12 DEF EInv


\* ProtocolThread changes the mode or the rate: undisturbed, nothing is under way.
LEMMA ExactProtocol == IInv /\ IInv' /\ EInv /\ Protocol => EInv'
  <1> SUFFICES ASSUME IInv, IInv', EInv, Protocol PROVE EInv'
    OBVIOUS
  <1>1. /\ UNCHANGED <<count, waiters, at, isr, readingV, channelV, calcV, meterV, ticks, truth>>
        /\ disturbed' = (disturbed \/ ~ AtRest)
    BY DEF Protocol, osV
  <1>2. TruthType' /\ Fresh'
    BY <1>1 DEF EInv, TruthType, Fresh, AtVoltage, AtCurrent, One, readingV, channelV
  <1>3. Pending' = Pending
    BY <1>1 DEF Pending, AtCalc, AtCurrent, One
  <1>4. Alone'
    BY <1>1, <1>3 DEF EInv, Alone, Pricing, calcV, readingV
  <1>5. Agrees'
    <2> SUFFICES ASSUME ~ disturbed' PROVE Same(Expected)'
      BY DEF Agrees
    <2>1. isr = "out" /\ waiters["Current"] # {} /\ waiters["Calc"] # {}
      BY <1>1 DEF IInv, Control, Sleeping, AtRest, Ready, semaphores, threads
    <2>2. at["CalcThread"] = "load" /\ Pending = 0
      BY <2>1 DEF IInv, Sleeping, Pending, AtCalc, AtCurrent, One
    <2>3. Expected' = Expected
      BY <1>1, <1>3, <2>2 DEF Expected, Finished, Pricing, calcV, meterV
    <2>4. Same(Expected)
      BY <1>1 DEF EInv, Agrees
    <2> QED BY <1>1, <2>3, <2>4 DEF Same, CostUnit
  <1> QED BY <1>2, <1>4, <1>5 DEF EInv

\* A step of CalcThread finds the analog threads asleep, and no interrupt.
LEMMA CalcAlone ==
    ASSUME IInv, EInv, NEW from, NEW to, Step("CalcThread", from, to)
    PROVE  /\ InstantaneousVoltage = Meter_Voltage /\ InstantaneousCurrent = Meter_Current
           /\ isr = "out" /\ AtCurrent = 0
  <1>1. /\ isr = "out" /\ ~ Ready("VoltageThread") /\ ~ Ready("CurrentThread")
    BY DEF Step, Running, threads, priority
  <1>2. waiters["Voltage"] # {} /\ waiters["Current"] # {}
    BY <1>1 DEF IInv, EInv, Control, Sleeping, Fresh, Ready, semaphores, threads
  <1>3. AtVoltage = 0 /\ AtCurrent = 0
    BY <1>2 DEF IInv, EInv, Sleeping, Fresh, AtVoltage, AtCurrent, One
  <1> QED BY <1>1, <1>3 DEF EInv, Fresh

\* CalcThread takes a unit, or sleeps behind its wait.
LEMMA ExactCalcWait == IInv /\ IInv' /\ EInv /\ CalcWait => EInv'
  <1> SUFFICES ASSUME IInv, IInv', EInv, CalcWait PROVE EInv'
    OBVIOUS
  <1>1. /\ at["CalcThread"] = "wait" /\ at' = [at EXCEPT !["CalcThread"] = "load"]
        /\ OS_SemaphoreWait("Calc", "CalcThread")
        /\ UNCHANGED <<isr, readingV, channelV, modeV, calcV, meterV, histV>>
    BY DEF CalcWait, Step
  <1>2. \A r \in {"Voltage", "Current"} : count'[r] = count[r] /\ waiters'[r] = waiters[r]
    BY <1>1, Waited DEF IInv, Sleeping, semaphores, threads
  <1>3. /\ at'["CalcThread"] = "load" /\ at'["VoltageThread"] = at["VoltageThread"]
        /\ at'["CurrentThread"] = at["CurrentThread"]
    BY <1>1 DEF IInv, Control, threads
  <1>4. AtVoltage' = AtVoltage /\ AtCurrent' = AtCurrent
    BY <1>2, <1>3 DEF AtVoltage, AtCurrent
  <1>5. Fresh'
    BY <1>1, <1>2, <1>3, <1>4 DEF EInv, Fresh, readingV, channelV
  <1>6. Pending' = Pending
    BY <1>1, PendingKept DEF Multiplied, calcV, histV
  <1>7. TruthType' /\ Alone'
    BY <1>1, <1>3, <1>6 DEF EInv, TruthType, Alone, Pricing, calcV, histV
  <1>8. Agrees'
    <2>1. Finished' = Finished
      BY <1>1, <1>3 DEF Finished, Pricing, calcV, meterV
    <2>2. Expected' = Expected
      BY <1>1, <1>6, <2>1 DEF Expected, With, Watts, Protocol_GetTime, Cost, readingV, modeV
    <2> QED BY <1>1, <2>2 DEF EInv, Agrees, Same, CostUnit, histV
  <1> QED BY <1>5, <1>7, <1>8 DEF EInv

\* What the other steps of CalcThread leave alone.
LEMMA ExactCalcMoves ==
    ASSUME IInv, EInv, NEW from, NEW to \in {"wait", "add", "energy", "power", "cost"},
           Step("CalcThread", from, to), from # "wait",
           UNCHANGED <<osV, isr, readingV, channelV, histV>>
    PROVE  /\ at["CalcThread"] = from /\ at'["CalcThread"] = to
           /\ at'["CurrentThread"] = at["CurrentThread"]
           /\ waiters["Calc"] = {} /\ Fresh' /\ TruthType'
  <1>1. /\ at["CalcThread"] = from /\ at' = [at EXCEPT !["CalcThread"] = to]
        /\ Ready("CalcThread") /\ UNCHANGED <<count, waiters>>
    BY DEF Step, Running, osV
  <1>2. waiters["Calc"] = {}
    BY <1>1 DEF IInv, Sleeping, Ready, semaphores
  <1>3. /\ at'["CurrentThread"] = at["CurrentThread"] /\ at'["CalcThread"] = to
        /\ at'["VoltageThread"] = at["VoltageThread"]
    BY <1>1 DEF IInv, Control, threads
  <1>4. Fresh'
    BY <1>1, <1>3 DEF EInv, Fresh, AtVoltage, AtCurrent, One, readingV, channelV
  <1> QED BY <1>1, <1>2, <1>3, <1>4 DEF EInv, TruthType, histV

\* CalcThread reads the current, which is that of the last reading.
LEMMA ExactCalcLoad == IInv /\ IInv' /\ EInv /\ CalcLoad => EInv'
  <1> SUFFICES ASSUME IInv, IInv', EInv, CalcLoad PROVE EInv'
    OBVIOUS
  <1>1. /\ Step("CalcThread", "load", "add") /\ loaded' = InstantaneousCurrent
        /\ UNCHANGED <<osV, isr, readingV, channelV, modeV, cnt, sumOfPower,
                       energyForOnePeriod, cycles, meterV, histV>>
    BY DEF CalcLoad
  <1>2. /\ at["CalcThread"] = "load" /\ at'["CalcThread"] = "add" /\ Fresh' /\ TruthType'
    BY <1>1, ExactCalcMoves
  <1>3. InstantaneousCurrent = Meter_Current
    BY <1>1, CalcAlone
  <1>4. Pending' = Pending
    BY <1>1, PendingKept DEF Multiplied, histV
  <1>5. Alone'
    BY <1>1, <1>2, <1>3, <1>4 DEF EInv, Alone, Pricing, histV, readingV
  <1>6. Agrees'
    <2>1. Finished' = Finished
      BY <1>1, <1>2 DEF Finished, Pricing, meterV
    <2>2. Expected' = Expected
      BY <1>1, <1>4, <2>1 DEF Expected, With, Watts, Protocol_GetTime, Cost, readingV, modeV
    <2> QED BY <1>1, <2>2 DEF EInv, Agrees, Same, CostUnit, histV
  <1> QED BY <1>2, <1>5, <1>6 DEF EInv

\* CalcThread adds the product of the last reading: none is left.
LEMMA ExactCalcAdd == IInv /\ IInv' /\ EInv /\ CalcAdd => EInv'
  <1> SUFFICES ASSUME IInv, IInv', EInv, CalcAdd PROVE EInv'
    OBVIOUS
  <1> DEFINE to == IF cnt + 1 = ARRAY_SIZE THEN "energy" ELSE "wait"
             product == loaded * InstantaneousVoltage
  <1>1. /\ Step("CalcThread", "add", to) /\ to \in {"energy", "wait"}
        /\ sumOfPower' = sumOfPower + product /\ cnt' = cnt + 1
        /\ UNCHANGED <<osV, isr, readingV, channelV, modeV, loaded, energyForOnePeriod,
                       cycles, meterV, histV>>
    BY DEF CalcAdd
  <1>2. /\ at["CalcThread"] = "add" /\ at'["CalcThread"] = to /\ waiters["Calc"] = {}
        /\ Fresh' /\ TruthType'
    <2> HIDE DEF to
    <2> QED BY <1>1, ExactCalcMoves
  <1>3. InstantaneousVoltage = Meter_Voltage /\ isr = "out" /\ AtCurrent = 0
    BY <1>1, CalcAlone
  <1>4. Pending' = Pending - 1
    <2>1. Multiplied' = Multiplied + 1 /\ Multiplied' \in Int
      BY <1>1, Counts DEF Multiplied
    <2>2. AtCalc' \in Int /\ AtCurrent' \in Int
      BY DEF IInv, Control, AtCalc, AtCurrent, One, semaphores
    <2>3. ticks' = Multiplied' + AtCalc' + AtCurrent' + One(isr' = "callback") /\ ticks' = ticks
      BY <1>1 DEF IInv, TicksCounted, histV
    <2>4. Pending' = ticks' - Multiplied'
      BY <2>1, <2>2, <2>3 DEF Pending, One
    <2> QED BY <2>1, <2>3, <2>4, Counts, PendingCounted
  <1>5. Pending >= 1
    BY <1>2, <1>3, Counts DEF Pending, AtCalc, One, semaphores
  <1>6. Alone'
    BY <1>1, <1>2, <1>4, PendingCounted DEF EInv, Alone, Pricing, histV
  <1>7. Agrees'
    <2> SUFFICES ASSUME ~ disturbed' PROVE Same(Expected)'
      BY DEF Agrees
    <2>1. ~ disturbed /\ Pending = 1 /\ Pending' = 0 /\ loaded = Meter_Current
      BY <1>1, <1>2, <1>4, <1>5, PendingCounted DEF EInv, Alone, histV
    <2>2. product = Meter_Voltage * Meter_Current
      BY <1>3, <2>1 DEF IInv, Types
    <2> HIDE DEF product
    <2>3. Finished = [sum |-> sumOfPower, n |-> cnt, energy |-> Meter_Energy, cost |-> Meter_Cost]
      BY <1>2 DEF Finished, Pricing
    <2>4. Expected = With(Finished, product)
      BY <2>1, <2>2 DEF Expected
    <2>5. Finished' = With(Finished, product)
      <3>1. CASE cnt + 1 = ARRAY_SIZE
        <4>1. at'["CalcThread"] = "energy"
          BY <1>2, <3>1
        <4> QED BY <1>1, <2>3, <3>1, <4>1
                DEF Finished, Pricing, With, Due, Watts, Protocol_GetTime, Cost, modeV, meterV
      <3>2. CASE cnt + 1 # ARRAY_SIZE
        <4>1. at'["CalcThread"] = "wait"
          BY <1>2, <3>2
        <4> QED BY <1>1, <2>3, <3>2, <4>1 DEF Finished, Pricing, With, meterV
      <3> QED BY <3>1, <3>2
    <2>6. Expected' = Expected
      BY <2>1, <2>4, <2>5 DEF Expected
    <2> QED BY <1>1, <2>1, <2>6 DEF EInv, Agrees, Same, CostUnit, histV
  <1> QED BY <1>2, <1>6, <1>7 DEF EInv

\* CalcThread closes the cycle, adds its energy and then its cost: what it will have
\* counted in the end stays the same.
LEMMA ExactCalcClose == IInv /\ IInv' /\ EInv /\ (CalcEnergy \/ CalcPower \/ CalcCost) => EInv'
  <1> SUFFICES ASSUME IInv, IInv', EInv, CalcEnergy \/ CalcPower \/ CalcCost PROVE EInv'
    OBVIOUS
  <1>1. /\ UNCHANGED <<osV, isr, readingV, channelV, modeV, histV, loaded>>
        /\ \/ Step("CalcThread", "energy", "power")
           \/ Step("CalcThread", "power", "cost")
           \/ Step("CalcThread", "cost", "wait")
    BY DEF CalcEnergy, CalcPower, CalcCost, calcV
  <1>2. /\ \/ at["CalcThread"] = "energy" /\ at'["CalcThread"] = "power"
           \/ at["CalcThread"] = "power" /\ at'["CalcThread"] = "cost"
           \/ at["CalcThread"] = "cost" /\ at'["CalcThread"] = "wait"
        /\ at'["CurrentThread"] = at["CurrentThread"]
        /\ waiters["Calc"] = {} /\ Fresh' /\ TruthType'
    BY <1>1, ExactCalcMoves
  <1>3. Finished' = Finished /\ (Pricing' => cnt' = 0)
    <2>1. CASE CalcEnergy
      <3>1. at["CalcThread"] = "energy" /\ at'["CalcThread"] = "power"
        BY <1>2, <2>1 DEF CalcEnergy, Step
      <3>2. /\ sumOfPower' = Watts(sumOfPower) /\ cnt' = 0
            /\ energyForOnePeriod' = sumOfPower' * Protocol_GetTime
            /\ Meter_Energy' = Meter_Energy + energyForOnePeriod'
            /\ UNCHANGED <<rate, Meter_Cost>>
        BY <2>1 DEF CalcEnergy, modeV
      <3>3. Due = energyForOnePeriod' /\ Due' = energyForOnePeriod'
        BY <3>1, <3>2 DEF Due
      <3> QED BY <3>1, <3>2, <3>3 DEF Finished, Pricing, Cost
    <2>2. CASE CalcPower
      <3>1. at["CalcThread"] = "power" /\ at'["CalcThread"] = "cost"
        BY <1>2, <2>2 DEF CalcPower, Step
      <3> QED BY <2>2, <3>1 DEF EInv, Alone, CalcPower, Finished, Pricing, Due, Cost, calcV, modeV
    <2>3. CASE CalcCost
      <3>1. at["CalcThread"] = "cost" /\ at'["CalcThread"] = "wait"
        BY <1>2, <2>3 DEF CalcCost, Step
      <3> QED BY <2>3, <3>1 DEF EInv, Alone, CalcCost, Finished, Pricing, Due
    <2> QED BY <2>1, <2>2, <2>3
  <1>4. Pending' = Pending
    BY <1>1, <1>2 DEF Pending, AtCalc, AtCurrent, One, osV
  <1>5. Alone'
    BY <1>1, <1>2, <1>3, <1>4 DEF EInv, Alone, histV
  <1>6. Agrees'
    <2>1. Expected' = Expected
      BY <1>1, <1>3, <1>4 DEF Expected, With, Watts, Protocol_GetTime, Cost, readingV, modeV
    <2> QED BY <1>1, <2>1 DEF EInv, Agrees, Same, CostUnit, histV
  <1> QED BY <1>2, <1>5, <1>6 DEF EInv


\* Every step keeps the agreement.
LEMMA ExactStep == IInv /\ EInv /\ [Next]_vars => EInv'
  <1> SUFFICES ASSUME IInv, EInv, [Next]_vars PROVE EInv'
    OBVIOUS
  <1>1. IInv'
    BY StepOK
  <1>2. CASE UNCHANGED vars
    <2>1. UNCHANGED <<osV, at, isr, readingV, channelV, modeV, calcV, meterV, histV>>
      BY <1>2 DEF vars
    <2>2. Fresh'
      BY <2>1 DEF EInv, Fresh, AtVoltage, AtCurrent, One, osV, readingV, channelV
    <2> QED BY <1>1, <2>1, <2>2, CalcKept DEF EInv
  <1>3. CASE PIT_ISR \/ MeterCallback \/ Protocol
    BY <1>1, <1>3, ExactPIT_ISR, ExactMeterCallback, ExactProtocol
  <1>4. CASE Analog
    BY <1>1, <1>4, ExactVoltageWait, ExactVoltageSample, ExactCurrentWait, ExactCurrentSample
       DEF Analog
  <1>5. CASE Calc
    BY <1>1, <1>5, ExactCalcWait, ExactCalcLoad, ExactCalcAdd, ExactCalcClose DEF Calc
  <1> QED BY <1>2, <1>3, <1>4, <1>5 DEF Next

\* While no tick comes before the last reading was multiplied, and the mode and the
\* rate are set between readings, energy and cost are those of a meter that takes no
\* time, for every length of a cycle and whatever is read: Meter_Energy exactly,
\* Meter_Cost but for the truncations of the cycles it is the sum of.
THEOREM MeterExact == Spec => []EnergyExact
  <1>1. IInv /\ EInv => EnergyExact
    <2> SUFFICES ASSUME IInv, EInv, AtRest, ~ disturbed
                 PROVE  /\ Meter_Energy = truth.energy
                        /\ truth.cost - CostUnit * Meter_Cost \in 0 .. truth.lost
      BY DEF EnergyExact
    <2>1. isr = "out" /\ waiters["Current"] # {} /\ waiters["Calc"] # {}
      BY DEF IInv, Control, Sleeping, AtRest, Ready, semaphores, threads
    <2>2. at["CalcThread"] = "load" /\ Pending = 0
      BY <2>1 DEF IInv, Sleeping, Pending, AtCalc, AtCurrent, One
    <2>3. Expected = [sum |-> sumOfPower, n |-> cnt, energy |-> Meter_Energy, cost |-> Meter_Cost]
      BY <2>2 DEF Expected, Finished, Pricing
    <2> QED BY <2>3 DEF EInv, Agrees, Same
  <1>2. Spec => [](IInv /\ EInv)
    BY InitOK, StepOK, ExactInit, ExactStep, PTL DEF Spec
  <1> QED BY <1>1, <1>2, PTL

-----------------------------------------------------------------------------
(* The types.  What ChannelProofs shows of a window holds of both of these: *)
(* it depends on the constants of Sampling only.                            *)

Window == INSTANCE ChannelProofs WITH
    Base <- 1, HalfPeriods <- {}, Phases <- {}, Amplitudes <- {}, Ratio <- 1, MaxZeros <- 0,
    half <- 0, phase <- 0, amplitude <- 0, channel <- voltage, recent <- <<>>, steady <- 0,
    zeros <- 0

\* A channel whose window holds some readings and their sum.
Windowed(c) == c \in Window!Channels /\ \E readings : Window!Holds(c.queue, readings)

\* Both channels are windowed, CalcThread divides by no negative power, and the voltage
\* thread has no more signals to take than there were ticks.
VInv ==
    /\ Windowed(voltage) /\ Windowed(current)
    /\ Meter_PowerFactor \in 0 .. Word - 1
    /\ at["CalcThread"] = "power" => sumOfPower \in Nat
    /\ count["Voltage"] <= ticks /\ ticks <= MaxTicks

LEMMA SameSampled == \A c, ratio, value : Window!Sampled(c, ratio, value) = Sampled(c, ratio, value)
  BY DEF Window!Sampled, Sampled, Window!SQ_Put, SQ_Put, Window!Squared, Squared,
     Window!Following, Following, Window!RmsAfter, RmsAfter, Window!Math_SquareRoot,
     Math_SquareRoot, Window!Newton, Newton, Window!Fit, Fit, Window!Word, Word

\* A reading leaves a window of readings.
LEMMA SampledWindowed ==
    ASSUME NEW c, Windowed(c), NEW ratio \in Nat \ {0}, NEW value \in Int
    PROVE  Windowed(Sampled(c, ratio, value))
  <1>1. Window!SamplingAssumption /\ Window!ChannelAssumption
    BY SamplingAssumption, MeteringAssumption
       DEF Window!SamplingAssumption, Window!ChannelAssumption
  <1>2. PICK readings : Window!Holds(c.queue, readings)
    BY DEF Windowed
  <1>3. Windowed(Window!Sampled(c, ratio, value))
    BY <1>1, <1>2, Window!SampledHolds DEF Windowed
  <1> QED BY <1>3, SameSampled

\* An empty window holds no readings.
LEMMA NewWindowed == Windowed(NewChannel)
  <1>1. Window!SamplingAssumption /\ Window!ChannelAssumption
    BY SamplingAssumption, MeteringAssumption
       DEF Window!SamplingAssumption, Window!ChannelAssumption
  <1>2. Windowed(Window!NewChannel)
    BY <1>1, Window!NewHolds DEF Windowed
  <1>3. Window!NewChannel = NewChannel
    BY DEF Window!NewChannel, NewChannel, Window!SQ_Init, SQ_Init, Window!Slots, Slots
  <1> QED BY <1>2, <1>3

\* The RMS value of a channel.
LEMMA RmsOf ==
    ASSUME NEW c, Windowed(c)
    PROVE  c.rms \in 0 .. Word - 1 /\ c.rms \in Nat
  <1>1. c.rms \in Window!Words
    BY DEF Windowed, Window!Channels
  <1>2. Window!Words = 0 .. Word - 1 /\ 0 .. Word - 1 \subseteq Nat
    BY DEF Window!Words, Window!Word, Word
  <1> QED BY <1>1, <1>2

LEMMA CutToWord == ASSUME NEW n \in Nat PROVE n % Word \in 0 .. Word - 1
  <1>1. \A w \in Nat \ {0} : n % w \in 0 .. w - 1
    OBVIOUS
  <1>2. Word \in Nat \ {0}
    BY DEF Word
  <1> QED BY <1>1, <1>2

\* The power factor, whatever the division by 0 returns, is cut to 16 bits.
LEMMA FactorType ==
    ASSUME IInv, VInv, sumOfPower \in Nat
    PROVE  PowerFactors(AveragePower(sumOfPower)) \subseteq 0 .. Word - 1
  <1> DEFINE power == AveragePower(sumOfPower)
             apparent == voltage.rms * current.rms
             true == 1000 * power
  <1>1. power \in Nat
    <2>1. \A a \in Nat, b \in Nat \ {0} : a \div b \in Nat
      OBVIOUS
    <2>2. ARRAY_SIZE \in Nat \ {0} /\ sumOfPower * 100 \in Nat
      BY SamplingAssumption
    <2>3. (sumOfPower * 100) \div ARRAY_SIZE \in Nat
      BY <2>1, <2>2
    <2> QED BY <2>3 DEF AveragePower
  <1>2. apparent \in Nat
    <2>1. voltage.rms \in Nat /\ current.rms \in Nat
      BY RmsOf DEF VInv
    <2> QED BY <2>1
  <1>3. PowerFactors(power) =
            IF power = 0 THEN {0, Word - 1}
            ELSE {(256 * (apparent \div true) + (256 * (apparent % true)) \div true) % Word}
    BY DEF PowerFactors
  <1> HIDE DEF power, apparent
  <1>4. CASE power = 0
    <2>1. {0, Word - 1} \subseteq 0 .. Word - 1
      BY DEF Word
    <2> QED BY <1>3, <1>4, <2>1 DEF power
  <1>5. CASE power # 0
    <2>1. true \in Nat \ {0}
      BY <1>1, <1>5
    <2> HIDE DEF true
    <2>2. \A a \in Nat, b \in Nat \ {0} : a \div b \in Nat /\ a % b \in Nat
      OBVIOUS
    <2>3. apparent \div true \in Nat /\ apparent % true \in Nat
      BY <1>2, <2>1, <2>2
    <2>4. 256 * (apparent % true) \in Nat
      BY <2>3
    <2>5. (256 * (apparent % true)) \div true \in Nat
      BY <2>1, <2>2, <2>4
    <2>6. PICK n \in Nat :
              n = 256 * (apparent \div true) + (256 * (apparent % true)) \div true
      BY <2>3, <2>5
    <2>7. n % Word \in 0 .. Word - 1
      BY CutToWord
    <2> QED BY <1>3, <1>5, <2>6, <2>7 DEF power
  <1> QED BY <1>4, <1>5

LEMMA TypedInit == Init => VInv
  <1> SUFFICES ASSUME Init PROVE VInv
    OBVIOUS
  <1>1. Windowed(voltage) /\ Windowed(current)
    BY NewWindowed DEF Init
  <1>2. Meter_PowerFactor \in 0 .. Word - 1
    BY DEF Init, Word
  <1>3. at["CalcThread"] # "power" /\ count["Voltage"] = 0 /\ ticks = 0 /\ 0 <= MaxTicks
    BY MeteringAssumption DEF Init, OS_SemaphoreCreate, threads, semaphores
  <1> QED BY <1>1, <1>2, <1>3 DEF VInv

\* What the steps other than the interrupt and the signals do to the counts.
LEMMA VoltageCount ==
    ASSUME IInv, Next, ~ PIT_ISR
    PROVE  count'["Voltage"] \in Nat /\ count'["Voltage"] <= count["Voltage"] /\ ticks' = ticks
  <1>1. Control /\ Sleeping
    BY DEF IInv
  <1>2. count["Voltage"] \in Nat
    BY <1>1 DEF Control, semaphores
  <1>3. ticks' = ticks
    BY DEF Next, MeterCallback, Protocol, Analog, VoltageWait, VoltageSample, CurrentWait,
       CurrentSample, Calc, CalcWait, CalcLoad, CalcAdd, CalcEnergy, CalcPower, CalcCost, histV
  <1>4. CASE OS_SemaphoreSignal("Current") \/ OS_SemaphoreSignal("Calc")
    BY <1>1, <1>2, <1>3, <1>4, Signalled DEF Sleeping, semaphores, threads
  <1>5. CASE VoltageWait
    BY <1>1, <1>2, <1>3, <1>5, Waited DEF VoltageWait, semaphores, threads
  <1>6. CASE CurrentWait \/ CalcWait
    BY <1>1, <1>2, <1>3, <1>6, Waited DEF CurrentWait, CalcWait, semaphores, threads
  <1>7. CASE UNCHANGED count
    BY <1>2, <1>3, <1>7
  <1> QED BY <1>4, <1>5, <1>6, <1>7 DEF Next, MeterCallback, Protocol, Analog, VoltageSample,
             CurrentSample, Calc, CalcLoad, CalcAdd, CalcEnergy, CalcPower, CalcCost, osV

LEMMA TypedStep == IInv /\ IInv' /\ VInv /\ [Next]_vars => VInv'
  <1> SUFFICES ASSUME IInv, IInv', VInv, [Next]_vars PROVE VInv'
    OBVIOUS
  <1>1. CASE UNCHANGED vars
    BY <1>1 DEF vars, VInv, channelV, meterV, calcV, histV, osV
  <1> SUFFICES ASSUME Next PROVE VInv'
    BY <1>1
  <1>2. Windowed(voltage')
    <2>1. CASE VoltageSample
      <3>1. voltage' = Sampled(voltage, 100, Meter_Voltage) /\ Meter_Voltage \in Int
        BY <2>1 DEF VoltageSample, IInv, Types
      <3> QED BY <3>1, SampledWindowed DEF VInv
    <2>2. CASE ~ VoltageSample
      <3>1. voltage' = voltage
        BY <2>2 DEF Next, PIT_ISR, MeterCallback, Protocol, Analog, VoltageWait, CurrentWait,
           CurrentSample, Calc, CalcWait, CalcLoad, CalcAdd, CalcEnergy, CalcPower, CalcCost,
           channelV
      <3> QED BY <3>1 DEF VInv
    <2> QED BY <2>1, <2>2
  <1>3. Windowed(current')
    <2>1. CASE CurrentSample
      <3>1. current' = Sampled(current, 1, Meter_Current) /\ Meter_Current \in Int
        BY <2>1 DEF CurrentSample, IInv, Types
      <3> QED BY <3>1, SampledWindowed DEF VInv
    <2>2. CASE ~ CurrentSample
      <3>1. current' = current
        BY <2>2 DEF Next, PIT_ISR, MeterCallback, Protocol, Analog, VoltageWait, CurrentWait,
           VoltageSample, Calc, CalcWait, CalcLoad, CalcAdd, CalcEnergy, CalcPower, CalcCost,
           channelV
      <3> QED BY <3>1 DEF VInv
    <2> QED BY <2>1, <2>2
  <1>4. Meter_PowerFactor' \in 0 .. Word - 1
    <2>1. CASE CalcPower
      <3>1. /\ at["CalcThread"] = "power"
            /\ Meter_PowerFactor' \in PowerFactors(AveragePower(sumOfPower))
        BY <2>1 DEF CalcPower, Step
      <3>2. PowerFactors(AveragePower(sumOfPower)) \subseteq 0 .. Word - 1
        BY <3>1, FactorType DEF VInv
      <3> QED BY <3>1, <3>2
    <2>2. CASE ~ CalcPower
      <3>1. Meter_PowerFactor' = Meter_PowerFactor
        BY <2>2 DEF Next, PIT_ISR, MeterCallback, Protocol, Analog, VoltageWait, CurrentWait,
           VoltageSample, CurrentSample, Calc, CalcWait, CalcLoad, CalcAdd, CalcEnergy,
           CalcCost, meterV
      <3> QED BY <3>1 DEF VInv
    <2> QED BY <2>1, <2>2
  <1>5. at'["CalcThread"] = "power" => sumOfPower' \in Nat
    <2>1. CASE CalcEnergy
      <3>1. sumOfPower' = Watts(sumOfPower) /\ sumOfPower \in Int
        BY <2>1 DEF CalcEnergy, IInv, Types
      <3> QED BY <3>1, WattsNatural
    <2>2. CASE Calc /\ ~ CalcEnergy
      <3>1. at'["CalcThread"] \in {"load", "add", "energy", "wait", "cost"}
        BY <2>2 DEF Calc, CalcWait, CalcLoad, CalcAdd, CalcPower, CalcCost, Step, IInv, Control,
           threads
      <3> QED BY <3>1
    <2>3. CASE PIT_ISR \/ MeterCallback \/ Protocol \/ Analog
      <3>1. at'["CalcThread"] = at["CalcThread"] /\ sumOfPower' = sumOfPower
        BY <2>3 DEF PIT_ISR, MeterCallback, Protocol, Analog, VoltageWait, VoltageSample,
           CurrentWait, CurrentSample, Step, calcV, IInv, Control, threads
      <3> QED BY <3>1 DEF VInv
    <2> QED BY <2>1, <2>2, <2>3 DEF Next
  <1>6. count'["Voltage"] <= ticks' /\ ticks' <= MaxTicks
    <2>1. count["Voltage"] \in Nat /\ ticks \in Nat /\ MaxTicks \in Nat
      BY MeteringAssumption DEF IInv, Types, Control, semaphores
    <2>2. CASE PIT_ISR
      <3>1. ticks' = ticks + 1 /\ ticks < MaxTicks /\ OS_SemaphoreSignal("Voltage")
        BY <2>2 DEF PIT_ISR
      <3>2. count'["Voltage"] \in {count["Voltage"], count["Voltage"] + 1}
        BY <3>1, Signalled DEF IInv, Sleeping, semaphores, threads
      <3> QED BY <2>1, <3>1, <3>2 DEF VInv
    <2>3. CASE ~ PIT_ISR
      BY <2>1, <2>3, VoltageCount DEF VInv
    <2> QED BY <2>2, <2>3
  <1> QED BY <1>2, <1>3, <1>4, <1>5, <1>6 DEF VInv

\* No value of the meter leaves its type: the RMS values, which a Newton iteration yields,
\* and the power factor 16 bits, the counts the ticks there were.
THEOREM TypeCorrect == Spec => []TypeOK
  <1>1. IInv /\ VInv => TypeOK
    <2> SUFFICES ASSUME IInv, VInv PROVE TypeOK
      OBVIOUS
    <2>1. \A s \in semaphores : count[s] \in 0 .. MaxTicks
      <3>1. MaxTicks \in Nat /\ ticks \in Nat /\ ticks <= MaxTicks
            /\ \A s \in semaphores : count[s] \in Nat
        BY MeteringAssumption DEF IInv, Types, Control, VInv
      <3>2. count["Current"] <= AtCurrent /\ count["Calc"] <= AtCalc
        BY <3>1 DEF AtCurrent, AtCalc, One, semaphores
      <3>3. Multiplied \in Nat
        <4>1. ARRAY_SIZE \in Nat /\ cnt \in Nat /\ cycles \in Nat
          BY Counts
        <4>2. ARRAY_SIZE * cycles \in Nat
          BY <4>1
        <4> QED BY <4>1, <4>2 DEF Multiplied
      <3>4. AtCurrent \in Nat /\ AtCalc \in Nat /\ One(isr = "callback") \in Nat
        BY <3>1 DEF AtCurrent, AtCalc, One, semaphores
      <3>5. AtCurrent <= ticks /\ AtCalc <= ticks
        <4>1. ticks = Multiplied + AtCalc + AtCurrent + One(isr = "callback")
          BY DEF IInv, TicksCounted
        <4> QED BY <3>1, <3>3, <3>4, <4>1
      <3>6. count["Voltage"] <= ticks
        BY DEF VInv
      <3> QED BY <3>1, <3>2, <3>4, <3>5, <3>6 DEF semaphores
    <2>2. count \in [semaphores -> 0 .. MaxTicks]
      <3>1. count = [s \in semaphores |-> count[s]]
        BY DEF IInv, Control
      <3> QED BY <2>1, <3>1
    <2>3. cnt \in 0 .. ARRAY_SIZE
      BY Counts DEF IInv, Closing
    <2>4. at["CalcThread"] \in {"wait", "load", "add", "energy", "power", "cost"}
      BY DEF IInv, Control, threads
    <2>5. Meter_Energy \in Nat /\ Meter_Cost \in Nat
      BY DEF IInv, Types
    <2> QED BY <2>2, <2>3, <2>4, <2>5, RmsOf DEF VInv, TypeOK
  <1>2. Spec => [](IInv /\ VInv)
    BY InitOK, StepOK, TypedInit, TypedStep, PTL DEF Spec
  <1> QED BY <1>1, <1>2, PTL

=============================================================================
