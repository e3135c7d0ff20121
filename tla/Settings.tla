------------------------------ MODULE Settings ------------------------------
(***************************************************************************)
(* What ProtocolThread sets on behalf of the PC, and who else writes it:   *)
(* the mode (Protocol.c, DAC.c), the clock (MyRTC.c) that the interrupt of *)
(* every second writes too, in test mode, the amplitudes and the           *)
(* phase of the DAC's two waves, whose tables OutputThread reads while     *)
(* they are written (DAC.c), and the tariff, kept in flash across restarts *)
(* (Tariff.c).  Power may fail at any moment.                              *)
(*                                                                         *)
(* The flash is erased and then programmed, and either may fail; the RTC   *)
(* counts from 0 after MyRTC_Init resets it, and its seconds can be        *)
(* written only while its counter is disabled (both are hardware).         *)
(*                                                                         *)
(* OutputThread's indexes move by 4, so that it reads one entry of each    *)
(* four of a table: the loop of UpdateSineWave is cut every four entries.  *)
(***************************************************************************)
EXTENDS Integers

CONSTANTS
    Commands,        \* the packets the PC may send: <<name, parameter 1, parameter 2>>
    FlashContents,   \* what the byte of flash may hold when first powered
    MaxCommands,     \* bounds: packets,
    MaxSeconds,      \* seconds of the clock,
    MaxSamples,      \* periods of the PIT,
    MaxCrashes       \* power failures

ASSUME SettingsAssumption ==
    /\ Commands \subseteq
            {"test", "time1", "time2", "phase", "tariff", "voltageAmp", "currentAmp"}
            \X (0 .. 255) \X (0 .. 255)
    /\ FlashContents \subseteq 0 .. 255
    /\ {MaxCommands, MaxSeconds, MaxSamples, MaxCrashes} \subseteq Nat

VARIABLES
    count, waiters,               \* the kernel's semaphores
    at, output,                   \* the next statement of ProtocolThread, OutputThread
    packet,                       \* the packet being handled
    TestMode, DAC_TestMode,
    TSR, TCE, ticked,             \* the RTC: its seconds, whether they are counted,
                                  \* whether the interrupt of a second is pending
    oldTime,                      \* what MyRTC_Set1 and 2 have read
    Phase, NbV, NbC, loaded,      \* DAC.c, and the NbV that DAC_SetPhase has read
    Amp, SineWave, i,             \* the amplitude each wave has, and that each four of
                                  \* its entries were written with; UpdateSineWave's i
    flash, CurrentTariff,
    used,                         \* how much of each bound is used up
    late,                         \* interrupts of a second since oldTime was read
    lag, slips,                   \* the phase last asked for; samples put while it was set
    failed, noFlash,              \* a flash operation, Flash_Init, has failed
    torn                          \* power failed inside Tariff_Set's write

threads == {"OutputThread"}
semaphores == {"OutputSemaphore"}

INSTANCE OS WITH Threads <- threads, Semaphores <- semaphores,
                 Priority <- [t \in threads |-> 2]

dacV == <<Phase, NbV, NbC, loaded, lag, slips>>
waveV == <<Amp, SineWave, i>>
clockV == <<TSR, TCE, ticked, oldTime, late>>
tariffV == <<flash, CurrentTariff, failed, noFlash, torn>>
modeV == <<TestMode, DAC_TestMode>>
outV == <<count, waiters, output>>
vars == <<outV, at, packet, modeV, clockV, dacV, waveV, tariffV, used>>

MinPhase == 48
MinVoltage == 9266
MaxVoltage == 11583
MinCurrent == 0
MaxCurrent == 23170
Waves == {"voltage", "current"}
MinAmp == [w \in Waves |-> IF w = "voltage" THEN MinVoltage ELSE MinCurrent]
WavesOf(amp) == [w \in Waves |-> [g \in 0 .. 15 |-> amp[w]]]
Erased == 255

\* Fault: only an erased byte counts as unset.
isNotErased(data) == data # Erased

isSet(data) == data \in {1, 2, 3}

\* Before power is first applied.
Init ==
    /\ OS_SemaphoreCreate([s \in semaphores |-> 0]) /\ output = "wait"
    /\ at = "off" /\ packet = <<"none", 0, 0>>
    /\ TestMode = FALSE /\ DAC_TestMode = FALSE
    /\ TSR = 0 /\ TCE = FALSE /\ ticked = FALSE /\ oldTime = 0 /\ late = 0
    /\ Phase = 0 /\ NbV = 0 /\ NbC = 0 /\ loaded = 0 /\ lag = 0 /\ slips = 0
    /\ Amp = MinAmp /\ SineWave = WavesOf(MinAmp) /\ i = 0
    /\ flash \in FlashContents /\ CurrentTariff = 0
    /\ failed = FALSE /\ noFlash = FALSE /\ torn = TRUE
    /\ used = [commands |-> 0, seconds |-> 0, samples |-> 0, crashes |-> 0]

Use(what, bound) ==
    /\ used[what] < bound
    /\ used' = [used EXCEPT ![what] = @ + 1]

-----------------------------------------------------------------------------
(* Power *)

\* Fault: every restart begins with tariff 1.
Tariff_InitDefault ==
    /\ CurrentTariff' = 1 /\ failed' = FALSE /\ noFlash' = FALSE
    /\ flash' = 1

\* Tariff_Init: an unset byte becomes tariff 1; without flash there is no tariff.
Tariff_Init ==
    \/ /\ isSet(flash)
       /\ CurrentTariff' = flash /\ failed' = FALSE /\ noFlash' = FALSE
       /\ UNCHANGED flash
    \/ /\ ~ isSet(flash)
       /\ CurrentTariff' = 1 /\ noFlash' = FALSE
       /\ \/ flash' = 1 /\ failed' = FALSE
          \/ flash' \in {flash, Erased} /\ failed' = TRUE
    \/ /\ CurrentTariff' = 0 /\ failed' = TRUE /\ noFlash' = TRUE
       /\ UNCHANGED flash

\* InitModulesThread: the initialised variables, DAC_Init's tables and MyRTC_Init's
\* reset of the clock.
PowerOn ==
    /\ at = "off"
    /\ at' = "idle" /\ packet' = <<"none", 0, 0>>
    /\ count' = [s \in semaphores |-> 0] /\ waiters' = [s \in semaphores |-> {}]
    /\ output' = "wait"
    /\ TestMode' = FALSE /\ DAC_TestMode' = FALSE
    /\ TSR' = 0 /\ TCE' = TRUE /\ ticked' = FALSE /\ oldTime' = 0 /\ late' = 0
    /\ Phase' = 0 /\ NbV' = 0 /\ NbC' = 0 /\ loaded' = 0 /\ lag' = 0 /\ slips' = 0
    /\ Amp' = MinAmp /\ SineWave' = WavesOf(MinAmp) /\ i' = 0
    /\ Tariff_Init
    /\ torn' = FALSE
    /\ UNCHANGED used

\* Between the start of the erase and the end of the programming.
Writing == at \in {"erase", "program", "store"}

PowerFails ==
    /\ at # "off" /\ Use("crashes", MaxCrashes)
    /\ at' = "off"
    /\ torn' = Writing
    /\ UNCHANGED <<outV, packet, modeV, clockV, dacV, waveV, flash,
                   CurrentTariff, failed, noFlash>>

-----------------------------------------------------------------------------
(* Interrupts and OutputThread *)

\* The RTC counts a second; its interrupt is taken before the next one.
Second ==
    /\ at # "off" /\ TCE /\ ~ ticked /\ Use("seconds", MaxSeconds)
    /\ TSR' = TSR + 1
    /\ ticked' = TRUE
    /\ UNCHANGED <<outV, at, packet, modeV, TCE, oldTime, late, dacV, waveV, tariffV>>

\* MyRTC_ISR: in test mode RTCCallback disables the counter, adds 3599 and enables
\* the counter, whoever had disabled it.
RTCCallback ==
    /\ at # "off" /\ ticked
    /\ ticked' = FALSE
    /\ TSR' = IF TestMode THEN TSR + 3599 ELSE TSR
    /\ TCE' = (TCE \/ TestMode)
    /\ late' = IF at \in {"disable", "write", "enable"} THEN late + 1 ELSE late
    /\ UNCHANGED <<outV, at, packet, modeV, oldTime, dacV, waveV, tariffV, used>>

\* PIT_ISR, in test mode.
DAC_Callback ==
    /\ at # "off" /\ DAC_TestMode /\ Use("samples", MaxSamples)
    /\ OS_SemaphoreSignal("OutputSemaphore")
    /\ UNCHANGED <<output, at, packet, modeV, clockV, dacV, waveV, tariffV>>

Outputting == at # "off" /\ Ready("OutputThread")

OutputWait ==
    /\ Outputting /\ output = "wait"
    /\ OS_SemaphoreWait("OutputSemaphore", "OutputThread")
    /\ output' = "put"
    /\ UNCHANGED <<at, packet, modeV, clockV, dacV, waveV, tariffV, used>>

\* Fault: the two waves are stepped at different speeds.
OutputPutAskew ==
    /\ Outputting /\ output = "put"
    /\ output' = "wait"
    /\ NbV' = (NbV + 4) % 64
    /\ NbC' = (NbC + 5) % 64
    /\ slips' = IF at = "phaseStore" THEN slips + 1 ELSE slips
    /\ UNCHANGED <<count, waiters, at, packet, modeV, clockV, tariffV, used,
                   Phase, loaded, lag, waveV>>

OutputPut ==
    /\ Outputting /\ output = "put"
    /\ output' = "wait"
    /\ NbV' = (NbV + 4) % 64
    /\ NbC' = (NbC + 4) % 64
    /\ slips' = IF at = "phaseStore" THEN slips + 1 ELSE slips
    /\ UNCHANGED <<count, waiters, at, packet, modeV, clockV, tariffV, used,
                   Phase, loaded, lag, waveV>>

-----------------------------------------------------------------------------
(* ProtocolThread: priority 5, below OutputThread *)

Step(from, to) ==
    /\ at = from /\ ~ Ready("OutputThread")
    /\ at' = to

Name == packet[1]
Parameter1 == packet[2]
Parameter2 == packet[3]
Steps(p) == p[2] + 256 * p[3]

\* Fault: HandleTariff does not check the range.
InRangeAnyTariff(p) ==
    /\ p[1] = "tariff" => p[3] = 0
    /\ p[1] = "test" => p[3] = 0
    /\ p[1] = "time1" => p[2] <= 59 /\ p[3] <= 59
    /\ p[1] = "time2" => p[2] <= 23
    /\ p[1] = "phase" => p[2] <= 32
    /\ p[1] = "voltageAmp" => Steps(p) <= 2317
    /\ p[1] = "currentAmp" => Steps(p) <= 23170

\* Fault: HandleVoltageAmp does not check the range.
InRangeAnyAmp(p) ==
    /\ p[1] = "tariff" => p[2] \in 1 .. 3 /\ p[3] = 0
    /\ p[1] = "test" => p[3] = 0
    /\ p[1] = "time1" => p[2] <= 59 /\ p[3] <= 59
    /\ p[1] = "time2" => p[2] <= 23
    /\ p[1] = "phase" => p[2] <= 32
    /\ p[1] = "currentAmp" => Steps(p) <= 23170

\* The range checks of the handlers.  A tariff is set when parameter 2 is 0 and
\* read when it is 1.
InRange(p) ==
    /\ p[1] = "tariff" => p[2] \in 1 .. 3 /\ p[3] = 0
    /\ p[1] = "test" => p[3] = 0
    /\ p[1] = "time1" => p[2] <= 59 /\ p[3] <= 59
    /\ p[1] = "time2" => p[2] <= 23
    /\ p[1] = "phase" => p[2] <= 32
    /\ p[1] = "voltageAmp" => Steps(p) <= 2317
    /\ p[1] = "currentAmp" => Steps(p) <= 23170

\* HandlePacket: a packet out of range is dropped.
HandlePacket ==
    /\ Use("commands", MaxCommands)
    /\ \E p \in Commands :
        /\ Step("idle", IF InRange(p) THEN p[1] ELSE "idle")
        /\ packet' = p
    /\ UNCHANGED <<outV, modeV, clockV, dacV, waveV, tariffV>>

HandleTest ==
    /\ Step("test", "dac")
    /\ TestMode' = (Parameter1 # 0)
    /\ UNCHANGED <<outV, packet, DAC_TestMode, clockV, dacV, waveV, tariffV, used>>

\* Fault: DAC_Stop is not called.
DAC_StartOnly ==
    /\ Step("dac", "idle")
    /\ DAC_TestMode' = (DAC_TestMode \/ TestMode)
    /\ Phase' = IF TestMode THEN MinPhase ELSE Phase
    /\ UNCHANGED <<outV, packet, TestMode, clockV, NbV, NbC, loaded, lag, slips, waveV, tariffV, used>>

\* DAC_Start and DAC_Stop.
DAC_StartStop ==
    /\ Step("dac", "idle")
    /\ DAC_TestMode' = TestMode
    /\ Phase' = IF TestMode THEN MinPhase ELSE Phase
    /\ UNCHANGED <<outV, packet, TestMode, clockV, NbV, NbC, loaded, lag, slips, waveV, tariffV, used>>

\* DAC_SetVoltageAmp and DAC_SetCurrentAmp.
DAC_SetAmp ==
    /\ \/ Step("voltageAmp", "table")
          /\ Amp' = [Amp EXCEPT !["voltage"] = MinVoltage + Steps(packet)]
       \/ Step("currentAmp", "table")
          /\ Amp' = [Amp EXCEPT !["current"] = MinCurrent + Steps(packet)]
    /\ i' = 0
    /\ UNCHANGED <<outV, packet, modeV, clockV, dacV, SineWave, tariffV, used>>

Wave == IF Name = "voltageAmp" THEN "voltage" ELSE "current"

\* Fault: the last entries of the table are not written.
UpdateSineWaveShort ==
    /\ Step("table", IF i = 14 THEN "idle" ELSE "table")
    /\ SineWave' = [SineWave EXCEPT ![Wave][i] = Amp[Wave]]
    /\ i' = (i + 1) % 16
    /\ UNCHANGED <<outV, packet, modeV, clockV, dacV, Amp, tariffV, used>>

\* UpdateSineWave, four entries.
UpdateSineWave ==
    /\ Step("table", IF i = 15 THEN "idle" ELSE "table")
    /\ SineWave' = [SineWave EXCEPT ![Wave][i] = Amp[Wave]]
    /\ i' = (i + 1) % 16
    /\ UNCHANGED <<outV, packet, modeV, clockV, dacV, Amp, tariffV, used>>

\* MyRTC_Set1 and MyRTC_Set2 read the time...
ReadTime ==
    /\ Step("time1", "disable") \/ Step("time2", "disable")
    /\ oldTime' = TSR /\ late' = 0
    /\ UNCHANGED <<outV, packet, modeV, TSR, TCE, ticked, dacV, waveV, tariffV, used>>

\* Fault: the counter is not disabled.
CounterLeftEnabled ==
    /\ Step("disable", "write")
    /\ UNCHANGED <<outV, packet, modeV, clockV, dacV, waveV, tariffV, used>>

\* ... disable the counter...
DisableCounter ==
    /\ Step("disable", "write")
    /\ TCE' = FALSE
    /\ UNCHANGED <<outV, packet, modeV, TSR, ticked, oldTime, late, dacV, waveV, tariffV, used>>

\* The hours go through a uint8_t.
NewTime(old) ==
    IF Name = "time1"
    THEN ((old \div 3600) % 256) * 3600 + Parameter2 * 60 + Parameter1
    ELSE Parameter2 * 86400 + Parameter1 * 3600 + (old % 3600)

\* ... write the seconds, which an enabled counter ignores...
WriteTime ==
    /\ Step("write", "enable")
    /\ TSR' = IF TCE THEN TSR ELSE NewTime(oldTime)
    /\ UNCHANGED <<outV, packet, modeV, TCE, ticked, oldTime, late, dacV, waveV, tariffV, used>>

\* ... and enable the counter.
EnableCounter ==
    /\ Step("enable", "idle")
    /\ TCE' = TRUE
    /\ UNCHANGED <<outV, packet, modeV, TSR, ticked, oldTime, late, dacV, waveV, tariffV, used>>

\* DAC_SetPhase reads NbV...
ReadPhase ==
    /\ Step("phase", "phaseStore")
    /\ Phase' = (MinPhase + Parameter1) % 64
    /\ loaded' = NbV
    /\ slips' = 0
    /\ UNCHANGED <<outV, packet, modeV, clockV, NbV, NbC, lag, waveV, tariffV, used>>

\* ... and stores NbC.
StorePhase ==
    /\ Step("phaseStore", "idle")
    /\ NbC' = (loaded + Phase) % 64
    /\ lag' = Phase
    /\ UNCHANGED <<outV, packet, modeV, clockV, Phase, NbV, loaded, slips, waveV, tariffV, used>>

\* Tariff_Set: nothing to do, or...
HandleTariff ==
    /\ Step("tariff", IF CurrentTariff = Parameter1 THEN "idle" ELSE "erase")
    /\ UNCHANGED <<outV, packet, modeV, clockV, dacV, waveV, tariffV, used>>

\* ... Flash_Write8, which erases...
FlashErase ==
    /\ \/ Step("erase", "program") /\ flash' = Erased /\ UNCHANGED failed
       \/ Step("erase", "idle") /\ failed' = TRUE /\ UNCHANGED flash
    /\ UNCHANGED <<outV, packet, modeV, clockV, dacV, waveV, CurrentTariff, noFlash, torn,
                   used>>

\* Fault: the programming is skipped.
FlashProgramSkipped ==
    /\ Step("program", "store")
    /\ UNCHANGED <<outV, packet, modeV, clockV, dacV, waveV, tariffV, used>>

\* ... and programs...
FlashProgram ==
    /\ \/ Step("program", "store") /\ flash' = Parameter1 /\ UNCHANGED failed
       \/ Step("program", "idle") /\ failed' = TRUE /\ UNCHANGED flash
    /\ UNCHANGED <<outV, packet, modeV, clockV, dacV, waveV, CurrentTariff, noFlash, torn,
                   used>>

\* ... and, when it returns TRUE, the variable.
StoreTariff ==
    /\ Step("store", "idle")
    /\ CurrentTariff' = Parameter1
    /\ UNCHANGED <<outV, packet, modeV, clockV, dacV, waveV, flash, failed, noFlash, torn,
                   used>>

-----------------------------------------------------------------------------

Next ==
    \/ PowerOn \/ PowerFails \/ Second \/ RTCCallback \/ DAC_Callback
    \/ OutputWait \/ OutputPut \/ HandlePacket \/ HandleTest \/ DAC_StartStop
    \/ ReadTime \/ DisableCounter \/ WriteTime \/ EnableCounter
    \/ ReadPhase \/ StorePhase \/ DAC_SetAmp \/ UpdateSineWave
    \/ HandleTariff \/ FlashErase \/ FlashProgram \/ StoreTariff

Spec == Init /\ [][Next]_vars

-----------------------------------------------------------------------------
(* Reading what was set *)

Hours(t) == t \div 3600
HourOfDay(t) == Hours(t) % 24

\* Tariff_GetRate, as CalcThread sees it.
Tariff_GetRate ==
    CASE CurrentTariff = 1 /\ HourOfDay(TSR) \in 14 .. 19         -> 1457193
      [] CurrentTariff = 1 /\ HourOfDay(TSR) \in (7 .. 13) \cup {20, 21} -> 288358
      [] CurrentTariff = 1 /\ HourOfDay(TSR) \in (0 .. 6) \cup {22, 23} -> 138215
      [] CurrentTariff = 2 -> 112263
      [] CurrentTariff = 3 -> 268698
      [] OTHER -> 0

\* The sine, in 65536ths, of the 64th parts of a turn.
Quarter == <<0, 6423, 12785, 19024, 25079, 30893, 36409, 41575, 46340,
             50660, 54491, 57797, 60547, 62714, 64276, 65220, 65536>>

Ratio == [j \in 0 .. 63 |->
    LET k == j % 32
        half == Quarter[1 + (IF k <= 16 THEN k ELSE 32 - k)]
    IN  IF j < 32 THEN half ELSE - half]

\* An entry of a table, as UpdateSineWave wrote it.
Entry(w, j) == (Ratio[j] * SineWave[w][j \div 4]) \div 65536

\* A 16th of the products that CalcThread adds up over a cycle of the waves as the
\* tables and the indexes are: with the outputs wired to the inputs, as test mode
\* is for, it is sumOfPower.
CyclePower ==
    LET term(k) == (Entry("voltage", (NbV + 4 * k) % 64)
                    * Entry("current", (NbC + 4 * k) % 64)) \div 16
        sum[k \in 0 .. 15] == term(k) + IF k = 0 THEN 0 ELSE sum[k - 1]
    IN  sum[15]

-----------------------------------------------------------------------------
(* Properties *)

\* Each variable stays in its type.
TypeOK ==
    /\ at \in {"off", "idle", "test", "dac", "time1", "time2", "disable", "write",
               "enable", "phase", "phaseStore", "tariff", "erase", "program",
               "store", "voltageAmp", "currentAmp", "table"}
    /\ i \in 0 .. 15
    /\ Amp["voltage"] \in MinVoltage .. MaxVoltage
    /\ Amp["current"] \in MinCurrent .. MaxCurrent
    /\ \A g \in 0 .. 15 : /\ SineWave["voltage"][g] \in MinVoltage .. MaxVoltage
                          /\ SineWave["current"][g] \in MinCurrent .. MaxCurrent
    /\ output \in {"wait", "put"}
    /\ {TestMode, DAC_TestMode, TCE, ticked, failed, noFlash, torn} \subseteq BOOLEAN
    /\ TSR \in Nat
    /\ {Phase, NbV, NbC, loaded, lag} \subseteq 0 .. 63
    /\ CurrentTariff \in 0 .. 3

\* Between packets the clock runs fast exactly when the waves are put out: the mode
\* Protocol.c keeps and the one DAC.c keeps are never left apart.
ModesAgree == at = "idle" => TestMode = DAC_TestMode

\* The current wave lags the voltage wave by the phase last asked for, less one step
\* of 4 for each sample that OutputThread put while DAC_SetPhase was between its read
\* of NbV and its store of NbC; no other interleaving shifts it.
PhaseSet ==
    at \notin {"off", "phaseStore"} => (NbC - NbV) % 64 = (lag - 4 * slips) % 64

\* The most that CyclePower may be: a 16th of the most that an int32_t holds.
MostPower == 134217727

\* 0.05 % of the full scale.
Tolerance == 65536

\* Whatever is being set, a cycle of the waves fits the int32_t that CalcThread adds
\* it up in, also while a table holds two amplitudes and whatever each of the 16
\* products loses in CyclePower; and unless a table is being written it is the power
\* of the amplitudes and the phase set, within the tolerance.
PowerAsSet ==
    at # "off" =>
        /\ CyclePower \in - MostPower .. MostPower - 16
        /\ at # "table" =>
               LET phase == (16 + NbC - NbV) % 64
                   ideal == (((Amp["voltage"] * Amp["current"]) \div 65536) * Ratio[phase]) \div 2
               IN  CyclePower - ideal \in - Tolerance .. Tolerance

\* Between packets the tariff in force is the one in flash, so that a restart finds
\* it, unless the flash failed.
StoredTariff == at = "idle" /\ ~ failed => flash = CurrentTariff

\* A restart changes the tariff only if power failed while it was being written.
TariffSurvives ==
    [][PowerOn /\ ~ torn /\ ~ failed /\ ~ failed' => CurrentTariff' = CurrentTariff]_vars

\* Whatever the flash held, wherever power failed and whatever the erasing and the
\* programming came to, every unit of energy has a price: the rate is 0 only if
\* Flash_Init failed.
Billable == at # "off" /\ ~ noFlash => Tariff_GetRate > 0

\* The clock shows what the packet asks for and, of the rest, what oldTime showed.
AsAsked(clock) ==
    IF Name = "time1"
    THEN /\ clock % 3600 = Parameter2 * 60 + Parameter1
         /\ Hours(oldTime) < 256 => Hours(clock) = Hours(oldTime)
    ELSE /\ Hours(clock) = Parameter2 * 24 + Parameter1
         /\ clock % 3600 = oldTime % 3600

\* What interrupts may have added since: in test mode an hour for each one after
\* oldTime was read, less the last one's second if that was counted before.
Additions ==
    IF TestMode THEN {0} \cup {3600 * n - b : n \in 1 .. late, b \in 0 .. 1} ELSE {0}

\* MyRTC_Set1 and 2 leave a clock that runs, and either shows what was asked for and
\* nothing else that is new (the hours of Set1 while there are fewer than 256 of
\* them), or runs on as if no packet had been received: that only in test mode, when
\* an interrupt enabled the counter between its disabling and the write.
SetOrIgnored ==
    [][EnableCounter =>
        /\ TCE'
        /\ \/ \E more \in Additions : TSR' >= more /\ AsAsked(TSR' - more)
           \/ TestMode /\ late > 0 /\ TSR' - oldTime - 3600 * late \in -1 .. 1]_vars

\* MyRTC_Set1 documents minutes and seconds as what it sets: the days and hours,
\* which MyRTC_Set2 documents as "days (0-255)", stay.
Set1KeepsHours ==
    [][EnableCounter /\ Name = "time1" /\ ~ TestMode => Hours(TSR') = Hours(oldTime)]_vars

=============================================================================
