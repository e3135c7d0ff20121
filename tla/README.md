# Digital Energy Meter: a TLA+ verification development

The repository is the firmware of a single-phase energy meter on a Kinetis K70
(ARM Cortex-M4, one core).  It samples mains voltage and current 16 times per
cycle, computes RMS values, power, energy and cost, answers a PC over a serial
line, prints to a terminal when a button is pressed, and in test mode feeds
itself with two sine waves from its DAC.  The application is `src/Sources/*.c`;
the kernel, the flash, timer, LED and analog drivers are headers and a binary in
`src/Library/`; `src/Generated_Code/` and `src/Project_Settings/` are start-up
code.

Line numbers below are those of `src/Sources/` unless another directory is named.

## 1. Inventory

### 1.1 Threads, interrupts and what they share

The kernel is preemptive with fixed priorities (0 is the most urgent), counting
semaphores and no time slicing.  Every wait of the program has time-out 0, which
means for ever.

| priority | thread | woken by | body |
|---|---|---|---|
| 0 | `InitModulesThread` (main.c) | start | initialises the modules, deletes itself |
| 1 | `RxThread` (UART.c) | `RxSemaphore`, UART interrupt | `TempData` to `RxFIFO` |
| 2 | `OutputThread` (DAC.c) | `OutputSemaphore`, PIT in test mode | one sample of each wave |
| 3 | voltage thread (meter.c) | its semaphore, PIT | frequency, window, RMS of the voltage |
| 4 | current thread (meter.c) | its semaphore, PIT | window, RMS of the current, then wakes Calc |
| 5 | `ProtocolThread` (Protocol.c) | a byte in `RxFIFO` | packets: sets and reads everything |
| 6 | `PushButtonThread` (Interface.c) | `PushButtonSemaphore`, port interrupt | next display status |
| 7 | `TxThread` (UART.c) | `TxSemaphore`, UART interrupt | `TxFIFO` to the transmitter |
| 8 | `CalcThread` (meter.c) | `CalcSemaphore`, current thread | energy, power, power factor, cost |
| 9 | `DisplayThread` (Interface.c) | `DisplaySemaphore`, display timer | prints one readout |

Handlers (UART, PIT, RTC, FTM, port) have one priority, so they do not nest; a
handler runs to its end before any thread.  `OS_DisableInterrupts` is a plain
`CPSID i`: it does not count.  Every kernel call ends with `CPSIE i`, so a kernel
call inside a critical section ends the section.

### 1.2 Components

| component | state | operations | talks to | hard behaviour | what makes it correct |
|---|---|---|---|---|---|
| FIFO (FIFO.c) | ring, two cursors, a count, three semaphores | `FIFO_Init`, `FIFO_Put`, `FIFO_Get` | kernel | three semaphores taken and given in different orders by threads that preempt one another at any point | exclusion, no lost wake-up, a linearizable bounded queue |
| UART driver (UART.c) | `TempData`, the hardware's flags, two FIFOs, two semaphores | `UART_ISR`, `RxThread`, `TxThread`, `UART_InChar`, `UART_OutChar` | FIFO, hardware | a mailbox of one byte overwritten by the next interrupt; a token shared by a semaphore, a thread and an interrupt-enable bit | order, no loss, no overrun, everything handed over is sent |
| Packets (MyPacket.c) | the packet, `NbBytesInPkt`, `PacketSemaphore` | `MyPacket_Get`, `MyPacket_Put` | UART | a stream with wrong bytes; replies mixed with text | only what arrived is accepted, aligned packets are all heard, replies are contiguous |
| Interface (Interface.c, Debounce.c) | `DisplayStatus`, `DisplayCnt`, a one-shot timer | button callback and thread, `DisplayCallback`, `DisplayThread` | FTM, Display | the button thread and the timer interrupt write the same two variables without protection; every bounce is a press | the display sleeps again, an awake display has a timer |
| Sampling (SampleQueue.c, Math.c, part of meter.c) | per channel a window of 16 squares with a running sum, an RMS value; the frequency difference and the timer period | `SQ_Put`, `Math_SquareRoot`, `MeterFrequency` | PIT | an incremental sum; Newton's method with one iteration per sample from a stale estimate; a feedback loop on the sample period; wrap-around of 8- and 16-bit values | the sum is the window's, the RMS value converges, the loop locks |
| Metering (meter.c, PIT.c) | instantaneous values, the cycle's sum and count, energy, cost, power, power factor | `PIT_ISR`, `MeterCallback`, two analog threads, `CalcThread` | Sampling, Tariff, Protocol | plain globals between threads of different priorities; a late `CalcThread` while ticks pile up; settings that change in mid-cycle | every tick counts once, energy and cost are exact, they never decrease |
| Protocol (Protocol.c) | `TestMode` | one handler per command, `RTCCallback` | all | outranks `CalcThread` and `TxThread`, is preempted by `OutputThread` and the analog threads | a setting reaches all who keep it |
| Real time clock (MyRTC.c) | the seconds counter | `MyRTC_Set1`, `MyRTC_Set2`, `MyRTC_Get`, the interrupt | Protocol, Tariff | read-modify-write of a counter that an interrupt writes and enables too | a set takes effect and keeps what it does not set |
| Tariff (Tariff.c) | `CurrentTariff`, a byte of flash | `Tariff_Init`, `Tariff_Set`, `Tariff_GetRate` | flash, clock | power fails between erase and program; an erase or program fails | a restart finds the tariff; every unit of energy has a price |
| DAC (DAC.c) | phase, two indexes, two tables, the mode | `DAC_Start`, `DAC_Stop`, `DAC_SetPhase`, amplitudes, `OutputThread` | PIT, Protocol | `DAC_SetPhase` reads an index that `OutputThread` advances; `UpdateSineWave` rewrites a table that `OutputThread` reads | phase and power are those asked for; a mixed table overflows nothing |
| Display (Display.c) | a buffer | four readouts, `printToUART` | UART, meter, clock | masks interrupts around kernel calls; loads totals of two words while `CalcThread` stores them | see UART; a line tells the total |
| Start-up (main.c, every `*_Init`) | which semaphores, threads and interrupts exist so far | `InitModulesThread` | all | its first kernel call lifts the mask it sets, so handlers run before what they signal exists | every signal of a handler is counted, nothing that arrives is forgotten |
| Kernel (Library/OS.h) | counts and sleepers | wait, signal | all | hand-over to the most urgent sleeper | assumed, see section 3 |

`myFTM.c` is in `Sources/` but excluded from the build (`src/.cproject:111`); the
timer that runs is the library's.  `Math_Abs` is called by nobody.

The hazards these components are exposed to, each at its line and with the
properties that would catch it going wrong, are the "hazards" of `PROJECT.json`.

## 2. Modules

```
OS --+--> FIFO ---refines---> ByteQueue     FIFO ------> FIFOProofs
     |     +--> Serial                      Serial ----> SerialProofs (two FIFOProofs)
     +--> Interface <-- Readouts            Interface -> InterfaceProofs
     +--> Settings                          Settings --> SettingsProofs
     +--> Metering                          Metering --> MeteringProofs (ChannelProofs)
Sampling --+--> Metering                    Channel ---> ChannelProofs
           +--> Channel                     Packet ----> PacketProofs
Packet     Boot                             Boot ------> BootProofs
```

`EXTENDS` where a module builds on one other (FIFO on OS, Channel and Metering on
Sampling, Interface on Readouts); `INSTANCE ... WITH` where it uses several copies (Serial has two FIFOs
over one kernel) or gives the kernel its own threads.

**OS** - counting semaphores as `Sources/` uses them.  `Take` or `Sleep` is a wait,
`Give` or `HandOver` a signal: a unit signalled while someone sleeps goes straight
to the most urgent sleeper, so `count[s] > 0` and sleepers exclude each other.  A
thread that slept continues behind its wait, which is why the `pc` or `at` of a
sleeping thread is already past it and actions require `Ready`.

**FIFO** - `FIFO_Put` and `FIFO_Get` cut at each of their kernel calls, and between
the access to `Buffer` and the bookkeeping.  Any number of threads, any of which
may put or get: the constants are all free.  `fifo` is the `TFIFO` structure
(the semaphores live in OS), `item[t]` the byte a caller passes or receives.

**ByteQueue** - the abstract queue: each call takes effect in one atomic step.
`FIFO!LinearizableQueue` is `ByteQueue!Spec` under the mapping in `FIFO.tla`: a
put takes effect when `End` and `NbBytes` move, a get when it loads its byte.

**Serial** - UART.c with its two FIFOs (two instances of FIFO over one kernel),
`ProtocolThread` as the user of one packet in and at most one out (`MyPacket_Put`
with its semaphore), `DisplayThread` as the user that prints a text.  Steps obey
the priorities, the interrupt mask and the handlers' atomicity.  A byte is the
pair (source, number), so that order, loss and duplication are visible.  A
delivered packet may or may not be answered, since which command it holds does
not matter here.

**Packet** - `MyPacket_Get`, one byte per step, with the real exclusive-or checksum
(`Xor`, eight bits added up) and the fall-through of its bad-checksum case.

**Readouts** - pure operators: `Display_TotalEnergy`, `Display_TotalCost`,
`convert1` and `convert2`, the replies `HandleEnergy` and `HandleCost`, with their
casts and shifts; `Words` and `Value` are the two 32-bit words of a 64-bit total.
The sizes of words and units are constants, so that TLC can run through small
ones and the proofs cover those of the code.

**Interface** - the button thread cut at every access to `DisplayStatus`,
`DisplayCnt` and the timer, the callback in one step, as the hardware runs it.
With it `DisplayThread`, which loads a total word by word, and `CalcThread`, which
preempts it and stores both totals word by word in any order the compiler may
choose; the cycles that wake `CalcThread` add any amount of a given set.  What
`ProtocolThread` would answer is read off the state at every moment, since it
preempts `CalcThread` between any two stores.

**Boot** - `InitModulesThread` as the sequence of its kernel calls and of the
moments at which an interrupt is enabled, which are all that the handlers can
notice; bytes, ticks and presses come in between.  It ends with `RxThread`'s first
run, and with the counts from which the other modules start.

**Sampling** - pure operators: `SQ_Put`, `Math_SquareRoot`, the body of
`AnalogLoopbackThread` (`Sampled`) and `MeterFrequency`, on records that hold the
C variables, with the widths a value can reach.  Recursion is written as
recursive functions.

**Channel** - Sampling's voltage channel in closed loop with a mains of given
frequency, amplitude and phase; the timer period feeds back into the phase at
which the next reading is taken.

**Metering** - `PIT_ISR`, both analog threads and `CalcThread`, cut between accesses
to the globals they share, with the protocol's changes of mode and rate; uses
Sampling for what a reading does.  `truth` is the history variable of an ideal
meter that counts every reading at once and truncates nothing; `truth.lost`
is what the two truncations of a cycle's cost may amount to.

**Settings** - the handlers of Protocol.c that set something, with the parts of
MyRTC.c, Tariff.c and DAC.c they call, each cut where an interrupt, `OutputThread`
or a power failure may come in between.  A table of a wave is kept as the
amplitude each four of its entries were last written with, for `OutputThread`
reads every fourth entry; `CyclePower` is what `CalcThread` would add up over a cycle
of the waves as they are at that moment.  `PowerOn` is `InitModulesThread` as far
as these variables go.  A power failure loses all but the flash.  The clock is the RTC's
registers: `Second` counts one and raises the interrupt, `RTCCallback` takes it; and
`MyRTC_Set1` and `MyRTC_Set2` are four steps, the read, the disabling of the counter, the
write and the enabling, between any two of which the interrupt may come.

The MC modules only give values to constants.  Definitions whose comment begins
with "Fault" are plausible mistakes in the action that follows them; no
specification uses them.  They are there to show that each property notices one:
PROJECT.json pairs each property with the fault it catches.

## 3. What is assumed

* Kernel: a call is atomic (it runs with interrupts masked); a signal hands over to
  the most urgent sleeper; the processor runs the most urgent ready thread.  Only
  the kernel's binary is in the repository.  FIFO assumes less: any ready thread
  may step, so its results hold for any scheduler.
* Hardware: a received byte raises the receive interrupt, a transmit buffer
  that was written empties itself once, the PIT, RTC and FTM interrupt.  In
  Serial a byte arrives only when RxThread is asleep, waiting for a byte or for
  room: a byte lasts thousands of processor cycles and RxThread is the most
  urgent thread.
* The RTC takes no write to its seconds while its counter is enabled, and its
  interrupt is taken before the next second.
* A step of a thread that touches only its own variables is joined to a
  neighbouring one.
* Metering joins the two reads of `Meter_Voltage` (meter.c:161-162) and the two of
  `Meter_Current` (167-168).  They are neighbouring instructions, and the PIT's next
  interrupt is a 16th of the mains' cycle after the one that woke the thread; if it did
  come in between, the RMS value would get one reading and the energy the next.
* Flash: an erase or a programming either happens or reports failure; a power
  failure during `Flash_Write8` leaves the byte erased or written.
* A 64-bit global takes two loads and two stores of 32 bits.  Interface cuts them
  there.  Metering stores each total in one step: nobody in Metering reads a total
  but `CalcThread`, which writes it.
* Boot leaves out `Tariff_Init` and the clock's interrupt, which signal nobody; they are
  in `Settings!PowerOn`.

**Fairness.**  Only where a run checks liveness, and only of what the code's
scheduling guarantees:

* Serial (for `AllSent`, in the run `serial`): `WF(Program)` - the processor does not
  idle while a thread is ready; which one runs is settled by `Running`, not by fairness.  `WF` of the
  two halves of `UART_ISR` - a pending, unmasked interrupt is taken; `WF(LineOut)` -
  the transmitter shifts.  The PC need not send, nor the display timer tick.
* Interface: `WF` of the three threads together and of the armed `DisplayCallback`
  (a started channel reaches its compare value).  Nobody has to press.
* Channel: `WF(Sample)` - the PIT is started by `Meter_Init` and only restarted since.
* Metering: `WF(MeterCallback)`, `WF(Analog)` and `WF(Calc)` - a handler returns and
  ready threads run.  Nothing about the PIT or the protocol.
* FIFO, Packet, Boot and Settings state safety only, without fairness.

## 4. Runs

| run | configuration | what it checks |
|---|---|---|
| `fifo` | MCFIFO.cfg | `TypeOK`; `MutualExclusion`; `NoLostWakeup`: when all rest, a put sleeps only on a full ring and a get only on an empty one; `LinearizableQueue`: FIFO.c implements ByteQueue |
| `serial` | MCSerial.cfg | `TypeOK`; `InOrder`: each source's bytes leave in order, once each; `LosslessUnlessFull`: bytes in are lost only when two arrive while RxThread waits for room; `NothingStuck`: when everyone sleeps, nothing is left behind; `NoTransmitOverrun`: `UART2_D` is written only when empty; `AllSent`: each byte handed to `UART_OutChar` reaches the line |
| `serial_packets` | MCSerialPackets.cfg | finding: `PacketContiguous` |
| `packet` | MCPacket.cfg | `TypeOK`; `AcceptsWhatArrived`: an accepted packet is the last five bytes and has a correct checksum; `AlignedHeard`: a PC that keeps to packet boundaries is heard whatever was wrong before |
| `packet_resync` | MCPacketResync.cfg | finding: `Resynchronises` |
| `boot` | MCBoot.cfg | `TypeOK`; `HandsOver`: when the start-up ends every semaphore and thread exists, no signal but the button's was lost, and the counts are those the other modules begin with; `BytesServed`: every byte that arrived meanwhile makes `RxThread` put one |
| `interface` | MCInterface.cfg | `TypeOK`; `OnMeansTimed`: a display that is on has a timer to switch it off; `PressShows`: a handled press shows something; `WakesWithTime`: a dormant display wakes with the time; `ReadoutsTrue`: lines and replies tell the totals, whatever is stored between two loads; `EventuallyDormant`: a display left alone goes to sleep for good |
| `channel` | MCChannel.cfg | `TypeOK`; `WindowSum`: the running sum is the sum of the last squares; `RmsSettles`: the RMS value converges to the root of the mean square from any earlier value, for the amplitudes of the run; `DiffTracks`: the frequency difference goes from where it begins to where the mains wants it, and one increment further at most, plus one per reading of 0 and per blackout; `Locks`: the loop locks to the mains |
| `metering` | MCMetering.cfg | `TypeOK`; `EveryTickCounted`: each tick is multiplied once; `EnergyExact`: the energy is an ideal meter's, the cost too but for its truncations; `NeverDecreases`: neither runs backwards; `CaughtUp`: a late `CalcThread` catches up |
| `power_factor` | MCPowerFactor.cfg | finding: `PowerFactorAtMostOne` |
| `settings` | MCSettings.cfg | `TypeOK`; `ModesAgree`: Protocol and DAC agree on the mode; `PhaseSet`: the current lags by the phase set; `PowerAsSet`: the waves' power is that of the amplitudes and the phase set, and fits `sumOfPower`; `StoredTariff`: the tariff in force is in flash; `Billable`: energy always has a price; `TariffSurvives`: a restart keeps the tariff; `SetOrIgnored`: a set of the clock takes effect and keeps what it does not set, or an interrupt of test mode makes it fail altogether |
| `clock` | MCClock.cfg | finding: `Set1KeepsHours` |

### 4.1 What the conditional properties leave open

Some properties hold only under a condition, and the condition is itself something
the model shows:

* `LosslessUnlessFull` - with a full `RxFIFO`, `RxThread` waits for room with a byte in
  `TempData`; a second byte overwrites it, and the first one is lost.
* `WakesWithTime` and `PressShows` exclude the case where the display period ends
  between the button thread's read of `DisplayStatus` and its start of the timer
  (`expired`): there a press may skip the metering time or leave the display dark.
  The critical section that would exclude it is commented out (Interface.c:114).
* `EnergyExact` excludes a tick that comes before the last reading was multiplied, and
  a setting that changes in mid-calculation (`disturbed`): then a current may be
  multiplied with the voltage of another sample.  `EveryTickCounted` and
  `NeverDecreases` hold even so.
* `PhaseSet` counts `slips`: each sample that `OutputThread` puts between `DAC_SetPhase`'s
  read of `NbV` and its store of `NbC` costs a lag of 22.5 degrees until the phase is
  set again.
* `PowerAsSet` says nothing of the power while a table holds two amplitudes, only
  that the sum does not overflow; and a cycle there has one phase.  If the
  phase is set in mid-cycle at full amplitudes, the 16 products can reach
  2 290 875 832, which is past the `int32_t` of meter.c:221.
* `ReadoutsTrue` holds for a reply only below 65 536 J and below one dollar: past
  these `HandleEnergy` (Protocol.c:109) starts over and `HandleCost` (Protocol.c:118)
  answers 0 dollars.  The lines on the display hold up to 999 kWh and 9999
  dollars, provided `Meter_Energy` has not wrapped at 2^64, which is 1193 kWh (`Room`).
* `HandsOver` excepts the button: `Debounce_Init` enables its interrupt before
  `PushButtonSemaphore` is created (Interface.c:146), and a press in between signals
  a null pointer.
* `Locks` and `DiffTracks` are checked of mains away from 52.5 Hz.  At reset
  `TickPeriod` and `FrequencyDiff` disagree (meter.c:39), and a mains of exactly that
  frequency never makes them agree.
* `DiffTracks` bounds the difference by the mains, not by the documented 0 to 50
  (meter.h:34): at 47.5 Hz the loop wants 51, at that of the code's scale (`Base` 474, a
  half period of 4200 increments), and each reading of exactly 0 at a crossing makes a
  half cycle look long and may add one.  So may, either way, each time the mains goes away
  and comes back: `tickCnt`, a `uint8_t`, counts on while there is no crossing.  The run
  changes the amplitude once, too little for that; the theorem allows more.
* `RmsSettles` holds for amplitudes that satisfy `Convergent`, as the run's do, and does
  not hold for all: in the code's window of 16, a mains of 2.7 V (amplitude 34), one
  sample of 205 V (2619) and then 145 V (1854) for good leave the RMS value at 2.12 V
  for ever, because 5245 times 100 is cut to 212 in 16 bits (section 5, Channel).
* `SetOrIgnored` compares the clock with what was asked for and with the time that was
  read: a second that passes between the read and the write is lost, and in test mode
  that second is an hour.  In test mode the set itself may be lost: an interrupt
  between the disabling of the counter and the write (MyRTC.c:74-75, 96-97) enables the
  counter again (Protocol.c:272), which then takes no write.  And an interrupt between the
  write and the enabling adds 3599 seconds to the time just set.  The hours that
  `MyRTC_Set1` keeps are those below 256 (4.2).
* `Billable` excepts a `Flash_Init` that fails (`noFlash`), after which the rate is 0 until
  a tariff is set; a failed erasure or programming leaves the tariff that was in force,
  and `StoredTariff` and `TariffSurvives` leave that case out (`failed`).
* `TariffSurvives` excludes power failing inside `Flash_Write8` (`torn`); then the byte is
  erased and the restart falls back to tariff 1, so `Billable` holds even there.

### 4.2 Findings

* A reply packet can be cut by a byte of text (Display.c:27): `printToUART` does not
  take `PacketSemaphore`, and the mask it sets is lifted by the first kernel call.
* After a bad checksum the parser drops five bytes, not one (MyPacket.c:73-84): the
  case falls through to `default`.
* The power factor is the inverse of one (meter.c:246): apparent power over true
  power, documented as "16Q8, from 0 to 1".
* Setting the minutes after 255 hours moves the clock back (MyRTC.c:70): the hours go
  through a `uint8_t`.

### 4.3 Bounds, and why they are enough

| run | bounds | why |
|---|---|---|
| `fifo` | 3 threads, ring of 2, 2 byte values | three threads put one in the FIFO, one waiting for it and one able to overtake; a ring of 2 is full, half full and empty, and wraps; behaviours are unbounded in length.  The theorems of section 5 cover every size |
| `serial` | `RxSize` 1, `TxSize` 2, packets of 2, texts of 2, 4 bytes in, 1 text | both FIFOs fill with two packets in and two replies out; `MaxIn` 4 is the least with which a byte is overwritten in `TempData` |
| `serial_packets` | the same sizes; 2 bytes in, 1 text | one reply of two bytes and one text of two suffice to mix |
| `packet` | streams of 10 bytes over {0, 1, 2} | two whole packets, every offset of a packet within the stream, correct and wrong checksums; exclusive or of two bits takes all its values |
| `boot` | 3 bytes, 2 ticks, 2 presses; `FIFO_SIZE` is the code's | a byte before the FIFOs exist, one that overwrites it, one after; a press before and after its semaphore |
| `interface` | period 2 instead of 15, 4 presses, 2 cycles that add a little or a lot; words of 16 values instead of 2^32 (`Half` 4), 2 J per Wh, 3 Wh per kWh, 3 cents per dollar, lines of at most 1 kWh and 2 dollars | a press before, during and after a period, and while another is handled; four presses reach the cost; each total carries into its upper word, and passes what a reply and a line have room for, within the two cycles.  The theorems cover every size |
| `channel` | `ARRAY_SIZE` 4 instead of 16, `Base` 38 increments instead of 474, `InitialDiff` 2 instead of 25, half periods 312, 330 and 336, amplitudes 0, 40 and 7500 with the code's `Ratio` of 100, one change of amplitude, one reading of exactly 0 (`MaxZeros`) | a coarser increment (2.6 %) makes the loop's states few and its corrections as large, relative to the mains, as ten of the code's; half periods want less and more than the difference at reset, a whole number of increments or not; silence and a small amplitude exercise each branch of the RMS update, and on the way to 7500 the RMS value wraps its 16 bits and needs up to 10 samples to get past that; the reading where the wave crosses may be positive, negative or 0.  `HalfCycle` and `NB_ITERATIONS` are the code's |
| `metering` | cycles of 2 samples, 4 ticks, 1 change of mode or rate, `JOULE_PER_KWH` 3 so that the cost is truncated at once | two whole cycles with a tick before any step of `CalcThread`; energy positive and negative |
| `power_factor` | cycles of 2, 2 ticks | one cycle of a current that flows half of the time |
| `settings` | 3 packets, 1 second, 2 samples, 1 power failure | three packets switch test mode on, set, and change back; one second suffices for an interrupt before, between and after the statements that set the clock; two samples fall between two statements; each packet comes with values in, at and beyond its range |
| `clock` | 2 packets | one to pass 255 hours, one to set the minutes |

`CHECK_DEADLOCK FALSE` everywhere: every model stops when the PC, the user and
the clock have done all that a bound lets them do, and in FIFO three gets
on an empty ring wait for ever, as they should.

No symmetry is declared: threads have different priorities.

## 5. Proofs

Eight modules hold theorems and lemmas; each EXTENDS the module it is about.  They
assume of the constants only what that module's ASSUME says, which TLC evaluates
in the runs, and cover all their values: in particular no bound of section 4.3.

| module | theorem | statement | obligations |
|---|---|---|---|
| FIFOProofs | `TypeCorrect`, `Exclusion`, `Wakeup` | `[]TypeOK` (`NbBytes` stays within the ring), `[]MutualExclusion`, `[]NoLostWakeup` | 1270 |
| | `Linearizable` | `Spec => LinearizableQueue`: FIFO implements ByteQueue | |
| SerialProofs | `SerialFIFOs`, `SerialQueues` | the two FIFOs of the serial line behave as FIFO, hence as two ByteQueues | 3329 |
| | `NoOverrun`, `TypeCorrect`, `NeverStuck`, `Lossless`, `OrderKept` | `NoTransmitOverrun`, `[]TypeOK`, `[]NothingStuck`, `[]LosslessUnlessFull`, `[]InOrder` | |
| PacketProofs | `TypeCorrect`, `WhatArrived`, `BoundariesHeard` | `[]TypeOK`, `[]AcceptsWhatArrived`, `[]AlignedHeard` | 339 |
| InterfaceProofs | `TypeCorrect`, `DisplayTimed`, `PressLights`, `TimeFirst` | `[]TypeOK`, `[]OnMeansTimed`, `[]PressShows`, `WakesWithTime` | 1278 |
| | `ReadoutsCorrect`, from `EnergyLine`, `CostLine`, `EnergyReplied`, ... | `[]ReadoutsTrue`, from lemmas about what the conversions return | |
| ChannelProofs | `TypeCorrect`, `RunningSum`, `RmsConverges`, `DifferenceTracks` | `[]TypeOK`, `[]WindowSum`, `[]RmsSettles`, `[]DiffTracks` | 3109 |
| | `Approaches` | each correction of the period is towards the mains | |
| MeteringProofs | `TicksMultiplied`, `MeterForward`, `MeterExact`, `TypeCorrect` | `[]EveryTickCounted`, `NeverDecreases`, `[]EnergyExact`, `[]TypeOK` | 1454 |
| SettingsProofs | `TypeCorrect`, `ModeAgreement`, `PhaseKept`, `TariffStored`, `AlwaysBillable`, `RestartKeepsTariff`, `ClockSet`, `PowerKept` | `[]TypeOK`, `[]ModesAgree`, `[]PhaseSet`, `[]StoredTariff`, `[]Billable`, `TariffSurvives`, `SetOrIgnored`, `[]PowerAsSet` | 2500 |
| BootProofs | `TypeCorrect`, `HandedOver`, `OneByteEach` | `[]TypeOK`, `[]HandsOver`, `[]BytesServed` | 1288 |

Each module has an inductive invariant `IInv` and a theorem `Invariant` that it always
holds; the properties follow from it.  The proof has a lemma per action (or group
of actions that change the same things), each checked against every conjunct of
`IInv` the action can disturb.

**FIFO.**  For every finite set of threads with any priorities, every `FIFO_SIZE > 0`
and every set of bytes.  None of the properties is inductive: that `NbBytes + 1` is
within the ring when a put counts its byte depends on a permit of `SpaceAvailbale` the
thread took several steps earlier.  `IInv` therefore counts permits:

* `WeakType` - `TypeOK` with `NbBytes` only an integer;
* `Sleeping` - a sleeper's `pc` is right behind the wait it sleeps in, and a
  semaphore with sleepers counts 0;
* `AccessCounted` - the count of `BufferAccess` and the threads inside the ring are 1
  together;
* `SpaceCounted` - free permits, plus those held by threads that have taken one and
  not yet counted their byte, plus those a get has still to return, plus `NbBytes`, are
  `FIFO_SIZE`;
* `ItemsCounted` - the same for `ItemsAvailable` and the stored bytes.

With all threads at rest the terms in between vanish, and a sleeping put with
count 0 leaves `NbBytes = FIFO_SIZE`: that is `NoLostWakeup`.

**FIFO implements ByteQueue.**  The second half of FIFOProofs adds the ring to `IInv`: `End` is
`(Start + NbBytes) % FIFO_SIZE`, and a byte stored but not yet counted is still at `End`
(`Stored`).  Four lemmas say what the ring's contents become when a byte is stored,
counted, loaded and uncounted (`HoldsStore`, `HoldsAppend`, `HoldsTail`, `HoldsAdvance`);
`RefineStep` maps each action of FIFO to one of ByteQueue or a stutter.  That `End`'s
place is not one of the contents needs `NbBytes < FIFO_SIZE`, which the permits give.

**Serial.**  For every size of the two FIFOs, of packets and of texts, and any number of
bytes and ticks.  The argument climbs in layers:

* *Token.* `IInv`: there is one token, a unit of `TxSemaphore`, in `TxThread`'s hands, or
  `TIE` with the handler (`Token`), and the transmit buffer is full only while the
  handler waits for it or `TxThread` has just filled it (`Buffered`).  `NoOverrun`
  follows.
* *FIFOs.* Each step of Serial is a step of FIFO or leaves it alone, in `RxQ` and in `TxQ`
  (`RxNext`, `TxNext`).  So the theorems of FIFOProofs hold of both,
  with all four threads as callers; `Base` collects what they give.
* *Places.* Who sleeps where, and which thread is in which FIFO (`AllPlaces`).
* *Counting bytes.* `Received`, `HandedOver` and `Printed` find each byte and tick
  between its source and its destination.  When everyone sleeps, FIFO's
  `NoLostWakeup` and the places say in which waits they can sleep, and the counts
  leave nothing in between: `NeverStuck`.
* *Order in.* `Fresh`: the bytes in `RxFIFO`'s ring, in `TempData` and in the receive
  buffer are numbered one after another as long as nothing was overwritten.
  `Receiving` sorts every step into those that move a byte one place further and those
  that touch none; each keeps the numbers: `Lossless`.
* *Order out.* `Transit` is what is on the line, in the transmit buffer or
  with `TxThread`, followed by the contents of `TxFIFO`'s queue.  The refinement says
  that a call of `FIFO_Put` appends to it (`QueueMoves`), and each source appends
  its own next number, because it waits for its call to return: `Ordered`, then
  `OrderKept`.

**Packet.**  For streams of any length over any byte values.  `AcceptsWhatArrived` says
nothing of the bytes collected so far, so `IInv` does: `Aligned` (`NbBytesInPkt` is the
length of the stream modulo 5), `Collected` (the fields filled so far are the last
bytes of the stream), `Heard` (a place is accepted exactly if it is a boundary and its
packet is correct) and `Held` (an accepted packet stays until the next byte).  The proof
shows what the fall-through at MyPacket.c:73-84 does to the parser: it makes it
accept at boundaries only, whatever the line carries.

**Interface.**  For every period and any number of presses.  `Pressed` says, for each
place of `PushButtonThread` between its read of `DisplayStatus` and `FTM_StartTimer`, what
the status and the chosen one have in common unless the period has ended; without
it neither `PressShows` nor `WakesWithTime` survives the thread's next step.

**Readouts and totals.**  For every size of words and units that `ReadoutsAssumption` allows,
the code's among them, and whatever cycles add.  A line and a reply depend on the
upper word of a total only (`UpperUnits`), and the conversions, which divide three
times and truncate each time, are right to one unit (`OneLine`).  In Interface the
upper words only rise (`Rising`), so the one `DisplayThread` loaded lies between the
one there when it was asked and the one there now (`Loading`): the lower word may
belong to another total, and the line is true all the same.

**Metering.**  For every `ARRAY_SIZE` the module allows, every integer reading, any
number of ticks and changes.  `TicksCounted` locates every tick: `ticks` is the number of
products, plus the units that lie in `CalcSemaphore` or in `CalcThread`'s hands, plus
those of the current thread, plus one while `PIT_ISR` runs.  `Closing` ties the count of
the cycle to `CalcThread`'s place.  `TicksMultiplied` and `MeterForward` hold with
`disturbed` true, that is however late `CalcThread` is.

`MeterExact` compares CalcThread with the meter that takes no time, `truth`, which is one
reading ahead at most (`Alone`).  `Expected` is what CalcThread will have counted once it
has multiplied the reading that is on its way and closed the cycle it is closing;
`Agrees` says that this is what `truth` has counted already, but for the truncations of
the cost, and each step of a thread leaves `Expected` as it is.  `Fresh` ties
the instantaneous values to the last reading.  The truncations of one cycle are bounded in
`CostTruncates`, the two divisions of meter.c:251-253.

`TypeCorrect` needs more: that an RMS value fits 16 bits is a fact about the window
it is computed from.  MeteringProofs instantiates ChannelProofs for it, whose lemmas
about a window depend on the constants of Sampling only: a reading leaves a
window of readings (`SampledWindowed`).  Besides, CalcThread divides by an apparent
power only when the cycle's sum is not negative, and the voltage thread has no more
signals to take than there were ticks (`VInv`).

**Channel.**  For every length of the window, every mains, amplitude and number of changes.
`WindowSum` is not inductive: `SQ_Put` takes the square in the oldest slot from the sum,
and that this is the square of the oldest reading is a fact about where the ring keeps
its readings.  `Holds` says it: the i-th oldest reading's square is in the i-th
slot from `oldest`, and a window that is not full begins at slot 0 and is
filled up to `newest`.  The sum over a sequence of any length, the shift loop of
`Math_SquareRoot` and its 25 iterations of Newton's method are recursive functions; that
they are defined at all, and what type they have, is induction, taken from the
fact that a set of numbers has a least element (`Least`, `Induction`).

`RmsConverges` is about Newton's method with one iteration per sample, on an estimate
that is kept times `Ratio` in 16 bits. `SInv` says how far it is: what the window holds
`k` samples after the last change of amplitude, and, once that is all of it, how near
the estimate is to the root (`Nearing`). From above the root each iteration halves the
distance (`NewtonNear`, `StepNear`), so the last 15 of `NB_ITERATIONS` suffice for any
16 bits. From below, one iteration goes above the root, but not for good: meter.c:193
says that the RMS value does not overflow, and it does for some samples, when the
estimate was small (after silence, say) and the next one, times 100, wraps and is small
again. That this ends is the theorem's hypothesis, `Convergent`: the root times `Ratio`
has 16 bits, and no estimate is still below the root after the first `NB_ITERATIONS` -
15 samples. MCChannel has TLC evaluate it for the run's amplitudes and all 656
estimates. It cannot be dropped. With a ratio of 100 the amplitude 7000 has a cycle of
estimates that stays below the root, and with a ratio of 1 and an amplitude of 20 726
the estimate 20 stays, because 65 556 is cut to 20 (14 of the 32 768 amplitudes have
such cases); with a window of 4 there are amplitudes, 927 and 1311 among them, that
never settle after silence. The code's own window meets such cases too, below the 250 V
of meter.c:193: after a mains of 2.7 V (amplitude 34), one sample of 205 V (2619) and
then 145 V (1854) for good, the RMS value ends at 2.12 V and stays there, because 5245
times 100 is cut to 212. TLC finds that, as a violation of `RmsSettles`, in the instance
of Channel with the constants of MCChannel.cfg but `ARRAY_SIZE` 16, amplitudes 34, 1854
and 2619, half period 330, phase 100, `MaxChanges` 2 and `MaxZeros` 0. From silence
every amplitude whose RMS value has 16 bits settles with that window, as evaluating each
shows.

`DifferenceTracks` and `Approaches` have a hypothesis, `InProportion`: the mains is
slower than 52.5 Hz by more increments than blackouts can cost, and not so slow that
`tickCnt` or the difference wraps by itself or a sample takes half a cycle. MCChannel
has TLC check that the run's mains satisfy it; at the code's scale (`Base` 474,
`InitialDiff` 25) every half period from 3808 to 5663 increments does, 52.4 to 35.2 Hz,
for up to two or three changes and 20 readings of 0. The invariant says where in its
wave the mains was when the last sample was taken (`Place`) and, while the loop counts,
how that place and the crossing it counts from lie `tickCnt` periods apart (`Timed`). So
a count that is too short means that the period is not too short, and the other way
round (`Corrected`): a correction never goes the wrong way (`Approaches` states that as
a property of steps; that the corrections go on until the loop has locked is `Locks`,
and TLC's). Two things spoil a count, and `DInv` says what they cost: readings of 0 hide
crossings and can only make it too long; while the mains is away `tickCnt` wraps, and
the correction at its return may go either way (`Spoiled`).

**Settings.**  For every set of packets of the seven setting commands, every first
content of the flash and any number of seconds, samples and power failures.  The
conjuncts say what each handler has read and not yet stored: `Modes`, `Indexes` (the
index has moved one step per slip since `DAC_SetPhase` read it), `Clock` (below), `Tariffs`
(the flash and the variable in each step of `Tariff_Set`, on and off), the waves (each
entry of a table is an amplitude within its range), `Dispatched` (the packet's range was
checked and is still the one being handled).

`Clock` follows the set of the clock from statement to statement.  Since the time was
read there was one interrupt for each second that was counted, but for one pending then
or now, and in test mode each of them added 3599 (`RanOn`).  The counter is enabled
outside the set, and before the write only if an interrupt of test mode has enabled it:
then the write changes nothing and `RanOn` goes on.  Otherwise the clock is at the new
time, `NewTime`, and stays there until an interrupt enables it, after which it is a
whole number of hours on, less the last interrupt's second (`Set`).  `ClockSet` reads
`SetOrIgnored` off this, and `NewTimeAsked` that `NewTime` is what was asked for.

`PowerKept` is about numbers.  A sample is an amplitude times a sine in 2^16ths,
rounded down, and 64 sines are given as a table.

* *The table.*  SMT evaluates the sum of 8 products of sines, half a cycle, for the
  first four indexes of the voltage and any of the current.  It is the same 4
  indexes on, the step of a sample (`ShiftsByOne`), and half a turn on the sine changes
  its sign (`HalfTurn`).  So for any two indexes it is four times the cosine of their
  difference, but for what the table's own rounding costs (`Near`).
* *It fits.*  By 2xy <= x^2 + y^2, scaled by the two peaks, a cycle's power is bounded
  by the sums of the squares of the two tables, also when one of them still holds
  entries of two amplitudes: 134 212 964 is the bound, 134 217 711 what
  `PowerAsSet` allows (`CycleFits`).
* *It is the power set.*  Samples half a cycle apart round opposite ways, and their
  errors all but cancel: at most 53 126 of the 65 536 that `PowerAsSet` allows
  (`PairError`, `CycleNear`).
* *When.*  `Written` says which entries of a table have the new amplitude while
  `DAC_SetAmplitude`'s loop runs; outside it the tables are whole.

**Boot.**  For every size of the FIFOs and any number of bytes, ticks and presses, at any
moment of the start-up.  `Progress` says what exists, runs and is enabled at statement
`pc`: exactly what the statements before it create, start and enable.  `Signals` says that
what a semaphore has counted, with what `RxThread` has taken, is its first count
and every signal since it was created.  `HandsOver` follows at the last statement, and needs the
program itself: the 31 statements are written out once (`Text`), and two lemmas
read off them that a handler's interrupt is enabled after the semaphore it
signals is created (`EnabledBefore`; not so for the button) and that each
statement does what `Past` says it has done (`StatementProgress`).

The theorems' integers grow without bound.  The 32-bit seconds counter, which
wraps after 136 years (13.8 days in test mode, where a second is an hour), the
64-bit energy and cost and, for readings other than the DAC's waves (`PowerKept`), the
32-bit sum of a cycle are outside what they say.

**Model-checked only:**

* Liveness: `AllSent`, `EventuallyDormant`, `Locks`, `CaughtUp`.
* For given amplitudes, the last conjunct of `Convergent`, which `RmsConverges` assumes:
  it is a matter of the numbers, and MCChannel has TLC evaluate it for the run's.
* The findings, which are counterexamples.

## 6. Not modelled

* The lines of time and average power and the replies that copy one variable
  (`HandlePower`, `HandleFrequency`, `HandleVoltageRMS`, ...): they load one word
  once, and nothing can come in between.  `MyRTC_Get` puts the days into a
  `uint8_t` (MyRTC.c:113), so that after 255 days the time starts over; MyRTC.h
  documents days from 0 to 255.
* The waveform of the mains: Channel's samples are square, for `MeterFrequency` looks
  at signs only.
* Register set-up, hardware debouncing, LEDs, the library's drivers and its kernel,
  of which only headers and a binary are there: the kernel's semaphores and the flash
  are modelled from how `Sources/` uses them.
* `Sources/myFTM.c`, which the build excludes (`src/.cproject:111`), and `Math_Abs`, which
  nobody calls.
* Generated and vendored code: register definitions (`Static_Code/IO_Map/MK70F12.h`,
  20 392 lines), types (`Generated_Code/PE_Types.h`, 2 587), clock and vector set-up
  (`Cpu.c`, `Vectors.c`, `startup.c`), the library's headers.  They hold no logic of
  the meter.  The program's own, `Sources/*.c` without `myFTM.c`, is 2 187 lines with
  comments, of which the modules map about 1 350.

## 7. Plan

Done: FIFO with its proofs and its refinement; Serial, with all its safety properties
proved by composing FIFO's theorems; Packet; Interface with the totals; Readouts;
Boot; Sampling and Channel; Metering; Settings with the waves; proofs about all of
them.

What is left, in the order of what it would add:

1. the meter of `Metering!truth` as an abstract specification that Metering
   implements while undisturbed;
2. Settings composed with the real start-up in place of `PowerOn`.
