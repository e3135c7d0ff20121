---------------------------- MODULE SettingsProofs ----------------------------
(***************************************************************************)
(* Settings keeps its promises for every set of packets, every first       *)
(* content of the flash and any number of packets, seconds, samples and    *)
(* power failures.  None of the invariants is inductive: what holds        *)
(* between packets depends on what each handler has read and not yet       *)
(* stored, and IInv says so statement by statement.                        *)
(*                                                                         *)
(* The power of the waves comes last: its bounds from the table of sines,  *)
(* whose values the SMT solver evaluates, and from how products are        *)
(* rounded; and Written, which says when a table is whole.                 *)
(***************************************************************************)
EXTENDS Settings, TLAPS

\* TypeOK in three parts, with the types of the variables TypeOK does not need.
Flags ==
    /\ TestMode \in BOOLEAN /\ DAC_TestMode \in BOOLEAN
    /\ TCE \in BOOLEAN /\ ticked \in BOOLEAN
    /\ failed \in BOOLEAN /\ noFlash \in BOOLEAN /\ torn \in BOOLEAN

Types ==
    /\ at \in {"off", "idle", "test", "dac", "time1", "time2", "disable", "write",
               "enable", "phase", "phaseStore", "tariff", "erase", "program",
               "store", "voltageAmp", "currentAmp", "table"}
    /\ output \in {"wait", "put"}
    /\ {TSR, oldTime, late, slips} \subseteq Nat
    /\ {Phase, NbV, NbC, loaded, lag} \subseteq 0 .. 63
    /\ CurrentTariff \in 0 .. 3
    /\ flash \in 0 .. 255
    /\ packet \in {<<"none", 0, 0>>} \cup Commands

WaveTypes ==
    /\ i \in 0 .. 15
    /\ Amp \in [Waves -> Int] /\ SineWave \in [Waves -> [0 .. 15 -> Int]]
    /\ Amp["voltage"] \in MinVoltage .. MaxVoltage
    /\ Amp["current"] \in MinCurrent .. MaxCurrent
    /\ \A g \in 0 .. 15 : /\ SineWave["voltage"][g] \in MinVoltage .. MaxVoltage
                          /\ SineWave["current"][g] \in MinCurrent .. MaxCurrent

\* A handler runs for its own packet, whose range was checked.
Dispatched ==
    /\ at \in {"tariff", "erase", "program", "store"} => Name = "tariff" /\ Parameter1 \in 1 .. 3
    /\ at \in {"time1", "time2"} => Name = at
    /\ at \in {"disable", "write", "enable"} => Name \in {"time1", "time2"}
    /\ at \in {"time1", "disable", "write", "enable"} /\ Name = "time1"
            => Parameter1 <= 59 /\ Parameter2 <= 59

\* So are the steps of an amplitude.
Amplitudes ==
    /\ at = "voltageAmp" => Steps(packet) \in Nat /\ Steps(packet) <= 2317
    /\ at = "currentAmp" => Steps(packet) \in Nat /\ Steps(packet) <= 23170

\* The two modes differ only between HandleTest's assignment and DAC_Start or Stop.
Modes == at \notin {"off", "dac"} => TestMode = DAC_TestMode

\* Since DAC_SetPhase read NbV, it has moved on by one step for each slip.
Indexes == PhaseSet /\ (at = "phaseStore" => NbV = (loaded + 4 * slips) % 64)

\* Since MyRTC_Set1 or 2 read the time, there was one interrupt for each second, but
\* for one that was pending then or is pending now; in test mode each added 3599.
Pending == IF ticked THEN 1 ELSE 0

RanOn ==
    LET seconds == TSR - oldTime - (IF TestMode THEN 3599 * late ELSE 0)
    IN  seconds - late \in {Pending - 1, Pending}

\* The time was set to t, and runs only if an interrupt has enabled the counter since.
Set(t) ==
    \/ ~ TCE /\ TSR = t
    \/ TCE /\ TestMode /\ \E n \in 1 .. late : TSR + (1 - Pending) = t + 3600 * n

\* Only MyRTC_Set1 and 2 leave the counter disabled; an interrupt that enables it
\* before their write makes them fail.
Clock ==
    /\ at \notin {"off", "write", "enable"} => TCE
    /\ at \in {"disable", "write"} => RanOn
    /\ at = "write" /\ TCE => TestMode /\ late > 0
    /\ at = "enable" => \/ TCE /\ TestMode /\ late > 0 /\ RanOn
                       \/ Set(NewTime(oldTime))

\* Outside Flash_Write8 the flash and the variable agree, power or no power; and
\* whatever fails after Flash_Init, there is a tariff.
Tariffs ==
    /\ noFlash => failed
    /\ at # "off" /\ ~ noFlash => CurrentTariff \in 1 .. 3
    /\ ~ failed =>
        /\ at \notin {"off", "erase", "program", "store"} => flash = CurrentTariff
        /\ at = "store" => flash = Parameter1
        /\ at = "off" /\ ~ torn => flash = CurrentTariff /\ flash \in 1 .. 3

IInv ==
    /\ Flags /\ Types /\ WaveTypes /\ Amplitudes /\ Dispatched
    /\ Modes /\ Indexes /\ Clock /\ Tariffs

-----------------------------------------------------------------------------

\* What a packet is made of.
LEMMA PacketType ==
    ASSUME NEW p \in {<<"none", 0, 0>>} \cup Commands
    PROVE  /\ p[1] \in {"none", "test", "time1", "time2", "phase", "tariff", "voltageAmp",
                       "currentAmp"}
           /\ p[2] \in 0 .. 255
           /\ p[3] \in 0 .. 255
  BY SettingsAssumption

\* The limits of the amplitudes are numbers, and in order.
LEMMA Limits ==
    /\ MinVoltage \in Int /\ MaxVoltage \in Int /\ MinVoltage <= MaxVoltage
    /\ MinCurrent \in Int /\ MaxCurrent \in Int /\ MinCurrent <= MaxCurrent
    /\ \A n \in Nat : n <= 2317 => MinVoltage + n \in MinVoltage .. MaxVoltage
    /\ \A n \in Nat : n <= 23170 => MinCurrent + n \in MinCurrent .. MaxCurrent
  <1>1. \A n \in Nat : n <= 2317 => MinVoltage + n <= MaxVoltage /\ MinVoltage + n >= MinVoltage
    BY DEF MinVoltage, MaxVoltage
  <1>2. \A n \in Nat : n <= 23170 => MinCurrent + n <= MaxCurrent /\ MinCurrent + n >= MinCurrent
    BY DEF MinCurrent, MaxCurrent
  <1>3. /\ MinVoltage \in Int /\ MaxVoltage \in Int /\ MinVoltage <= MaxVoltage
        /\ MinCurrent \in Int /\ MaxCurrent \in Int /\ MinCurrent <= MaxCurrent
    BY DEF MinVoltage, MaxVoltage, MinCurrent, MaxCurrent
  <1> QED BY <1>1, <1>2, <1>3

\* DAC_Init's amplitudes are the least.
LEMMA LeastWaves ==
    ASSUME Amp = MinAmp, SineWave = WavesOf(MinAmp), i = 0
    PROVE  WaveTypes
  <1>1. /\ Amp \in [Waves -> Int] /\ SineWave \in [Waves -> [0 .. 15 -> Int]]
        /\ Amp["voltage"] = MinVoltage /\ Amp["current"] = MinCurrent
        /\ \A g \in 0 .. 15 : /\ SineWave["voltage"][g] = MinVoltage
                              /\ SineWave["current"][g] = MinCurrent
    BY Limits DEF MinAmp, WavesOf, Waves
  <1> QED BY <1>1, Limits DEF WaveTypes

LEMMA LeastWavesNext ==
    ASSUME Amp' = MinAmp, SineWave' = WavesOf(MinAmp), i' = 0
    PROVE  WaveTypes'
  <1>1. /\ Amp' \in [Waves -> Int] /\ SineWave' \in [Waves -> [0 .. 15 -> Int]]
        /\ Amp'["voltage"] = MinVoltage /\ Amp'["current"] = MinCurrent
        /\ \A g \in 0 .. 15 : /\ SineWave'["voltage"][g] = MinVoltage
                              /\ SineWave'["current"][g] = MinCurrent
    BY Limits DEF MinAmp, WavesOf, Waves
  <1> QED BY <1>1, Limits DEF WaveTypes

\* The waves, while their variables do not change, and their steps, while no packet
\* is dispatched.
LEMMA WavesKept == WaveTypes /\ UNCHANGED waveV => WaveTypes'
  BY DEF WaveTypes, waveV

LEMMA StepsKept ==
    ASSUME Amplitudes, at' = at \/ at' \notin {"voltageAmp", "currentAmp"}, packet' = packet
    PROVE  Amplitudes'
  BY DEF Amplitudes, Steps

\* What the clock's invariant is made of, while its variables do not change.
LEMMA RanOnKept ==
    ASSUME TSR' = TSR, oldTime' = oldTime, late' = late, ticked' = ticked, TestMode' = TestMode
    PROVE  RanOn' <=> RanOn
  <1>1. Pending' = Pending
    BY Zenon DEF Pending
  <1>2. TestMode' <=> TestMode
    BY Zenon
  <1> QED BY <1>1, <1>2, SMT DEF RanOn

LEMMA NewTimeKept ==
    ASSUME oldTime' = oldTime, packet' = packet
    PROVE  NewTime(oldTime)' = NewTime(oldTime)
  <1>1. Name' = Name /\ Parameter1' = Parameter1 /\ Parameter2' = Parameter2
    BY Zenon DEF Name, Parameter1, Parameter2
  <1> QED BY <1>1, SMT DEF NewTime

LEMMA SetKept ==
    ASSUME NewTime(oldTime)' = NewTime(oldTime), TSR' = TSR, late' = late, TCE' = TCE,
           Pending' = Pending, TestMode' = TestMode
    PROVE  Set(NewTime(oldTime))' <=> Set(NewTime(oldTime))
  <1>1. (TestMode' <=> TestMode) /\ (TCE' <=> TCE)
    BY Zenon
  <1> QED BY <1>1, SMT DEF Set

\* Neither do the packet and the mode between the reading of the time and its writing.
LEMMA ClockKeeps ==
    ASSUME Clock, UNCHANGED clockV,
           \/ at' = at /\ TestMode' = TestMode /\ packet' = packet
           \/ /\ at' \notin {"disable", "write", "enable"}
              /\ at' = "off" \/ at \notin {"off", "write", "enable"}
    PROVE  Clock'
  <1>1. TSR' = TSR /\ TCE' = TCE /\ ticked' = ticked /\ oldTime' = oldTime /\ late' = late
    BY DEF clockV
  <1>2. (TCE' <=> TCE) /\ Pending' = Pending
    BY <1>1, Zenon DEF Pending
  <1>3. CASE at' = at /\ TestMode' = TestMode /\ packet' = packet
    <2>1. RanOn' <=> RanOn
      BY <1>1, <1>3, RanOnKept
    <2>2. Set(NewTime(oldTime))' <=> Set(NewTime(oldTime))
      BY <1>1, <1>2, <1>3, NewTimeKept, SetKept
    <2>3. TestMode' <=> TestMode
      BY <1>3, Zenon
    <2> QED BY <1>1, <1>2, <1>3, <2>1, <2>2, <2>3 DEF Clock
  <1>4. CASE /\ at' \notin {"disable", "write", "enable"}
             /\ at' = "off" \/ at \notin {"off", "write", "enable"}
    BY <1>2, <1>4 DEF Clock
  <1> QED BY <1>3, <1>4

\* The three parts make TypeOK.
LEMMA TypesOK == Flags /\ Types /\ WaveTypes => TypeOK
  <1> SUFFICES ASSUME Flags, Types, WaveTypes PROVE TypeOK
    OBVIOUS
  <1>1. {TestMode, DAC_TestMode, TCE, ticked, failed, noFlash, torn} \subseteq BOOLEAN
    BY Zenon DEF Flags
  <1> QED BY <1>1 DEF Types, WaveTypes, TypeOK

\* InitModulesThread has not run, and nothing is expected yet.
LEMMA InitOK == Init => IInv
  <1> SUFFICES ASSUME Init PROVE IInv
    OBVIOUS
  <1>1. Flags
    BY Zenon DEF Init, Flags
  <1>2. Types
    BY SettingsAssumption DEF Init, Types
  <1>3. Dispatched /\ Modes
    BY DEF Init, Dispatched, Modes
  <1>4. Indexes
    BY DEF Init, Indexes, PhaseSet
  <1>5. Clock
    BY DEF Init, Clock
  <1>6. Tariffs
    BY Zenon DEF Init, Tariffs
  <1>7. WaveTypes /\ Amplitudes
    BY LeastWaves DEF Init, Amplitudes
  <1> QED BY <1>1, <1>2, <1>3, <1>4, <1>5, <1>6, <1>7 DEF IInv

\* Restarting establishes the invariant, for it keeps only the flash.
LEMMA PowerOnOK == IInv /\ PowerOn => IInv'
  <1> SUFFICES ASSUME IInv, PowerOn PROVE IInv'
    OBVIOUS
  <1>1. Flags'
    BY Zenon DEF PowerOn, Tariff_Init, Flags
  <1>2. Types'
    BY DEF IInv, Types, PowerOn, Tariff_Init, isSet, Erased
  <1>3. Dispatched' /\ Modes'
    BY DEF Dispatched, Modes, PowerOn
  <1>4. Indexes'
    BY DEF Indexes, PhaseSet, PowerOn
  <1>5. Clock'
    BY DEF PowerOn, Clock
  <1>6. Tariffs'
    <2>1. /\ ~ failed' => CurrentTariff' = flash' /\ flash' \in 1 .. 3
          /\ ~ noFlash' => CurrentTariff' \in 1 .. 3
          /\ noFlash' => failed'
      BY DEF PowerOn, Tariff_Init, isSet
    <2> QED BY <2>1 DEF PowerOn, Tariffs
  <1>7. WaveTypes' /\ Amplitudes'
    BY LeastWavesNext DEF PowerOn, Amplitudes
  <1> QED BY <1>1, <1>2, <1>3, <1>4, <1>5, <1>6, <1>7 DEF IInv

\* The distance between the indexes survives a step of both.
LEMMA SameDistance ==
    ASSUME NEW v \in 0 .. 63, NEW c \in 0 .. 63
    PROVE  (((c + 4) % 64) - ((v + 4) % 64)) % 64 = (c - v) % 64
  OBVIOUS

\* One more step of a wrapped index is one more step before the wrap.
LEMMA OneMoreStep ==
    ASSUME NEW l \in 0 .. 63, NEW k \in Nat
    PROVE  (((l + 4 * k) % 64) + 4) % 64 = (l + 4 * (k + 1)) % 64
  OBVIOUS

\* A lag set from an index that is k steps old is k steps short.
LEMMA StaleLag ==
    ASSUME NEW l \in 0 .. 63, NEW k \in Nat, NEW p \in 0 .. 63
    PROVE  (((l + p) % 64) - ((l + 4 * k) % 64)) % 64 = (p - 4 * k) % 64
  OBVIOUS

\* Power fails: what was in memory no longer matters, and torn says whether the
\* flash still agrees with it.
LEMMA PowerFailsOK == IInv /\ PowerFails => IInv'
  <1> SUFFICES ASSUME IInv, PowerFails PROVE IInv'
    OBVIOUS
  <1> USE DEF IInv, PowerFails, Writing, modeV, clockV, dacV, outV
  <1>1. Flags'
    <2>1. torn' \in BOOLEAN
      OBVIOUS
    <2> QED BY Zenon, <2>1 DEF Flags
  <1>2. Types'
    BY DEF Types
  <1>3. Dispatched'
    BY DEF Types, Dispatched, Name, Parameter1, Parameter2
  <1>4. Modes'
    BY DEF Modes
  <1>5. Indexes'
    BY DEF Types, Indexes, PhaseSet
  <1>6. Clock'
    BY ClockKeeps
  <1>7. Tariffs'
    BY DEF Types, Dispatched, Tariffs, Name, Parameter1
  <1>8. WaveTypes' /\ Amplitudes'
    BY WavesKept, StepsKept
  <1> QED BY <1>1, <1>2, <1>3, <1>4, <1>5, <1>6, <1>7, <1>8

\* What NewTime computes is a number.
LEMMA NewTimeType ==
    ASSUME Types
    PROVE  NewTime(oldTime) \in Nat
  <1>1. oldTime \in Nat /\ Parameter1 \in Nat /\ Parameter2 \in Nat
    BY PacketType DEF Types, Parameter1, Parameter2
  <1>2. (oldTime \div 3600) % 256 \in Nat /\ oldTime % 3600 \in Nat
    BY <1>1
  <1> QED BY <1>1, <1>2 DEF NewTime

\* A second of a running clock keeps the time that was set...
LEMMA SetSecond ==
    ASSUME TSR \in Nat, late \in Nat, NewTime(oldTime) \in Nat,
           TCE, TCE', TestMode' <=> TestMode, TSR' = TSR + 1, late' = late,
           Pending = 0, Pending' = 1, NewTime(oldTime)' = NewTime(oldTime)
    PROVE  Set(NewTime(oldTime)) => Set(NewTime(oldTime))'
  <1> SUFFICES ASSUME Set(NewTime(oldTime)) PROVE Set(NewTime(oldTime))'
    OBVIOUS
  <1>1. TestMode
    BY DEF Set
  <1>2. PICK n \in 1 .. late : TSR + (1 - Pending) = NewTime(oldTime) + 3600 * n
    BY DEF Set
  <1>3. n \in 1 .. late' /\ TSR' + (1 - Pending') = NewTime(oldTime)' + 3600 * n
    BY <1>2
  <1> QED BY <1>1, <1>3, SMT DEF Set

\* ... and so does its interrupt, which in test mode enables the counter.
LEMMA SetInterrupt ==
    ASSUME TSR \in Nat, late \in Nat, NewTime(oldTime) \in Nat,
           TestMode' <=> TestMode, TCE' <=> TCE \/ TestMode,
           TSR' = IF TestMode THEN TSR + 3599 ELSE TSR, late' = late + 1,
           Pending = 1, Pending' = 0, NewTime(oldTime)' = NewTime(oldTime)
    PROVE  Set(NewTime(oldTime)) => Set(NewTime(oldTime))'
  <1> SUFFICES ASSUME Set(NewTime(oldTime)) PROVE Set(NewTime(oldTime))'
    OBVIOUS
  <1>1. CASE ~ TestMode
    <2>1. ~ TCE /\ TSR = NewTime(oldTime)
      BY <1>1 DEF Set
    <2>2. ~ TCE' /\ TSR' = NewTime(oldTime)'
      BY <1>1, <2>1
    <2> QED BY <2>2, Zenon DEF Set
  <1>2. CASE TestMode /\ ~ TCE
    <2>1. TSR = NewTime(oldTime)
      BY <1>2 DEF Set
    <2>2. 1 \in 1 .. late' /\ TSR' + (1 - Pending') = NewTime(oldTime)' + 3600 * 1
      BY <1>2, <2>1
    <2> QED BY <1>2, <2>2, SMT DEF Set
  <1>3. CASE TestMode /\ TCE
    <2>1. PICK n \in 1 .. late : TSR + (1 - Pending) = NewTime(oldTime) + 3600 * n
      BY <1>3 DEF Set
    <2>2. PICK k \in Nat : k = n + 1
      OBVIOUS
    <2>3. k \in 1 .. late' /\ TSR' + (1 - Pending') = NewTime(oldTime)' + 3600 * k
      BY <1>3, <2>1, <2>2
    <2>4. TestMode' /\ TCE'
      BY <1>3
    <2> QED BY <2>3, <2>4, SMT DEF Set
  <1> QED BY <1>1, <1>2, <1>3

\* A second passes: its interrupt is pending.
LEMMA SecondOK == IInv /\ Second => IInv'
  <1> SUFFICES ASSUME IInv, Second PROVE IInv'
    OBVIOUS
  <1> USE DEF IInv, Second, modeV, dacV, tariffV, outV
  <1>1. Flags'
    BY Zenon DEF Flags
  <1>2. Types'
    BY DEF Types
  <1>3. Dispatched'
    BY DEF Types, Dispatched, Name, Parameter1, Parameter2
  <1>4. Modes'
    BY DEF Modes
  <1>5. Indexes'
    BY DEF Types, Indexes, PhaseSet
  <1>6. Clock'
    <2>1. /\ TSR \in Nat /\ oldTime \in Nat /\ late \in Nat /\ TSR' = TSR + 1
          /\ oldTime' = oldTime /\ late' = late /\ at' = at
      BY DEF Types
    <2>2. Pending = 0 /\ Pending' = 1 /\ TCE /\ TCE' /\ (TestMode' <=> TestMode)
      BY DEF Pending
    <2>3. RanOn => RanOn'
      BY <2>1, <2>2 DEF RanOn
    <2>4. NewTime(oldTime)' = NewTime(oldTime)
      BY NewTimeKept
    <2>5. Set(NewTime(oldTime)) => Set(NewTime(oldTime))'
      BY <2>1, <2>2, <2>4, NewTimeType, SetSecond
    <2> QED BY <2>1, <2>2, <2>3, <2>5 DEF Clock
  <1>7. Tariffs'
    BY DEF Types, Dispatched, Tariffs, Name, Parameter1
  <1>8. WaveTypes' /\ Amplitudes'
    BY WavesKept, StepsKept
  <1> QED BY <1>1, <1>2, <1>3, <1>4, <1>5, <1>6, <1>7, <1>8

\* Its interrupt: in test mode an hour less a second, and the counter enabled.
LEMMA RTCCallbackOK == IInv /\ RTCCallback => IInv'
  <1> SUFFICES ASSUME IInv, RTCCallback PROVE IInv'
    OBVIOUS
  <1> USE DEF IInv, RTCCallback, modeV, dacV, tariffV, outV
  <1>1. Flags'
    BY Zenon DEF Flags
  <1>2. Types'
    BY DEF Types
  <1>3. Dispatched'
    BY DEF Types, Dispatched, Name, Parameter1, Parameter2
  <1>4. Modes'
    BY DEF Modes
  <1>5. Indexes'
    BY DEF Types, Indexes, PhaseSet
  <1>6. Clock'
    <2>1. /\ TSR \in Nat /\ oldTime \in Nat /\ late \in Nat
          /\ oldTime' = oldTime /\ at' = at /\ (TestMode' <=> TestMode)
      BY DEF Types
    <2>2. Pending = 1 /\ Pending' = 0 /\ (TCE' <=> TCE \/ TestMode)
      BY DEF Pending
    <2>3. CASE at \in {"disable", "write", "enable"}
      <3>1. late' = late + 1 /\ TSR' = IF TestMode THEN TSR + 3599 ELSE TSR
        BY <2>3
      <3>2. RanOn => RanOn'
        BY <2>1, <2>2, <3>1 DEF RanOn
      <3>3. NewTime(oldTime)' = NewTime(oldTime)
        BY NewTimeKept
      <3>4. Set(NewTime(oldTime)) => Set(NewTime(oldTime))'
        BY <2>1, <2>2, <3>1, <3>3, NewTimeType, SetInterrupt
      <3> QED BY <2>1, <2>2, <2>3, <3>1, <3>2, <3>4 DEF Clock
    <2>4. CASE at \notin {"disable", "write", "enable"}
      BY <2>1, <2>2, <2>4 DEF Clock
    <2> QED BY <2>3, <2>4
  <1>7. Tariffs'
    BY DEF Types, Dispatched, Tariffs, Name, Parameter1
  <1>8. WaveTypes' /\ Amplitudes'
    BY WavesKept, StepsKept
  <1> QED BY <1>1, <1>2, <1>3, <1>4, <1>5, <1>6, <1>7, <1>8

\* The PIT wakes OutputThread.
LEMMA DAC_CallbackOK == IInv /\ DAC_Callback => IInv'
  <1> SUFFICES ASSUME IInv, DAC_Callback PROVE IInv'
    OBVIOUS
  <1> USE DEF IInv, DAC_Callback, modeV, clockV, dacV, tariffV, outV
  <1>1. Flags'
    BY Zenon DEF Flags
  <1>2. Types'
    BY DEF Types
  <1>3. Dispatched'
    BY DEF Types, Dispatched, Name, Parameter1, Parameter2
  <1>4. Modes'
    BY DEF Modes
  <1>5. Indexes'
    BY DEF Types, Indexes, PhaseSet
  <1>6. Clock'
    BY ClockKeeps
  <1>7. Tariffs'
    BY DEF Types, Dispatched, Tariffs, Name, Parameter1
  <1>8. WaveTypes' /\ Amplitudes'
    BY WavesKept, StepsKept
  <1> QED BY <1>1, <1>2, <1>3, <1>4, <1>5, <1>6, <1>7, <1>8

\* OutputThread waits for the PIT.
LEMMA OutputWaitOK == IInv /\ OutputWait => IInv'
  <1> SUFFICES ASSUME IInv, OutputWait PROVE IInv'
    OBVIOUS
  <1> USE DEF IInv, OutputWait, modeV, clockV, dacV, tariffV, outV
  <1>1. Flags'
    BY Zenon DEF Flags
  <1>2. Types'
    BY DEF Types
  <1>3. Dispatched'
    BY DEF Types, Dispatched, Name, Parameter1, Parameter2
  <1>4. Modes'
    BY DEF Modes
  <1>5. Indexes'
    BY DEF Types, Indexes, PhaseSet
  <1>6. Clock'
    BY ClockKeeps
  <1>7. Tariffs'
    BY DEF Types, Dispatched, Tariffs, Name, Parameter1
  <1>8. WaveTypes' /\ Amplitudes'
    BY WavesKept, StepsKept
  <1> QED BY <1>1, <1>2, <1>3, <1>4, <1>5, <1>6, <1>7, <1>8

\* OutputThread moves both indexes by one step of 4.
LEMMA OutputPutOK == IInv /\ OutputPut => IInv'
  <1> SUFFICES ASSUME IInv, OutputPut PROVE IInv'
    OBVIOUS
  <1> USE DEF IInv, OutputPut, Outputting, modeV, clockV, tariffV, outV
  <1>1. Flags'
    BY Zenon DEF Flags
  <1>2. Types'
    BY DEF Types
  <1>3. Dispatched'
    BY DEF Types, Dispatched, Name, Parameter1, Parameter2
  <1>4. Modes'
    BY DEF Modes
  <1>5. Indexes'
    <2>1. (NbC' - NbV') % 64 = (NbC - NbV) % 64
      BY SameDistance DEF Types
    <2>2. at = "phaseStore" => NbV' = (loaded + 4 * slips') % 64
      BY OneMoreStep DEF Types, Indexes
    <2> QED BY <2>1, <2>2 DEF Indexes, PhaseSet
  <1>6. Clock'
    BY ClockKeeps
  <1>7. Tariffs'
    BY DEF Types, Dispatched, Tariffs, Name, Parameter1
  <1>8. WaveTypes' /\ Amplitudes'
    BY WavesKept, StepsKept
  <1> QED BY <1>1, <1>2, <1>3, <1>4, <1>5, <1>6, <1>7, <1>8

\* The steps of an amplitude, and the checks on them.
LEMMA StepsInRange ==
    ASSUME NEW p, p[2] \in 0 .. 255, p[3] \in 0 .. 255
    PROVE  /\ Steps(p) \in Nat
           /\ InRange(p) /\ p[1] = "voltageAmp" => Steps(p) <= 2317
           /\ InRange(p) /\ p[1] = "currentAmp" => Steps(p) <= 23170
  <1> DEFINE lo == p[2]
             hi == p[3]
  <1>1. lo \in Nat /\ hi \in Nat
    OBVIOUS
  <1>2. lo + 256 * hi \in Nat
    <2> HIDE DEF lo, hi
    <2> QED BY <1>1
  <1>3. Steps(p) \in Nat
    BY <1>2, Zenon DEF Steps
  <1>4. InRange(p) /\ p[1] = "voltageAmp" => Steps(p) <= 2317
    BY DEF InRange
  <1>5. InRange(p) /\ p[1] = "currentAmp" => Steps(p) <= 23170
    BY DEF InRange
  <1> QED BY <1>3, <1>4, <1>5

\* A packet is dispatched with its range checked, or dropped.
LEMMA HandlePacketOK == IInv /\ HandlePacket => IInv'
  <1> SUFFICES ASSUME IInv, HandlePacket PROVE IInv'
    OBVIOUS
  <1> USE DEF IInv, outV, modeV, clockV, dacV, waveV, tariffV
  <1>1. PICK p \in Commands : /\ at = "idle" /\ packet' = p
                             /\ at' = IF InRange(p) THEN p[1] ELSE "idle"
    BY DEF HandlePacket, Step
  <1>2. UNCHANGED <<outV, modeV, clockV, dacV, waveV, tariffV>>
    BY DEF HandlePacket
  <1>3. /\ p[1] \in {"test", "time1", "time2", "phase", "tariff", "voltageAmp", "currentAmp"}
        /\ p[2] \in 0 .. 255 /\ p[3] \in 0 .. 255
    BY SettingsAssumption
  <1>4. /\ InRange(p) /\ p[1] = "tariff" => p[2] \in 1 .. 3
        /\ InRange(p) /\ p[1] = "time1" => p[2] <= 59 /\ p[3] <= 59
    BY DEF InRange
  <1>12. /\ Steps(p) \in Nat
         /\ InRange(p) /\ p[1] = "voltageAmp" => Steps(p) <= 2317
         /\ InRange(p) /\ p[1] = "currentAmp" => Steps(p) <= 23170
    BY <1>3, StepsInRange
  <1>5. at' \in {"idle", "test", "time1", "time2", "phase", "tariff", "voltageAmp", "currentAmp"}
    BY <1>1, <1>3
  <1>6. Flags'
    BY Zenon, <1>2 DEF Flags
  <1>7. Types'
    BY <1>1, <1>2, <1>5 DEF Types
  <1>8. Dispatched'
    BY <1>1, <1>3, <1>4, <1>5 DEF Dispatched, Name, Parameter1, Parameter2
  <1>9. Modes' /\ Indexes'
    BY <1>1, <1>2, <1>5 DEF Modes, Indexes, PhaseSet
  <1>10. Clock'
    BY <1>1, <1>2, <1>5, ClockKeeps
  <1>11. Tariffs'
    BY <1>1, <1>2, <1>5 DEF Tariffs
  <1>13. WaveTypes'
    BY <1>2, WavesKept
  <1>14. Amplitudes'
    BY <1>1, <1>3, <1>12 DEF Amplitudes
  <1> QED BY <1>6, <1>7, <1>8, <1>9, <1>10, <1>11, <1>13, <1>14

\* The mode of Protocol.c is set.
LEMMA HandleTestOK == IInv /\ HandleTest => IInv'
  <1> SUFFICES ASSUME IInv, HandleTest PROVE IInv'
    OBVIOUS
  <1> USE DEF IInv, HandleTest, Step, clockV, dacV, tariffV, outV
  <1>1. Flags'
    BY Zenon DEF Flags
  <1>2. Types'
    BY DEF Types
  <1>3. Dispatched'
    BY DEF Types, Dispatched, Name, Parameter1, Parameter2
  <1>4. Modes'
    BY DEF Modes
  <1>5. Indexes'
    BY DEF Types, Indexes, PhaseSet
  <1>6. Clock'
    BY ClockKeeps
  <1>7. Tariffs'
    BY DEF Types, Dispatched, Tariffs, Name, Parameter1
  <1>8. WaveTypes' /\ Amplitudes'
    BY WavesKept, StepsKept
  <1> QED BY <1>1, <1>2, <1>3, <1>4, <1>5, <1>6, <1>7, <1>8

\* The mode of DAC.c follows.
LEMMA DAC_StartStopOK == IInv /\ DAC_StartStop => IInv'
  <1> SUFFICES ASSUME IInv, DAC_StartStop PROVE IInv'
    OBVIOUS
  <1> USE DEF IInv, DAC_StartStop, Step, MinPhase, clockV, tariffV, outV
  <1>1. Flags'
    BY Zenon DEF Flags
  <1>2. Types'
    BY DEF Types
  <1>3. Dispatched'
    BY DEF Types, Dispatched, Name, Parameter1, Parameter2
  <1>4. Modes'
    BY DEF Modes
  <1>5. Indexes'
    BY DEF Types, Indexes, PhaseSet
  <1>6. Clock'
    BY ClockKeeps
  <1>7. Tariffs'
    BY DEF Types, Dispatched, Tariffs, Name, Parameter1
  <1>8. WaveTypes' /\ Amplitudes'
    BY WavesKept, StepsKept
  <1> QED BY <1>1, <1>2, <1>3, <1>4, <1>5, <1>6, <1>7, <1>8

\* MyRTC_Set1 or MyRTC_Set2 reads the time.
LEMMA ReadTimeOK == IInv /\ ReadTime => IInv'
  <1> SUFFICES ASSUME IInv, ReadTime PROVE IInv'
    OBVIOUS
  <1> USE DEF IInv, ReadTime, Step, modeV, dacV, tariffV, outV
  <1>1. Flags'
    BY Zenon DEF Flags
  <1>2. Types'
    BY DEF Types
  <1>3. Dispatched'
    BY DEF Types, Dispatched, Name, Parameter1, Parameter2
  <1>4. Modes'
    BY DEF Modes
  <1>5. Indexes'
    BY DEF Types, Indexes, PhaseSet
  <1>6. Clock'
    <2>1. TSR \in Nat /\ TSR' = TSR /\ oldTime' = TSR /\ late' = 0 /\ at' = "disable"
      BY DEF Types
    <2>2. TCE' /\ Pending' \in {0, 1}
      BY DEF Clock, Pending
    <2>3. RanOn'
      BY <2>1, <2>2 DEF RanOn
    <2> QED BY <2>1, <2>2, <2>3 DEF Clock
  <1>7. Tariffs'
    BY DEF Types, Dispatched, Tariffs, Name, Parameter1
  <1>8. WaveTypes' /\ Amplitudes'
    BY WavesKept, StepsKept
  <1> QED BY <1>1, <1>2, <1>3, <1>4, <1>5, <1>6, <1>7, <1>8

\* ... disables the counter...
LEMMA DisableCounterOK == IInv /\ DisableCounter => IInv'
  <1> SUFFICES ASSUME IInv, DisableCounter PROVE IInv'
    OBVIOUS
  <1> USE DEF IInv, DisableCounter, Step, modeV, dacV, tariffV, outV
  <1>1. Flags'
    BY Zenon DEF Flags
  <1>2. Types'
    BY DEF Types
  <1>3. Dispatched'
    BY DEF Types, Dispatched, Name, Parameter1, Parameter2
  <1>4. Modes'
    BY DEF Modes
  <1>5. Indexes'
    BY DEF Types, Indexes, PhaseSet
  <1>6. Clock'
    <2>1. at' = "write" /\ ~ TCE' /\ RanOn
      BY DEF Clock
    <2>2. RanOn'
      BY <2>1, RanOnKept
    <2> QED BY <2>1, <2>2 DEF Clock
  <1>7. Tariffs'
    BY DEF Types, Dispatched, Tariffs, Name, Parameter1
  <1>8. WaveTypes' /\ Amplitudes'
    BY WavesKept, StepsKept
  <1> QED BY <1>1, <1>2, <1>3, <1>4, <1>5, <1>6, <1>7, <1>8

\* ... writes the time, or fails to...
LEMMA WriteTimeOK == IInv /\ WriteTime => IInv'
  <1> SUFFICES ASSUME IInv, WriteTime PROVE IInv'
    OBVIOUS
  <1> USE DEF IInv, WriteTime, Step, modeV, dacV, tariffV, outV
  <1>1. Flags'
    BY Zenon DEF Flags
  <1>2. Types'
    BY NewTimeType DEF Types
  <1>3. Dispatched'
    BY DEF Types, Dispatched, Name, Parameter1, Parameter2
  <1>4. Modes'
    BY DEF Modes
  <1>5. Indexes'
    BY DEF Types, Indexes, PhaseSet
  <1>6. Clock'
    <2>1. at' = "enable" /\ RanOn
      BY DEF Clock
    <2>2. CASE TCE
      <3>1. TCE' /\ TestMode' /\ late' > 0 /\ TSR' = TSR
        BY <2>2 DEF Clock
      <3>2. RanOn'
        BY <2>1, <3>1, RanOnKept
      <3> QED BY <2>1, <3>1, <3>2 DEF Clock
    <2>3. CASE ~ TCE
      <3>1. ~ TCE' /\ TSR' = NewTime(oldTime)
        BY <2>3
      <3>2. NewTime(oldTime)' = NewTime(oldTime)
        BY NewTimeKept
      <3>3. Set(NewTime(oldTime))'
        BY <3>1, <3>2, Zenon DEF Set
      <3> QED BY <2>1, <3>3 DEF Clock
    <2> QED BY <2>2, <2>3
  <1>7. Tariffs'
    BY DEF Types, Dispatched, Tariffs, Name, Parameter1
  <1>8. WaveTypes' /\ Amplitudes'
    BY WavesKept, StepsKept
  <1> QED BY <1>1, <1>2, <1>3, <1>4, <1>5, <1>6, <1>7, <1>8

\* ... and enables the counter.
LEMMA EnableCounterOK == IInv /\ EnableCounter => IInv'
  <1> SUFFICES ASSUME IInv, EnableCounter PROVE IInv'
    OBVIOUS
  <1> USE DEF IInv, EnableCounter, Step, modeV, dacV, tariffV, outV
  <1>1. Flags'
    BY Zenon DEF Flags
  <1>2. Types'
    BY DEF Types
  <1>3. Dispatched'
    BY DEF Types, Dispatched, Name, Parameter1, Parameter2
  <1>4. Modes'
    BY DEF Modes
  <1>5. Indexes'
    BY DEF Types, Indexes, PhaseSet
  <1>6. Clock'
    BY DEF Clock
  <1>7. Tariffs'
    BY DEF Types, Dispatched, Tariffs, Name, Parameter1
  <1>8. WaveTypes' /\ Amplitudes'
    BY WavesKept, StepsKept
  <1> QED BY <1>1, <1>2, <1>3, <1>4, <1>5, <1>6, <1>7, <1>8

\* DAC_SetPhase reads NbV.
LEMMA ReadPhaseOK == IInv /\ ReadPhase => IInv'
  <1> SUFFICES ASSUME IInv, ReadPhase PROVE IInv'
    OBVIOUS
  <1> USE DEF IInv, ReadPhase, Step, MinPhase, modeV, clockV, tariffV, outV
  <1>1. Flags'
    BY Zenon DEF Flags
  <1>2. Types'
    BY PacketType DEF Types, Parameter1
  <1>3. Dispatched'
    BY PacketType DEF Types, Dispatched, Name, Parameter1, Parameter2
  <1>4. Modes'
    BY DEF Modes
  <1>5. Indexes'
    BY DEF Types, Indexes, PhaseSet
  <1>6. Clock'
    BY ClockKeeps
  <1>7. Tariffs'
    BY DEF Types, Dispatched, Tariffs, Name, Parameter1
  <1>8. WaveTypes' /\ Amplitudes'
    BY WavesKept, StepsKept
  <1> QED BY <1>1, <1>2, <1>3, <1>4, <1>5, <1>6, <1>7, <1>8

\* DAC_SetPhase stores NbC.
LEMMA StorePhaseOK == IInv /\ StorePhase => IInv'
  <1> SUFFICES ASSUME IInv, StorePhase PROVE IInv'
    OBVIOUS
  <1> USE DEF IInv, StorePhase, Step, modeV, clockV, tariffV, outV
  <1>1. Flags'
    BY Zenon DEF Flags
  <1>2. Types'
    BY DEF Types
  <1>3. Dispatched'
    BY DEF Types, Dispatched, Name, Parameter1, Parameter2
  <1>4. Modes'
    BY DEF Modes
  <1>5. Indexes'
    <2>1. NbV = (loaded + 4 * slips) % 64
      BY DEF Indexes
    <2>2. loaded \in 0 .. 63 /\ slips \in Nat /\ Phase \in 0 .. 63
      BY DEF Types
    <2>3. (NbC' - NbV') % 64 = (Phase - 4 * slips) % 64
      BY <2>1, <2>2, StaleLag
    <2> QED BY <2>3 DEF Indexes, PhaseSet
  <1>6. Clock'
    BY ClockKeeps
  <1>7. Tariffs'
    BY DEF Types, Dispatched, Tariffs, Name, Parameter1
  <1>8. WaveTypes' /\ Amplitudes'
    BY WavesKept, StepsKept
  <1> QED BY <1>1, <1>2, <1>3, <1>4, <1>5, <1>6, <1>7, <1>8

\* Tariff_Set compares.
LEMMA HandleTariffOK == IInv /\ HandleTariff => IInv'
  <1> SUFFICES ASSUME IInv, HandleTariff PROVE IInv'
    OBVIOUS
  <1> USE DEF IInv, HandleTariff, Step, modeV, clockV, dacV, tariffV, outV
  <1>1. Flags'
    BY Zenon DEF Flags
  <1>2. Types'
    BY DEF Types
  <1>3. Dispatched'
    BY DEF Types, Dispatched, Name, Parameter1, Parameter2
  <1>4. Modes'
    BY DEF Modes
  <1>5. Indexes'
    BY DEF Types, Indexes, PhaseSet
  <1>6. Clock'
    BY ClockKeeps
  <1>7. Tariffs'
    BY DEF Types, Dispatched, Tariffs, Name, Parameter1
  <1>8. WaveTypes' /\ Amplitudes'
    BY WavesKept, StepsKept
  <1> QED BY <1>1, <1>2, <1>3, <1>4, <1>5, <1>6, <1>7, <1>8

\* The flash is erased, or the erase fails.
LEMMA FlashEraseOK == IInv /\ FlashErase => IInv'
  <1> SUFFICES ASSUME IInv, FlashErase PROVE IInv'
    OBVIOUS
  <1> USE DEF IInv, FlashErase, Step, Erased, modeV, clockV, dacV, outV
  <1>1. Flags'
    <2>1. failed' = failed \/ failed' = TRUE
      BY Zenon
    <2>2. /\ TestMode' = TestMode /\ DAC_TestMode' = DAC_TestMode /\ TCE' = TCE
          /\ ticked' = ticked /\ noFlash' = noFlash /\ torn' = torn
      BY Zenon
    <2> HIDE DEF FlashErase
    <2> QED BY Zenon, <2>1, <2>2 DEF Flags
  <1>2. Types'
    BY DEF Types
  <1>3. Dispatched'
    BY DEF Types, Dispatched, Name, Parameter1, Parameter2
  <1>4. Modes'
    BY DEF Modes
  <1>5. Indexes'
    BY DEF Types, Indexes, PhaseSet
  <1>6. Clock'
    BY ClockKeeps
  <1>7. Tariffs'
    BY DEF Types, Dispatched, Tariffs, Name, Parameter1
  <1>8. WaveTypes' /\ Amplitudes'
    BY WavesKept, StepsKept
  <1> QED BY <1>1, <1>2, <1>3, <1>4, <1>5, <1>6, <1>7, <1>8

\* The flash is programmed, or the programming fails.
LEMMA FlashProgramOK == IInv /\ FlashProgram => IInv'
  <1> SUFFICES ASSUME IInv, FlashProgram PROVE IInv'
    OBVIOUS
  <1> USE DEF IInv, FlashProgram, Step, modeV, clockV, dacV, outV
  <1>1. Flags'
    BY Zenon DEF Flags
  <1>2. Types'
    BY PacketType DEF Types, Parameter1
  <1>3. Dispatched'
    BY PacketType DEF Types, Dispatched, Name, Parameter1, Parameter2
  <1>4. Modes'
    BY DEF Modes
  <1>5. Indexes'
    BY DEF Types, Indexes, PhaseSet
  <1>6. Clock'
    BY ClockKeeps
  <1>7. Tariffs'
    BY DEF Types, Dispatched, Tariffs, Name, Parameter1
  <1>8. WaveTypes' /\ Amplitudes'
    BY WavesKept, StepsKept
  <1> QED BY <1>1, <1>2, <1>3, <1>4, <1>5, <1>6, <1>7, <1>8

\* Tariff_Set stores what it wrote.
LEMMA StoreTariffOK == IInv /\ StoreTariff => IInv'
  <1> SUFFICES ASSUME IInv, StoreTariff PROVE IInv'
    OBVIOUS
  <1> USE DEF IInv, StoreTariff, Step, modeV, clockV, dacV, outV
  <1>1. Flags'
    BY Zenon DEF Flags
  <1>2. Types'
    BY DEF Types, Dispatched, Parameter1
  <1>3. Dispatched'
    BY DEF Types, Dispatched, Name, Parameter1, Parameter2
  <1>4. Modes'
    BY DEF Modes
  <1>5. Indexes'
    BY DEF Types, Indexes, PhaseSet
  <1>6. Clock'
    BY ClockKeeps
  <1>7. Tariffs'
    BY DEF Types, Dispatched, Tariffs, Name, Parameter1
  <1>8. WaveTypes' /\ Amplitudes'
    BY WavesKept, StepsKept
  <1> QED BY <1>1, <1>2, <1>3, <1>4, <1>5, <1>6, <1>7, <1>8

\* An amplitude whose steps were checked is in its range.
LEMMA DAC_SetAmpOK == IInv /\ DAC_SetAmp => IInv'
  <1> SUFFICES ASSUME IInv, DAC_SetAmp PROVE IInv'
    OBVIOUS
  <1> USE DEF IInv, DAC_SetAmp, Step, modeV, clockV, dacV, tariffV, outV
  <1>1. Flags'
    BY Zenon DEF Flags
  <1>2. Types'
    BY DEF Types
  <1>3. Dispatched'
    BY DEF Types, Dispatched, Name, Parameter1, Parameter2
  <1>4. Modes'
    BY DEF Modes
  <1>5. Indexes'
    BY DEF Types, Indexes, PhaseSet
  <1>6. Clock'
    BY ClockKeeps
  <1>7. Tariffs'
    BY DEF Types, Dispatched, Tariffs, Name, Parameter1
  <1>9. Amplitudes'
    BY DEF Amplitudes
  <1>8. WaveTypes'
    <2>1. CASE Step("voltageAmp", "table")
                 /\ Amp' = [Amp EXCEPT !["voltage"] = MinVoltage + Steps(packet)]
      <3>1. MinVoltage + Steps(packet) \in MinVoltage .. MaxVoltage
        BY <2>1, Limits DEF Amplitudes
      <3> QED BY <2>1, <3>1, Limits DEF WaveTypes, Waves
    <2>2. CASE Step("currentAmp", "table")
                 /\ Amp' = [Amp EXCEPT !["current"] = MinCurrent + Steps(packet)]
      <3>1. MinCurrent + Steps(packet) \in MinCurrent .. MaxCurrent
        BY <2>2, Limits DEF Amplitudes
      <3> QED BY <2>2, <3>1, Limits DEF WaveTypes, Waves
    <2> QED BY <2>1, <2>2
  <1> QED BY <1>1, <1>2, <1>3, <1>4, <1>5, <1>6, <1>7, <1>8, <1>9

\* Four entries of a table take the amplitude of their wave.
LEMMA UpdateSineWaveOK == IInv /\ UpdateSineWave => IInv'
  <1> SUFFICES ASSUME IInv, UpdateSineWave PROVE IInv'
    OBVIOUS
  <1> USE DEF IInv, UpdateSineWave, Step, modeV, clockV, dacV, tariffV, outV
  <1>1. Flags'
    BY Zenon DEF Flags
  <1>2. Types'
    BY DEF Types
  <1>3. Dispatched'
    BY DEF Types, Dispatched, Name, Parameter1, Parameter2
  <1>4. Modes'
    BY DEF Modes
  <1>5. Indexes'
    BY DEF Types, Indexes, PhaseSet
  <1>6. Clock'
    BY ClockKeeps
  <1>7. Tariffs'
    BY DEF Types, Dispatched, Tariffs, Name, Parameter1
  <1>9. Amplitudes'
    BY DEF Amplitudes
  <1>8. WaveTypes'
    <2>1. Wave \in Waves
      BY DEF Wave, Waves
    <2>2. i \in 0 .. 15 /\ i' \in 0 .. 15
      BY DEF WaveTypes
    <2>3. \A w \in Waves, g \in 0 .. 15 :
            SineWave'[w][g] = IF w = Wave /\ g = i THEN Amp[Wave] ELSE SineWave[w][g]
      BY <2>1, <2>2 DEF WaveTypes
    <2>4. SineWave' \in [Waves -> [0 .. 15 -> Int]]
      BY <2>1, <2>2 DEF WaveTypes
    <2> QED BY <2>2, <2>3, <2>4 DEF WaveTypes, Waves, Wave
  <1> QED BY <1>1, <1>2, <1>3, <1>4, <1>5, <1>6, <1>7, <1>8, <1>9

-----------------------------------------------------------------------------

\* Every step keeps the invariant.
LEMMA StepOK == IInv /\ [Next]_vars => IInv'
  <1> SUFFICES ASSUME IInv, [Next]_vars PROVE IInv'
    OBVIOUS
  <1>1. CASE UNCHANGED vars
    <2> USE <1>1 DEF IInv, vars, outV, modeV, clockV, dacV, waveV, tariffV
    <2>1. Flags' /\ Modes'
      BY Zenon DEF Flags, Modes
    <2>2. Types'
      BY DEF Types
    <2>3. Dispatched' /\ Tariffs'
      BY DEF Dispatched, Tariffs, Name, Parameter1, Parameter2
    <2>6. Clock'
      BY ClockKeeps
    <2>4. Indexes'
      BY DEF Indexes, PhaseSet
    <2>5. WaveTypes' /\ Amplitudes'
      BY WavesKept, StepsKept
    <2> QED BY <2>1, <2>2, <2>3, <2>4, <2>5, <2>6
  <1>2. CASE PowerOn \/ PowerFails
    BY <1>2, PowerOnOK, PowerFailsOK
  <1>3. CASE Second \/ RTCCallback \/ DAC_Callback \/ OutputWait \/ OutputPut
    BY <1>3, SecondOK, RTCCallbackOK, DAC_CallbackOK, OutputWaitOK, OutputPutOK
  <1>4. CASE HandlePacket \/ HandleTest \/ DAC_StartStop
    BY <1>4, HandlePacketOK, HandleTestOK, DAC_StartStopOK
  <1>7. CASE ReadTime \/ DisableCounter \/ WriteTime \/ EnableCounter
    BY <1>7, ReadTimeOK, DisableCounterOK, WriteTimeOK, EnableCounterOK
  <1>5. CASE ReadPhase \/ StorePhase \/ DAC_SetAmp \/ UpdateSineWave
    BY <1>5, ReadPhaseOK, StorePhaseOK, DAC_SetAmpOK, UpdateSineWaveOK
  <1>6. CASE HandleTariff \/ FlashErase \/ FlashProgram \/ StoreTariff
    BY <1>6, HandleTariffOK, FlashEraseOK, FlashProgramOK, StoreTariffOK
  <1> QED BY <1>1, <1>2, <1>3, <1>4, <1>5, <1>6, <1>7 DEF Next

\* What each handler has read and not yet stored, as an invariant.
THEOREM Invariant == Spec => []IInv
  BY InitOK, StepOK, PTL DEF Spec

\* The variables of Protocol.c, DAC.c, MyRTC.c and Tariff.c keep their types.
THEOREM TypeCorrect == Spec => []TypeOK
  <1>1. IInv => TypeOK
    BY TypesOK DEF IInv
  <1> QED BY <1>1, Invariant, PTL

\* Between packets TestMode and DAC_TestMode agree, whatever HandleTest was asked.
THEOREM ModeAgreement == Spec => []ModesAgree
  <1>1. IInv => ModesAgree
    BY DEF IInv, Modes, ModesAgree
  <1> QED BY <1>1, Invariant, PTL

\* The lag of the DAC's current wave is the one last asked for, less what OutputThread
\* put while DAC_SetPhase was half done.
THEOREM PhaseKept == Spec => []PhaseSet
  <1>1. IInv => PhaseSet
    BY DEF IInv, Indexes
  <1> QED BY <1>1, Invariant, PTL

\* Between packets the tariff in force is in flash, unless the flash failed.
THEOREM TariffStored == Spec => []StoredTariff
  <1>1. IInv => StoredTariff
    BY DEF IInv, Tariffs, StoredTariff
  <1> QED BY <1>1, Invariant, PTL

\* Tariff_GetRate's three ranges leave no hour out.
LEMMA RatePositive ==
    ASSUME CurrentTariff \in 1 .. 3, TSR \in Nat
    PROVE  Tariff_GetRate > 0
  <1>1. HourOfDay(TSR) \in 0 .. 23
    BY DEF HourOfDay, Hours
  <1>2. \/ HourOfDay(TSR) \in 14 .. 19
        \/ HourOfDay(TSR) \in (7 .. 13) \cup {20, 21}
        \/ HourOfDay(TSR) \in (0 .. 6) \cup {22, 23}
    BY <1>1
  <1> QED BY <1>2 DEF Tariff_GetRate

\* Every unit of energy has a price, wherever power failed and whatever the flash did,
\* unless Flash_Init failed.
THEOREM AlwaysBillable == Spec => []Billable
  <1>1. IInv => Billable
    BY RatePositive DEF IInv, Types, Tariffs, Billable
  <1> QED BY <1>1, Invariant, PTL

\* A restart changes the tariff only if power failed inside Tariff_Set's write.
THEOREM RestartKeepsTariff == Spec => TariffSurvives
  <1>1. IInv /\ [Next]_vars =>
            [PowerOn /\ ~ torn /\ ~ failed /\ ~ failed' => CurrentTariff' = CurrentTariff]_vars
    <2> SUFFICES ASSUME IInv, PowerOn, ~ torn, ~ failed, ~ failed'
                 PROVE  CurrentTariff' = CurrentTariff
      OBVIOUS
    <2>1. flash = CurrentTariff /\ flash \in 1 .. 3
      BY DEF IInv, Tariffs, PowerOn
    <2> QED BY <2>1 DEF PowerOn, Tariff_Init, isSet
  <1> QED BY <1>1, Invariant, PTL DEF Spec, TariffSurvives

-----------------------------------------------------------------------------
(* The clock *)

\* NewTime is what was asked for, and the rest of oldTime.
LEMMA NewTimeAsked ==
    ASSUME Types, Dispatched, at = "enable"
    PROVE  AsAsked(NewTime(oldTime))
  <1>1. /\ oldTime \in Nat /\ Parameter1 \in Nat /\ Parameter2 \in Nat
    BY PacketType DEF Types, Parameter1, Parameter2
  <1>2. CASE Name = "time1"
    <2> DEFINE h == (oldTime \div 3600) % 256
               r == Parameter2 * 60 + Parameter1
    <2>1. h \in Nat /\ r \in 0 .. 3599
      BY <1>1, <1>2 DEF Dispatched
    <2>2. NewTime(oldTime) = h * 3600 + r
      BY <1>1, <1>2, <2>1 DEF NewTime
    <2>3. Hours(NewTime(oldTime)) = h /\ NewTime(oldTime) % 3600 = r
      <3> HIDE DEF h, r
      <3>1. (h * 3600 + r) \div 3600 = h /\ (h * 3600 + r) % 3600 = r
        BY <2>1
      <3> QED BY <2>2, <3>1 DEF Hours
    <2>4. Hours(oldTime) < 256 => h = Hours(oldTime)
      BY <1>1 DEF Hours
    <2> HIDE DEF h
    <2> QED BY <1>2, <2>3, <2>4 DEF AsAsked
  <1>3. CASE Name # "time1"
    <2> DEFINE h == Parameter2 * 24 + Parameter1
               r == oldTime % 3600
    <2>1. h \in Nat /\ r \in 0 .. 3599
      BY <1>1
    <2>2. NewTime(oldTime) = h * 3600 + r
      BY <1>1, <1>3, <2>1 DEF NewTime
    <2>3. Hours(NewTime(oldTime)) = h /\ NewTime(oldTime) % 3600 = r
      <3> HIDE DEF h, r
      <3>1. (h * 3600 + r) \div 3600 = h /\ (h * 3600 + r) % 3600 = r
        BY <2>1
      <3> QED BY <2>2, <3>1 DEF Hours
    <2> QED BY <1>3, <2>3 DEF AsAsked
  <1> QED BY <1>2, <1>3

\* MyRTC_Set1 and MyRTC_Set2 set what they are asked to and keep the rest, or, when an
\* interrupt of test mode comes before their write, set nothing.
THEOREM ClockSet == Spec => SetOrIgnored
  <1> DEFINE InEffect == \E more \in Additions : TSR' >= more /\ AsAsked(TSR' - more)
             Ignored == TestMode /\ late > 0 /\ TSR' - oldTime - 3600 * late \in -1 .. 1
  <1>1. IInv /\ [Next]_vars => [EnableCounter => TCE' /\ (InEffect \/ Ignored)]_vars
    <2> SUFFICES ASSUME IInv, EnableCounter PROVE TCE' /\ (InEffect \/ Ignored)
      OBVIOUS
    <2>1. TCE' /\ TSR' = TSR /\ at = "enable"
      BY DEF EnableCounter, Step
    <2>2. TSR \in Nat /\ oldTime \in Nat /\ late \in Nat /\ NewTime(oldTime) \in Nat
      BY NewTimeType DEF IInv, Types
    <2>3. Pending \in {0, 1}
      BY DEF Pending
    <2>4. AsAsked(NewTime(oldTime))
      BY <2>1, NewTimeAsked DEF IInv
    <2>5. CASE TestMode /\ late > 0 /\ RanOn
      <3>1. TSR - oldTime - 3600 * late \in -1 .. 1
        BY <2>2, <2>3, <2>5 DEF RanOn
      <3> QED BY <2>1, <2>5, <3>1
    <2>6. CASE ~ TCE /\ TSR = NewTime(oldTime)
      <3>1. 0 \in Additions
        BY DEF Additions
      <3>2. TSR' >= 0 /\ TSR' - 0 = NewTime(oldTime)
        BY <2>1, <2>2, <2>6
      <3>3. InEffect
        BY <2>4, <3>1, <3>2, Zenon
      <3> QED BY <2>1, <3>3
    <2>7. CASE TestMode /\ \E n \in 1 .. late : TSR + (1 - Pending) = NewTime(oldTime) + 3600 * n
      <3>1. PICK n \in 1 .. late : TSR + (1 - Pending) = NewTime(oldTime) + 3600 * n
        BY <2>7
      <3> DEFINE more == 3600 * n - (1 - Pending)
      <3>2. 1 - Pending \in 0 .. 1
        BY <2>3
      <3>3. more \in Additions
        BY <2>7, <3>2 DEF Additions
      <3>4. TSR' >= more /\ TSR' - more = NewTime(oldTime)
        BY <2>1, <2>2, <2>3, <3>1
      <3> HIDE DEF more
      <3>5. InEffect
        BY <2>4, <3>3, <3>4, Zenon
      <3> QED BY <2>1, <3>5
    <2> QED BY <2>1, <2>5, <2>6, <2>7 DEF IInv, Clock, Set
  <1> QED BY <1>1, Invariant, PTL DEF Spec, SetOrIgnored

-----------------------------------------------------------------------------
(* The table of UpdateSineWave                                             *)

\* The sines of half a turn, and those of the other half.
LEMMA RatioTable ==
    /\ Ratio[0] = 0 /\ Ratio[1] = 6423 /\ Ratio[2] = 12785 /\ Ratio[3] = 19024
    /\ Ratio[4] = 25079 /\ Ratio[5] = 30893 /\ Ratio[6] = 36409 /\ Ratio[7] = 41575
    /\ Ratio[8] = 46340 /\ Ratio[9] = 50660 /\ Ratio[10] = 54491 /\ Ratio[11] = 57797
    /\ Ratio[12] = 60547 /\ Ratio[13] = 62714 /\ Ratio[14] = 64276 /\ Ratio[15] = 65220
    /\ Ratio[16] = 65536 /\ Ratio[17] = 65220 /\ Ratio[18] = 64276 /\ Ratio[19] = 62714
    /\ Ratio[20] = 60547 /\ Ratio[21] = 57797 /\ Ratio[22] = 54491 /\ Ratio[23] = 50660
    /\ Ratio[24] = 46340 /\ Ratio[25] = 41575 /\ Ratio[26] = 36409 /\ Ratio[27] = 30893
    /\ Ratio[28] = 25079 /\ Ratio[29] = 19024 /\ Ratio[30] = 12785 /\ Ratio[31] = 6423
  BY SMT DEF Ratio, Quarter

\* The second half of the table is the first with the sign changed.
LEMMA RatioFolds ==
    ASSUME NEW j \in 0 .. 31
    PROVE  Ratio[j + 32] = - Ratio[j]
  <1>1. j \in 0 .. 63 /\ j + 32 \in 0 .. 63 /\ (j + 32) % 32 = j /\ j % 32 = j
        /\ j < 32 /\ ~ (j + 32 < 32)
    BY SMT
  <1> DEFINE half == Quarter[1 + (IF j <= 16 THEN j ELSE 32 - j)]
  <1>2. Ratio[j] = half
    BY <1>1 DEF Ratio
  <1>3. Ratio[j + 32] = - half
    BY <1>1 DEF Ratio
  <1> QED BY <1>2, <1>3

LEMMA RatioTableNegative ==
    /\ Ratio[32] = 0 /\ Ratio[33] = -6423 /\ Ratio[34] = -12785 /\ Ratio[35] = -19024
    /\ Ratio[36] = -25079 /\ Ratio[37] = -30893 /\ Ratio[38] = -36409 /\ Ratio[39] = -41575
    /\ Ratio[40] = -46340 /\ Ratio[41] = -50660 /\ Ratio[42] = -54491 /\ Ratio[43] = -57797
    /\ Ratio[44] = -60547 /\ Ratio[45] = -62714 /\ Ratio[46] = -64276 /\ Ratio[47] = -65220
    /\ Ratio[48] = -65536 /\ Ratio[49] = -65220 /\ Ratio[50] = -64276 /\ Ratio[51] = -62714
    /\ Ratio[52] = -60547 /\ Ratio[53] = -57797 /\ Ratio[54] = -54491 /\ Ratio[55] = -50660
    /\ Ratio[56] = -46340 /\ Ratio[57] = -41575 /\ Ratio[58] = -36409 /\ Ratio[59] = -30893
    /\ Ratio[60] = -25079 /\ Ratio[61] = -19024 /\ Ratio[62] = -12785 /\ Ratio[63] = -6423
  BY SMT DEF Ratio, Quarter

LEMMA RatioType == \A j \in 0 .. 31 : Ratio[j] \in Nat /\ Ratio[j] <= 65536
  BY SMT, RatioTable

LEMMA RatioTypes == \A j \in 0 .. 63 : Ratio[j] \in Int /\ - 65536 <= Ratio[j] /\ Ratio[j] <= 65536
  <1>1. ASSUME NEW j \in 0 .. 63 PROVE Ratio[j] \in Int /\ - 65536 <= Ratio[j] /\ Ratio[j] <= 65536
    <2>1. CASE j < 32
      <3>1. j \in 0 .. 31
        BY <2>1
      <3> QED BY <3>1, RatioType
    <2>2. CASE j >= 32
      <3>1. PICK h \in 0 .. 31 : j = h + 32
        <4>1. j - 32 \in 0 .. 31 /\ j = (j - 32) + 32
          BY <2>2
        <4> QED BY <4>1
      <3> QED BY <3>1, RatioFolds, RatioType
    <2> QED BY <2>1, <2>2
  <1> QED BY <1>1

\* Half a turn on, the sine changes its sign.
LEMMA HalfTurn ==
    ASSUME NEW j \in 0 .. 63
    PROVE  (j + 32) % 64 \in 0 .. 63 /\ Ratio[(j + 32) % 64] = - Ratio[j]
  <1>1. CASE j < 32
    <2>1. j \in 0 .. 31 /\ (j + 32) % 64 = j + 32 /\ (j + 32) % 64 \in 0 .. 63
      BY <1>1, SMT
    <2> QED BY <2>1, RatioFolds
  <1>2. CASE j >= 32
    <2>1. PICK h \in 0 .. 31 : j = h + 32
      <3>1. j - 32 \in 0 .. 31 /\ j = (j - 32) + 32
        BY <1>2
      <3> QED BY <3>1
    <2>2. (j + 32) % 64 = h /\ h \in 0 .. 63
      BY <2>1, SMT
    <2>3. Ratio[j] = - Ratio[h] /\ Ratio[h] \in Int
      BY <2>1, RatioFolds, RatioType
    <2> QED BY <2>2, <2>3
  <1> QED BY <1>1, <1>2

\* The product of two sines, k samples after the indexes v and c.
Product(v, c, k) == Ratio[(v + 4 * k) % 64] * Ratio[(c + 4 * k) % 64]

\* The products over half a cycle.
Products(v, c) ==
    Product(v, c, 0) + Product(v, c, 1) + Product(v, c, 2) + Product(v, c, 3)
    + Product(v, c, 4) + Product(v, c, 5) + Product(v, c, 6) + Product(v, c, 7)

\* They are four times the cosine of the difference, but for what rounding the
\* table's entries costs.
Near(v, c) ==
    LET error == Products(v, c) - 262144 * Ratio[(16 + c - v) % 64]
    IN  - 379658 <= error /\ error <= 379658

\* SMT evaluates the table for the first indexes...
LEMMA Near0 == \A c \in 0 .. 63 : Near(0, c)
  BY SMTT(120), RatioTable, RatioTableNegative DEF Near, Products, Product
LEMMA Near1 == \A c \in 0 .. 63 : Near(1, c)
  BY SMTT(120), RatioTable, RatioTableNegative DEF Near, Products, Product
LEMMA Near2 == \A c \in 0 .. 63 : Near(2, c)
  BY SMTT(120), RatioTable, RatioTableNegative DEF Near, Products, Product
LEMMA Near3 == \A c \in 0 .. 63 : Near(3, c)
  BY SMTT(120), RatioTable, RatioTableNegative DEF Near, Products, Product

Abs(n) == IF n < 0 THEN - n ELSE n

\* The sum of the sines of half a cycle, without their signs.
Sizes(v) ==
    Abs(Ratio[(v + 4 * 0) % 64]) + Abs(Ratio[(v + 4 * 1) % 64]) + Abs(Ratio[(v + 4 * 2) % 64])
    + Abs(Ratio[(v + 4 * 3) % 64]) + Abs(Ratio[(v + 4 * 4) % 64]) + Abs(Ratio[(v + 4 * 5) % 64])
    + Abs(Ratio[(v + 4 * 6) % 64]) + Abs(Ratio[(v + 4 * 7) % 64])

\* Every half cycle has the mean square of a sine, and a mean size.
LEMMA SquaresBound == \A v \in 0 .. 63 : Products(v, v) <= 17179869184
  BY SMTT(120), RatioTable, RatioTableNegative DEF Products, Product
LEMMA SizesBound == \A v \in 0 .. 63 : Sizes(v) <= 360448
  BY SMTT(120), RatioTable, RatioTableNegative DEF Sizes, Abs

\* The products over half a cycle are the same wherever in the cycle it begins.
Shifts(s) ==
    \A v, c \in 0 .. 63 :
        Near(v, c) => Near((v + s) % 64, (c + s) % 64)

LEMMA ShiftsByOne == Shifts(4)
  <1>1. ASSUME NEW v \in 0 .. 63, NEW c \in 0 .. 63
        PROVE  Products((v + 4) % 64, (c + 4) % 64) = Products(v, c)
    <2>1. Ratio[(v + 32) % 64] = - Ratio[v] /\ Ratio[(c + 32) % 64] = - Ratio[c]
          /\ Ratio[v] \in Int /\ Ratio[c] \in Int
      <3>1. Ratio[(v + 32) % 64] = - Ratio[v]
        BY HalfTurn
      <3>2. Ratio[(c + 32) % 64] = - Ratio[c]
        BY HalfTurn
      <3> QED BY <3>1, <3>2, RatioTypes
    <2>2. Ratio[(v + 32) % 64] * Ratio[(c + 32) % 64] = Ratio[v] * Ratio[c]
      <3>1. \A x, y \in Int : (- x) * (- y) = x * y
        BY SMT
      <3> QED BY <2>1, <3>1
    <2>3. /\ Product((v + 4) % 64, (c + 4) % 64, 0) = Product(v, c, 1)
          /\ Product((v + 4) % 64, (c + 4) % 64, 1) = Product(v, c, 2)
          /\ Product((v + 4) % 64, (c + 4) % 64, 2) = Product(v, c, 3)
          /\ Product((v + 4) % 64, (c + 4) % 64, 3) = Product(v, c, 4)
          /\ Product((v + 4) % 64, (c + 4) % 64, 4) = Product(v, c, 5)
          /\ Product((v + 4) % 64, (c + 4) % 64, 5) = Product(v, c, 6)
          /\ Product((v + 4) % 64, (c + 4) % 64, 6) = Product(v, c, 7)
          /\ Product((v + 4) % 64, (c + 4) % 64, 7) = Product(v, c, 0)
      <3> DEFINE Next4(w) ==
                   /\ (((w + 4) % 64) + 4 * 0) % 64 = (w + 4 * 1) % 64
                   /\ (((w + 4) % 64) + 4 * 1) % 64 = (w + 4 * 2) % 64
                   /\ (((w + 4) % 64) + 4 * 2) % 64 = (w + 4 * 3) % 64
                   /\ (((w + 4) % 64) + 4 * 3) % 64 = (w + 4 * 4) % 64
                   /\ (((w + 4) % 64) + 4 * 4) % 64 = (w + 4 * 5) % 64
                   /\ (((w + 4) % 64) + 4 * 5) % 64 = (w + 4 * 6) % 64
                   /\ (((w + 4) % 64) + 4 * 6) % 64 = (w + 4 * 7) % 64
                   /\ (((w + 4) % 64) + 4 * 7) % 64 = (w + 32) % 64
                   /\ (w + 4 * 0) % 64 = w
      <3>1. Next4(v) /\ Next4(c)
        BY SMT
      <3> QED BY <2>2, <3>1, Zenon DEF Product
    <2>4. \A k \in 0 .. 7 : Product(v, c, k) \in Int
      <3>1. ASSUME NEW k \in 0 .. 7 PROVE Product(v, c, k) \in Int
        <4>1. (v + 4 * k) % 64 \in 0 .. 63 /\ (c + 4 * k) % 64 \in 0 .. 63
          BY SMT
        <4>2. Ratio[(v + 4 * k) % 64] \in Int /\ Ratio[(c + 4 * k) % 64] \in Int
          BY <4>1, RatioTypes
        <4> QED BY <4>2, SMT DEF Product
      <3> QED BY <3>1
    <2> QED BY <2>3, <2>4, SMT DEF Products
  <1>2. ASSUME NEW v \in 0 .. 63, NEW c \in 0 .. 63
        PROVE  (16 + ((c + 4) % 64) - ((v + 4) % 64)) % 64 = (16 + c - v) % 64
    BY SMT
  <1>3. ASSUME NEW v \in 0 .. 63, NEW c \in 0 .. 63, Near(v, c)
        PROVE  Near((v + 4) % 64, (c + 4) % 64)
    BY <1>1, <1>2, <1>3, SMT DEF Near
  <1> QED BY <1>3 DEF Shifts

LEMMA ShiftsTwice ==
    ASSUME NEW s \in 0 .. 63, Shifts(s)
    PROVE  Shifts(2 * s)
  <1>1. ASSUME NEW v \in 0 .. 63
        PROVE  (v + s) % 64 \in 0 .. 63 /\ (((v + s) % 64) + s) % 64 = (v + 2 * s) % 64
    BY SMT
  <1> QED BY ZenonT(30), <1>1 DEF Shifts

\* ... and the others begin a whole number of samples later.
LEMMA AlwaysNear == \A v, c \in 0 .. 63 : Near(v, c)
  <1> DEFINE NearBelow(n) == \A v, c \in 0 .. 63 : v < n => Near(v, c)
  <1>1. NearBelow(4)
    <2>1. \A v \in 0 .. 63 : v < 4 => v = 0 \/ v = 1 \/ v = 2 \/ v = 3
      OBVIOUS
    <2> QED BY <2>1, Near0, Near1, Near2, Near3
  <1>2. Shifts(4) /\ Shifts(8) /\ Shifts(16) /\ Shifts(32)
    <2>1. Shifts(8)
      BY ShiftsByOne, ShiftsTwice, 2 * 4 = 8
    <2>2. Shifts(16)
      BY <2>1, ShiftsTwice, 2 * 8 = 16
    <2>3. Shifts(32)
      BY <2>2, ShiftsTwice, 2 * 16 = 32
    <2> QED BY <2>1, <2>2, <2>3, ShiftsByOne
  <1>3. ASSUME NEW s \in 0 .. 63, Shifts(s), NearBelow(s)
        PROVE  NearBelow(2 * s)
    <2>1. SUFFICES ASSUME NEW v \in 0 .. 63, NEW c \in 0 .. 63, v < 2 * s, ~ (v < s)
                   PROVE  Near(v, c)
      BY <1>3
    <2>2. /\ v - s \in 0 .. 63 /\ v - s < s /\ (v - s + s) % 64 = v
          /\ (c - s) % 64 \in 0 .. 63 /\ (((c - s) % 64) + s) % 64 = c
      BY <2>1, SMT
    <2>3. Near(v - s, (c - s) % 64)
      BY <1>3, <2>2
    <2>4. Near((v - s + s) % 64, (((c - s) % 64) + s) % 64)
      BY ZenonT(30), <1>3, <2>2, <2>3 DEF Shifts
    <2> QED BY <2>2, <2>4
  <1> HIDE DEF NearBelow
  <1>4. NearBelow(8)
    BY <1>1, <1>2, <1>3, 2 * 4 = 8
  <1>5. NearBelow(16)
    BY <1>4, <1>2, <1>3, 2 * 8 = 16
  <1>6. NearBelow(32)
    BY <1>5, <1>2, <1>3, 2 * 16 = 32
  <1>7. NearBelow(64)
    BY <1>6, <1>2, <1>3, 2 * 32 = 64
  <1>8. \A v \in 0 .. 63 : v < 64
    OBVIOUS
  <1> QED BY <1>7, <1>8, Zenon DEF NearBelow

-----------------------------------------------------------------------------
(* The power of the waves fits sumOfPower: no product of two entries is more*)
(* than half the sum of their squares, and the squares of a sine's samples *)
(* add up to the same wherever the cycle begins.  The two squares are scaled*)
(* so that they are equal at full amplitude.                               *)

\* Facts of arithmetic.
LEMMA ProductSize ==
    ASSUME NEW x \in Int, NEW y \in Int, NEW a \in Nat, NEW b \in Nat,
           - a <= x, x <= a, - b <= y, y <= b
    PROVE  - (a * b) <= x * y /\ x * y <= a * b
  <1>1. \A m, n \in Nat : m <= a /\ n <= b => m * n <= a * b /\ 0 <= m * n
    <2>1. ASSUME NEW m \in Nat, NEW n \in Nat, m <= a, n <= b
          PROVE  m * n <= a * b /\ 0 <= m * n
      <3>1. m * n <= a * n
        BY <2>1, SMT
      <3>2. a * n <= a * b
        BY <2>1, SMT
      <3>3. m * n \in Nat /\ a * n \in Nat /\ a * b \in Nat
        BY SMT
      <3> QED BY <3>1, <3>2, <3>3
    <2> QED BY <2>1
  <1>2. CASE x >= 0 /\ y >= 0
    BY <1>1, <1>2
  <1>3. CASE x >= 0 /\ y < 0
    <2>1. x * (- y) <= a * b /\ 0 <= x * (- y)
      BY <1>1, <1>3
    <2>2. x * (- y) = - (x * y)
      BY SMT
    <2> QED BY <2>1, <2>2
  <1>4. CASE x < 0 /\ y >= 0
    <2>1. (- x) * y <= a * b /\ 0 <= (- x) * y
      BY <1>1, <1>4
    <2>2. (- x) * y = - (x * y)
      BY SMT
    <2> QED BY <2>1, <2>2
  <1>5. CASE x < 0 /\ y < 0
    <2>1. (- x) * (- y) <= a * b /\ 0 <= (- x) * (- y)
      BY <1>1, <1>5
    <2>2. (- x) * (- y) = x * y
      BY SMT
    <2> QED BY <2>1, <2>2
  <1> QED BY <1>2, <1>3, <1>4, <1>5

LEMMA Distributed ==
    \A f, t0, t1, t2, t3, t4, t5, t6, t7 \in Int :
        f * (t0 + t1 + t2 + t3 + t4 + t5 + t6 + t7)
        = f * t0 + f * t1 + f * t2 + f * t3 + f * t4 + f * t5 + f * t6 + f * t7
  BY SMT

LEMMA TwiceTheProduct ==
    ASSUME NEW x \in Int, NEW y \in Int
    PROVE  2 * (x * y) <= x * x + y * y
  <1>1. (x - y) * (x - y) >= 0
    BY SMT
  <1>2. (x - y) * (x - y) = x * x + y * y - 2 * (x * y)
    BY SMT
  <1>3. x * x \in Int /\ y * y \in Int /\ x * y \in Int
    BY SMT
  <1> QED BY <1>1, <1>2, <1>3

\* A sine of 1, as the table has it.
Full == 65536

LEMMA FullType == Full \in Nat /\ Full > 0
  BY DEF Full

\* UpdateSineWave's product of a ratio and an amplitude.
Rounded(p, w) == (p * w) \div 65536

LEMMA RoundedIs ==
    ASSUME NEW p \in Int, NEW w \in Int
    PROVE  /\ Rounded(p, w) \in Int
           /\ Full * Rounded(p, w) <= p * w
           /\ p * w < Full * Rounded(p, w) + Full
  <1>1. \A n \in Int : /\ n \div 65536 \in Int /\ 65536 * (n \div 65536) <= n
                       /\ n < 65536 * (n \div 65536) + 65536
    BY SMT
  <1>2. p * w \in Int
    BY SMT
  <1> QED BY <1>1, <1>2, SMT DEF Rounded, Full

\* How far such a product is from 0.
LEMMA EntrySize ==
    ASSUME NEW p \in Int, NEW w \in Nat, NEW most \in Nat, w <= most
    PROVE  Full * Abs(Rounded(p, w)) <= Abs(p) * most + Full
  <1>1. Abs(p) \in Nat /\ - Abs(p) <= p /\ p <= Abs(p)
    BY DEF Abs
  <1>2. - (Abs(p) * most) <= p * w /\ p * w <= Abs(p) * most
    BY <1>1, ProductSize
  <1>3. p * w \in Int /\ Abs(p) * most \in Int
    BY <1>1
  <1> DEFINE x == Rounded(p, w)
  <1>4. x \in Int /\ Full * x <= p * w /\ p * w < Full * x + Full
    BY RoundedIs
  <1> HIDE DEF x
  <1>5. Full * (- x) = - (Full * x) /\ Full * x \in Int
    BY <1>4, FullType
  <1>6. Abs(x) = x \/ Abs(x) = - x
    BY DEF Abs
  <1>7. Full * Abs(x) <= Abs(p) * most + Full
    BY <1>2, <1>3, <1>4, <1>5, <1>6, FullType
  <1> QED BY <1>7 DEF x

\* What an entry of a table with that peak adds to the bound.
Load(p, peak) == (268378110 * Abs(p) + Full * peak) * (268378110 * Abs(p) + Full * peak)

\* Two entries' product: 2 a b is at most the sum of the squares of a and b.
LEMMA EntriesSize ==
    ASSUME NEW p \in Int, NEW w \in Nat, w <= 11583,
           NEW q \in Int, NEW u \in Nat, u <= 23170
    PROVE  536756220 * (Full * Full * Abs(Rounded(p, w) * Rounded(q, u)))
           <= Load(p, MaxCurrent) + Load(q, MaxVoltage)
  <1> DEFINE x == Rounded(p, w)
             y == Rounded(q, u)
             a == 23170 * (Full * Abs(x))
             b == 11583 * (Full * Abs(y))
             high == 268378110 * Abs(p) + Full * 23170
             low == 268378110 * Abs(q) + Full * 11583
  <1>1. x \in Int /\ Full * Abs(x) <= Abs(p) * 11583 + Full
    BY RoundedIs, EntrySize
  <1>2. y \in Int /\ Full * Abs(y) <= Abs(q) * 23170 + Full
    BY RoundedIs, EntrySize
  <1> HIDE DEF x, y
  <1>3. Abs(x) \in Nat /\ Abs(y) \in Nat /\ Abs(p) \in Nat /\ Abs(q) \in Nat
    BY <1>1, <1>2 DEF Abs
  <1>4. Full * Abs(x) \in Nat /\ Full * Abs(y) \in Nat
    BY <1>3, FullType
  <1>5. a \in Nat /\ b \in Nat /\ high \in Nat /\ low \in Nat /\ a <= high /\ b <= low
    BY <1>1, <1>2, <1>3, <1>4, FullType
  <1>6. a * b = 268378110 * (Full * Full * (Abs(x) * Abs(y)))
    <2>1. \A m, n, f \in Nat : (23170 * (f * m)) * (11583 * (f * n)) = 268378110 * (f * f * (m * n))
      BY SMT
    <2> QED BY <1>3, <2>1, FullType
  <1>7. Abs(x * y) = Abs(x) * Abs(y) /\ x * y \in Int
    <2>1. \A m, n \in Int : (- m) * n = - (m * n) /\ m * (- n) = - (m * n) /\ (- m) * (- n) = m * n
      BY SMT
    <2>2. Abs(x) * Abs(y) \in Nat
      BY <1>3, SMT
    <2>3. Abs(x) * Abs(y) = x * y \/ Abs(x) * Abs(y) = - (x * y)
      BY <1>1, <1>2, <2>1 DEF Abs
    <2>4. x * y \in Int
      BY <1>1, <1>2, SMT
    <2> QED BY <2>2, <2>3, <2>4 DEF Abs
  <1> HIDE DEF a, b, high, low
  <1>8. a * b <= high * low
    BY <1>5, ProductSize
  <1>9. 2 * (high * low) <= high * high + low * low
    BY <1>5, TwiceTheProduct
  <1>10. high * high = Load(p, MaxCurrent) /\ low * low = Load(q, MaxVoltage)
    BY DEF Load, high, low, MaxCurrent, MaxVoltage
  <1>11. /\ a * b \in Int /\ high * low \in Int /\ high * high \in Int /\ low * low \in Int
         /\ Full * Full * (Abs(x) * Abs(y)) \in Int
    BY <1>3, <1>5, FullType
  <1>12. 536756220 * (Full * Full * (Abs(x) * Abs(y))) = 2 * (a * b)
    BY <1>6, <1>11
  <1>13. 536756220 * (Full * Full * Abs(x * y)) <= Load(p, MaxCurrent) + Load(q, MaxVoltage)
    BY <1>7, <1>8, <1>9, <1>10, <1>11, <1>12
  <1> QED BY <1>13 DEF x, y

Term(k) == (Entry("voltage", (NbV + 4 * k) % 64) * Entry("current", (NbC + 4 * k) % 64)) \div 16

\* What the recursion of CyclePower comes to.
LEMMA SumOf16 ==
    ASSUME \A k \in 0 .. 15 : Term(k) \in Int
    PROVE  CyclePower =
              Term(0) + Term(1) + Term(2) + Term(3) + Term(4) + Term(5) + Term(6) + Term(7)
              + Term(8) + Term(9) + Term(10) + Term(11) + Term(12) + Term(13) + Term(14) + Term(15)
  <1> DEFINE Sums(f) == [k \in 0 .. 15 |-> Term(k) + IF k = 0 THEN 0 ELSE f[k - 1]]
             sum == CHOOSE f : f = Sums(f)
  <1>1. CyclePower = sum[15]
    BY Zenon DEF CyclePower, Term
  <1>2. sum = Sums(sum)
    <2> DEFINE S0 == Term(0)
               S1 == S0 + Term(1)
               S2 == S1 + Term(2)
               S3 == S2 + Term(3)
               S4 == S3 + Term(4)
               S5 == S4 + Term(5)
               S6 == S5 + Term(6)
               S7 == S6 + Term(7)
               S8 == S7 + Term(8)
               S9 == S8 + Term(9)
               S10 == S9 + Term(10)
               S11 == S10 + Term(11)
               S12 == S11 + Term(12)
               S13 == S12 + Term(13)
               S14 == S13 + Term(14)
               S15 == S14 + Term(15)
               g == [k \in 0 .. 15 |->
                     <<S0, S1, S2, S3, S4, S5, S6, S7, S8, S9, S10, S11, S12, S13, S14, S15>>[k + 1]]
    <2>1. /\ S0 = Term(0) + 0
          /\ S1 = Term(1) + S0 /\ S2 = Term(2) + S1 /\ S3 = Term(3) + S2
          /\ S4 = Term(4) + S3 /\ S5 = Term(5) + S4 /\ S6 = Term(6) + S5
          /\ S7 = Term(7) + S6 /\ S8 = Term(8) + S7 /\ S9 = Term(9) + S8
          /\ S10 = Term(10) + S9 /\ S11 = Term(11) + S10 /\ S12 = Term(12) + S11
          /\ S13 = Term(13) + S12 /\ S14 = Term(14) + S13 /\ S15 = Term(15) + S14
      OBVIOUS
    <2> HIDE DEF S0, S1, S2, S3, S4, S5, S6, S7, S8, S9, S10, S11, S12, S13, S14, S15
    <2>2. /\ g[0] = S0 /\ g[1] = S1 /\ g[2] = S2 /\ g[3] = S3 /\ g[4] = S4 /\ g[5] = S5
          /\ g[6] = S6 /\ g[7] = S7 /\ g[8] = S8 /\ g[9] = S9 /\ g[10] = S10 /\ g[11] = S11
          /\ g[12] = S12 /\ g[13] = S13 /\ g[14] = S14 /\ g[15] = S15
      BY SMT
    <2>3. g = [k \in 0 .. 15 |-> g[k]]
      BY Zenon
    <2> HIDE DEF g
    <2>4. \A k \in 0 .. 15 : Term(k) + (IF k = 0 THEN 0 ELSE g[k - 1]) = g[k]
      BY <2>1, <2>2, SMTT(30)
    <2>5. g = Sums(g)
      BY <2>3, <2>4
    <2> QED BY <2>5, Zenon
  <1> HIDE DEF sum
  <1>3. /\ sum[0] = Term(0)
        /\ sum[1] = Term(1) + sum[0] /\ sum[2] = Term(2) + sum[1]
        /\ sum[3] = Term(3) + sum[2] /\ sum[4] = Term(4) + sum[3]
        /\ sum[5] = Term(5) + sum[4] /\ sum[6] = Term(6) + sum[5]
        /\ sum[7] = Term(7) + sum[6] /\ sum[8] = Term(8) + sum[7]
        /\ sum[9] = Term(9) + sum[8] /\ sum[10] = Term(10) + sum[9]
        /\ sum[11] = Term(11) + sum[10] /\ sum[12] = Term(12) + sum[11]
        /\ sum[13] = Term(13) + sum[12] /\ sum[14] = Term(14) + sum[13]
        /\ sum[15] = Term(15) + sum[14]
    BY <1>2
  <1> QED BY <1>1, <1>3, SMT

LEMMA LoadIs ==
    ASSUME NEW p \in Int, NEW peak \in Nat
    PROVE  /\ Abs(p) \in Nat /\ p * p \in Int /\ Load(p, peak) \in Int
           /\ Load(p, peak) = 72026809927172100 * (p * p)
                              + 536756220 * (Full * (peak * Abs(p))) + Full * Full * (peak * peak)
  <1>1. Abs(p) \in Nat
    BY DEF Abs
  <1>2. Abs(p) * Abs(p) = p * p
    <2>1. (- p) * (- p) = p * p
      BY SMT
    <2> QED BY <2>1 DEF Abs
  <1>3. \A m, n, f \in Nat : (268378110 * m + f * n) * (268378110 * m + f * n)
            = 72026809927172100 * (m * m) + 536756220 * (f * (n * m)) + f * f * (n * n)
    BY SMT
  <1>4. Load(p, peak) = 72026809927172100 * (Abs(p) * Abs(p))
                        + 536756220 * (Full * (peak * Abs(p))) + Full * Full * (peak * peak)
    BY <1>1, <1>3, FullType DEF Load
  <1>5. p * p \in Int /\ Full * (peak * Abs(p)) \in Int /\ Full * Full * (peak * peak) \in Int
    BY <1>1, FullType
  <1> QED BY <1>1, <1>2, <1>4, <1>5

\* The loads of the entries that OutputThread reads in half a cycle.
Loads(v, peak) ==
    Load(Ratio[(v + 4 * 0) % 64], peak) + Load(Ratio[(v + 4 * 1) % 64], peak)
    + Load(Ratio[(v + 4 * 2) % 64], peak) + Load(Ratio[(v + 4 * 3) % 64], peak)
    + Load(Ratio[(v + 4 * 4) % 64], peak) + Load(Ratio[(v + 4 * 5) % 64], peak)
    + Load(Ratio[(v + 4 * 6) % 64], peak) + Load(Ratio[(v + 4 * 7) % 64], peak)

LEMMA LoadsBound ==
    ASSUME NEW v \in 0 .. 63, NEW peak \in Nat
    PROVE  Loads(v, peak)
           <= Full * Full * (288107239708688400 + 2952159210 * peak + 8 * (peak * peak))
  <1> DEFINE r(k) == Ratio[(v + 4 * k) % 64]
  <1>1. \A k \in 0 .. 7 : r(k) \in Int
    <2>1. \A k \in 0 .. 7 : (v + 4 * k) % 64 \in 0 .. 63
      BY SMT
    <2> QED BY SMTT(30), <2>1, RatioTypes
  <1> DEFINE sizes == Abs(r(0)) + Abs(r(1)) + Abs(r(2)) + Abs(r(3)) + Abs(r(4)) + Abs(r(5))
                      + Abs(r(6)) + Abs(r(7))
             squares == r(0) * r(0) + r(1) * r(1) + r(2) * r(2) + r(3) * r(3) + r(4) * r(4)
                        + r(5) * r(5) + r(6) * r(6) + r(7) * r(7)
  <1>2. squares <= 4 * (Full * Full)
    <2>1. Products(v, v) <= 17179869184
      BY SquaresBound
    <2>2. Products(v, v) = squares
      BY SMT DEF Products, Product
    <2>3. 4 * (Full * Full) = 17179869184
      BY SMT DEF Full
    <2> QED BY <2>1, <2>2, <2>3
  <1>3. 2 * sizes <= 11 * Full
    <2>1. Sizes(v) <= 360448
      BY SizesBound
    <2>2. Sizes(v) = sizes
      BY SMT DEF Sizes
    <2>3. 11 * Full = 2 * 360448
      BY SMT DEF Full
    <2>4. sizes \in Int
      <3>1. \A k \in 0 .. 7 : Abs(r(k)) \in Int
        BY <1>1 DEF Abs
      <3> HIDE DEF r
      <3> QED BY <3>1
    <2> HIDE DEF sizes
    <2> QED BY <2>1, <2>2, <2>3, <2>4, FullType
  <1>4. Loads(v, peak) = Load(r(0), peak) + Load(r(1), peak) + Load(r(2), peak) + Load(r(3), peak)
                         + Load(r(4), peak) + Load(r(5), peak) + Load(r(6), peak) + Load(r(7), peak)
    BY DEF Loads
  <1>5. r(0) \in Int /\ r(1) \in Int /\ r(2) \in Int /\ r(3) \in Int /\ r(4) \in Int
        /\ r(5) \in Int /\ r(6) \in Int /\ r(7) \in Int
    BY <1>1
  <1> HIDE DEF r
  <1>6. Abs(r(0)) \in Nat /\ Abs(r(1)) \in Nat /\ Abs(r(2)) \in Nat /\ Abs(r(3)) \in Nat
        /\ Abs(r(4)) \in Nat /\ Abs(r(5)) \in Nat /\ Abs(r(6)) \in Nat /\ Abs(r(7)) \in Nat
    BY <1>5, LoadIs
  <1>7. sizes \in Nat /\ squares \in Int
    BY <1>5, <1>6, SMT
  <1>8. peak * sizes = peak * Abs(r(0)) + peak * Abs(r(1)) + peak * Abs(r(2)) + peak * Abs(r(3))
                       + peak * Abs(r(4)) + peak * Abs(r(5)) + peak * Abs(r(6)) + peak * Abs(r(7))
    BY <1>6, SMT
  <1> DEFINE term(k) == peak * Abs(r(k))
  <1>9. Full * (peak * sizes) = Full * term(0) + Full * term(1) + Full * term(2) + Full * term(3)
                                + Full * term(4) + Full * term(5) + Full * term(6) + Full * term(7)
    <2>1. term(0) \in Int /\ term(1) \in Int /\ term(2) \in Int /\ term(3) \in Int
          /\ term(4) \in Int /\ term(5) \in Int /\ term(6) \in Int /\ term(7) \in Int
      BY <1>6
    <2>2. peak * sizes = term(0) + term(1) + term(2) + term(3) + term(4) + term(5) + term(6) + term(7)
      BY <1>8
    <2> HIDE DEF term, sizes
    <2> QED BY <2>1, <2>2, FullType, SMT
  <1>10. Loads(v, peak) = 72026809927172100 * squares
                         + 536756220 * (Full * (peak * sizes)) + 8 * (Full * Full * (peak * peak))
    <2> DEFINE L(k) == 72026809927172100 * (r(k) * r(k))
                       + 536756220 * (Full * (peak * Abs(r(k)))) + Full * Full * (peak * peak)
    <2>1. Load(r(0), peak) = L(0) /\ Load(r(1), peak) = L(1) /\ Load(r(2), peak) = L(2)
          /\ Load(r(3), peak) = L(3) /\ Load(r(4), peak) = L(4) /\ Load(r(5), peak) = L(5)
          /\ Load(r(6), peak) = L(6) /\ Load(r(7), peak) = L(7)
      <3>1. \A p \in Int : Load(p, peak) = 72026809927172100 * (p * p)
                              + 536756220 * (Full * (peak * Abs(p))) + Full * Full * (peak * peak)
        BY LoadIs
      <3> QED BY <1>5, <3>1
    <2>2. r(0) * r(0) \in Int /\ r(1) * r(1) \in Int /\ r(2) * r(2) \in Int /\ r(3) * r(3) \in Int
          /\ r(4) * r(4) \in Int /\ r(5) * r(5) \in Int /\ r(6) * r(6) \in Int /\ r(7) * r(7) \in Int
      BY <1>5
    <2>3. Full * term(0) \in Int /\ Full * term(1) \in Int /\ Full * term(2) \in Int
          /\ Full * term(3) \in Int /\ Full * term(4) \in Int /\ Full * term(5) \in Int
          /\ Full * term(6) \in Int /\ Full * term(7) \in Int /\ Full * Full * (peak * peak) \in Int
      BY <1>6, FullType
    <2> QED BY <1>4, <1>9, <2>1, <2>2, <2>3
  <1> HIDE DEF sizes, squares
  <1>11. 72026809927172100 * squares <= 288107239708688400 * (Full * Full)
    BY <1>2, <1>7, FullType
  <1>12. 2 * (Full * (peak * sizes)) <= 11 * (Full * Full * peak)
    <2>1. \A m, n, f \in Nat : 2 * m <= 11 * f => 2 * (n * m) <= 11 * (n * f)
      BY SMT
    <2>2. 2 * (peak * sizes) <= 11 * (peak * Full)
      BY <1>3, <1>7, <2>1, FullType
    <2>3. peak * sizes \in Nat /\ peak * Full \in Nat
      BY <1>7, FullType
    <2>4. \A m, n, f \in Nat : 2 * m <= 11 * n => 2 * (f * m) <= 11 * (f * n)
      BY SMT
    <2>5. 2 * (Full * (peak * sizes)) <= 11 * (Full * (peak * Full))
      BY <2>2, <2>3, <2>4, FullType
    <2>6. Full * (peak * Full) = Full * Full * peak
      BY FullType, SMT
    <2> QED BY <2>5, <2>6
  <1>13. Full * (peak * sizes) \in Int /\ peak * peak \in Int /\ Full * Full * peak \in Int
         /\ Full * Full \in Int /\ Full * Full * (peak * peak) \in Int
    BY <1>7, FullType
  <1>14. Full * Full * (288107239708688400 + 2952159210 * peak + 8 * (peak * peak))
         = 288107239708688400 * (Full * Full) + 2952159210 * (Full * Full * peak)
           + 8 * (Full * Full * (peak * peak))
    <2>1. \A f \in Int : f * (288107239708688400 + 2952159210 * peak + 8 * (peak * peak))
              = 288107239708688400 * f + 2952159210 * (f * peak) + 8 * (f * (peak * peak))
      BY SMT
    <2> QED BY <1>13, <2>1
  <1> QED BY <1>7, <1>10, <1>11, <1>12, <1>13, <1>14

\* The loads of the k-th products.
LoadAt(v, k, peak) == Load(Ratio[(v + 4 * k) % 64], peak)

TermLoad(k) == LoadAt(NbV, k, MaxCurrent) + LoadAt(NbC, k, MaxVoltage)

\* A product of two entries as CalcThread adds it.
LEMMA TermSize ==
    ASSUME Types, WaveTypes, NEW k \in 0 .. 15
    PROVE  /\ Term(k) \in Int /\ TermLoad(k) \in Int
           /\ 536756220 * (Full * Full * (16 * Term(k))) <= TermLoad(k)
           /\ - TermLoad(k) <= 536756220 * (Full * Full * (16 * Term(k) + 16))
  <1> DEFINE v == (NbV + 4 * k) % 64
             c == (NbC + 4 * k) % 64
             p == Ratio[v]
             q == Ratio[c]
             w == SineWave["voltage"][v \div 4]
             u == SineWave["current"][c \div 4]
             z == Rounded(p, w) * Rounded(q, u)
  <1>1. NbV \in 0 .. 63 /\ NbC \in 0 .. 63
    BY DEF Types
  <1>2. v \in 0 .. 63 /\ c \in 0 .. 63 /\ v \div 4 \in 0 .. 15 /\ c \div 4 \in 0 .. 15
    BY <1>1, SMT
  <1>3. Term(k) = z \div 16
    BY SMT DEF Term, Entry, Rounded
  <1>4. p \in Int /\ q \in Int
    BY <1>2, RatioTypes
  <1>5. w \in Nat /\ w <= 11583 /\ u \in Nat /\ u <= 23170
    <2>1. MaxVoltage = 11583 /\ MaxCurrent = 23170 /\ MinVoltage = 9266 /\ MinCurrent = 0
      BY DEF MinVoltage, MaxVoltage, MinCurrent, MaxCurrent
    <2>2. w \in MinVoltage .. MaxVoltage /\ u \in MinCurrent .. MaxCurrent
      BY <1>2 DEF WaveTypes
    <2>3. w \in Int /\ MinVoltage <= w /\ w <= MaxVoltage /\ u \in Int /\ MinCurrent <= u /\ u <= MaxCurrent
      BY <2>2, Limits
    <2> HIDE DEF w, u
    <2> QED BY <2>1, <2>3
  <1>6. TermLoad(k) = Load(p, MaxCurrent) + Load(q, MaxVoltage)
    BY DEF TermLoad, LoadAt
  <1> HIDE DEF v, c, p, q, w, u
  <1>7. 536756220 * (Full * Full * Abs(z)) <= TermLoad(k)
    BY <1>4, <1>5, <1>6, EntriesSize
  <1>8. z \in Int
    <2>1. Rounded(p, w) \in Int
      BY <1>4, <1>5, RoundedIs
    <2>2. Rounded(q, u) \in Int
      BY <1>4, <1>5, RoundedIs
    <2> QED BY <2>1, <2>2, SMT
  <1> HIDE DEF z
  <1>9. \A n \in Int : n \div 16 \in Int /\ 16 * (n \div 16) <= n /\ n < 16 * (n \div 16) + 16
    BY SMT
  <1>10. TermLoad(k) \in Int
    <2>1. MaxCurrent \in Nat /\ MaxVoltage \in Nat
      BY DEF MaxCurrent, MaxVoltage
    <2>2. Load(p, MaxCurrent) \in Int /\ Load(q, MaxVoltage) \in Int
      BY <1>4, <2>1, LoadIs
    <2> QED BY <1>6, <2>2
  <1>11. Term(k) \in Int /\ 16 * Term(k) <= Abs(z) /\ - Abs(z) <= 16 * Term(k) + 16 /\ Abs(z) \in Nat
    BY <1>3, <1>8, <1>9 DEF Abs
  <1>12. Full * Full \in Nat
    BY FullType
  <1>13. \A f \in Nat, m \in Nat, n \in Int :
            (n <= m => f * n <= f * m) /\ (- m <= n => - (f * m) <= f * n) /\ f * n \in Int /\ f * m \in Int
    BY SMT
  <1>14. /\ Full * Full * (16 * Term(k)) <= Full * Full * Abs(z)
         /\ - (Full * Full * Abs(z)) <= Full * Full * (16 * Term(k) + 16)
         /\ Full * Full * (16 * Term(k)) \in Int /\ Full * Full * Abs(z) \in Int
         /\ Full * Full * (16 * Term(k) + 16) \in Int
    <2>1. 16 * Term(k) \in Int /\ 16 * Term(k) + 16 \in Int
      BY <1>11
    <2> QED BY <1>11, <1>12, <1>13, <2>1
  <1> QED BY <1>7, <1>10, <1>11, <1>14

\* Half a turn later the loads are the same.
LEMMA SameLoad ==
    ASSUME Types, NEW k \in 0 .. 7
    PROVE  TermLoad(k + 8) = TermLoad(k)
  <1>1. ASSUME NEW v \in 0 .. 63, NEW peak \in Nat
        PROVE  LoadAt(v, k + 8, peak) = LoadAt(v, k, peak)
    <2> DEFINE j == (v + 4 * k) % 64
    <2>1. j \in 0 .. 63 /\ (v + 4 * (k + 8)) % 64 = (j + 32) % 64
      BY SMT
    <2> HIDE DEF j
    <2>2. Ratio[(j + 32) % 64] = - Ratio[j] /\ Ratio[j] \in Int
      <3>1. Ratio[(j + 32) % 64] = - Ratio[j]
        BY <2>1, HalfTurn
      <3> QED BY <2>1, <3>1, RatioTypes
    <2>3. Abs(Ratio[(j + 32) % 64]) = Abs(Ratio[j])
      BY <2>2 DEF Abs
    <2> QED BY <2>1, <2>3 DEF Load, LoadAt, j
  <1>2. NbV \in 0 .. 63 /\ NbC \in 0 .. 63
    BY DEF Types
  <1>5. MaxCurrent \in Nat /\ MaxVoltage \in Nat
    BY DEF MaxCurrent, MaxVoltage
  <1>3. LoadAt(NbV, k + 8, MaxCurrent) = LoadAt(NbV, k, MaxCurrent)
    BY <1>1, <1>2, <1>5
  <1>4. LoadAt(NbC, k + 8, MaxVoltage) = LoadAt(NbC, k, MaxVoltage)
    BY <1>1, <1>2, <1>5
  <1> QED BY <1>3, <1>4 DEF TermLoad

LEMMA Peaks == MaxCurrent \in Nat /\ MaxVoltage \in Nat
  BY DEF MaxCurrent, MaxVoltage

LEMMA LoadAtType ==
    ASSUME NEW v \in 0 .. 63, NEW k \in 0 .. 7, NEW peak \in Nat
    PROVE  LoadAt(v, k, peak) \in Int
  <1>1. (v + 4 * k) % 64 \in 0 .. 63
    BY SMT
  <1>2. Ratio[(v + 4 * k) % 64] \in Int
    BY <1>1, RatioTypes
  <1> DEFINE p == Ratio[(v + 4 * k) % 64]
  <1> HIDE DEF p
  <1>3. p \in Int
    BY <1>2 DEF p
  <1>4. Load(p, peak) \in Int
    BY <1>3, LoadIs
  <1> QED BY <1>4, Zenon DEF LoadAt, p

LEMMA LoadsAt ==
    ASSUME NEW v \in 0 .. 63, NEW peak \in Nat
    PROVE  /\ Loads(v, peak) = LoadAt(v, 0, peak) + LoadAt(v, 1, peak) + LoadAt(v, 2, peak)
                               + LoadAt(v, 3, peak) + LoadAt(v, 4, peak) + LoadAt(v, 5, peak)
                               + LoadAt(v, 6, peak) + LoadAt(v, 7, peak)
           /\ Loads(v, peak) \in Int
  <1>1. Loads(v, peak) = LoadAt(v, 0, peak) + LoadAt(v, 1, peak) + LoadAt(v, 2, peak)
                         + LoadAt(v, 3, peak) + LoadAt(v, 4, peak) + LoadAt(v, 5, peak)
                         + LoadAt(v, 6, peak) + LoadAt(v, 7, peak)
    BY DEF Loads, LoadAt
  <1>2. \A k \in 0 .. 7 : LoadAt(v, k, peak) \in Int
    BY LoadAtType, Zenon
  <1> QED BY <1>1, <1>2

\* Whatever the tables hold, also two amplitudes each, a cycle's sum fits.
LEMMA CycleFits ==
    ASSUME Types, WaveTypes
    PROVE  /\ \A k \in 0 .. 15 : Term(k) \in Int
           /\ CyclePower \in Int
           /\ - 134217727 <= CyclePower /\ CyclePower <= 134217711
  <1> DEFINE unit == Full * Full
             a(k) == unit * (16 * Term(k))
             most == Loads(NbV, MaxCurrent) + Loads(NbC, MaxVoltage)
  <1>1. unit \in Nat /\ unit > 0
    BY FullType
  <1> HIDE DEF unit
  <1>2. \A k \in 0 .. 15 : /\ Term(k) \in Int /\ TermLoad(k) \in Int /\ a(k) \in Int
                          /\ 536756220 * a(k) <= TermLoad(k)
                          /\ - TermLoad(k) <= 536756220 * (a(k) + 16 * unit)
    <2>1. ASSUME NEW k \in 0 .. 15
          PROVE  /\ Term(k) \in Int /\ TermLoad(k) \in Int /\ a(k) \in Int
                 /\ 536756220 * a(k) <= TermLoad(k)
                 /\ - TermLoad(k) <= 536756220 * (a(k) + 16 * unit)
      <3>1. /\ Term(k) \in Int /\ TermLoad(k) \in Int
            /\ 536756220 * (unit * (16 * Term(k))) <= TermLoad(k)
            /\ - TermLoad(k) <= 536756220 * (unit * (16 * Term(k) + 16))
        BY TermSize DEF unit
      <3>2. unit * (16 * Term(k) + 16) = a(k) + 16 * unit /\ a(k) \in Int
        BY <1>1, <3>1, SMT
      <3> QED BY <3>1, <3>2
    <2> QED BY <2>1
  <1>3. \A k \in 0 .. 7 : TermLoad(k + 8) = TermLoad(k)
    BY SameLoad
  <1>4. /\ most = TermLoad(0) + TermLoad(1) + TermLoad(2) + TermLoad(3) + TermLoad(4)
                  + TermLoad(5) + TermLoad(6) + TermLoad(7)
    <2>1. NbV \in 0 .. 63 /\ NbC \in 0 .. 63
      BY DEF Types
    <2>2. Loads(NbV, MaxCurrent) =
            LoadAt(NbV, 0, MaxCurrent) + LoadAt(NbV, 1, MaxCurrent) + LoadAt(NbV, 2, MaxCurrent)
            + LoadAt(NbV, 3, MaxCurrent) + LoadAt(NbV, 4, MaxCurrent) + LoadAt(NbV, 5, MaxCurrent)
            + LoadAt(NbV, 6, MaxCurrent) + LoadAt(NbV, 7, MaxCurrent)
      BY <2>1, Peaks, LoadsAt, Zenon
    <2>3. Loads(NbC, MaxVoltage) =
            LoadAt(NbC, 0, MaxVoltage) + LoadAt(NbC, 1, MaxVoltage) + LoadAt(NbC, 2, MaxVoltage)
            + LoadAt(NbC, 3, MaxVoltage) + LoadAt(NbC, 4, MaxVoltage) + LoadAt(NbC, 5, MaxVoltage)
            + LoadAt(NbC, 6, MaxVoltage) + LoadAt(NbC, 7, MaxVoltage)
      BY <2>1, Peaks, LoadsAt, Zenon
    <2>4. \A k \in 0 .. 7 : LoadAt(NbV, k, MaxCurrent) \in Int
      BY <2>1, Peaks, LoadAtType, Zenon
    <2>5. \A k \in 0 .. 7 : LoadAt(NbC, k, MaxVoltage) \in Int
      BY <2>1, Peaks, LoadAtType, Zenon
    <2> QED BY <2>2, <2>3, <2>4, <2>5 DEF TermLoad
  <1>5. most <= unit * 576317081174520242 /\ most \in Int
    <2>1. NbV \in 0 .. 63 /\ NbC \in 0 .. 63
      BY DEF Types
    <2>2. Loads(NbV, MaxCurrent) <= unit * 288175645532375300
      <3>1. Loads(NbV, MaxCurrent)
            <= unit * (288107239708688400 + 2952159210 * 23170 + 8 * (23170 * 23170))
        BY <2>1, LoadsBound DEF unit, MaxCurrent, MaxVoltage
      <3>2. 288107239708688400 + 2952159210 * 23170 + 8 * (23170 * 23170) = 288175645532375300
        BY SMT
      <3> QED BY <3>1, <3>2
    <2>3. Loads(NbC, MaxVoltage) <= unit * 288141435642144942
      <3>1. Loads(NbC, MaxVoltage)
            <= unit * (288107239708688400 + 2952159210 * 11583 + 8 * (11583 * 11583))
        BY <2>1, LoadsBound DEF unit, MaxCurrent, MaxVoltage
      <3>2. 288107239708688400 + 2952159210 * 11583 + 8 * (11583 * 11583) = 288141435642144942
        BY SMT
      <3> QED BY <3>1, <3>2
    <2>4. Loads(NbV, MaxCurrent) \in Int /\ Loads(NbC, MaxVoltage) \in Int
      BY <2>1, Peaks, LoadsAt, Zenon
    <2> QED BY <1>1, <2>2, <2>3, <2>4
  <1> DEFINE S == Term(0) + Term(1) + Term(2) + Term(3) + Term(4) + Term(5) + Term(6) + Term(7)
                  + Term(8) + Term(9) + Term(10) + Term(11) + Term(12) + Term(13) + Term(14) + Term(15)
             A == a(0) + a(1) + a(2) + a(3) + a(4) + a(5) + a(6) + a(7)
                  + a(8) + a(9) + a(10) + a(11) + a(12) + a(13) + a(14) + a(15)
  <1>6. CyclePower = S /\ S \in Int
    BY <1>2, SumOf16
  <1>7. A = unit * (16 * S) /\ A \in Int
    <2>1. \A k \in 0 .. 15 : a(k) = 16 * (unit * Term(k)) /\ unit * Term(k) \in Int
      <3>1. \A n \in Int : unit * (16 * n) = 16 * (unit * n) /\ unit * n \in Int
        BY <1>1, SMT
      <3> QED BY <1>2, <3>1
    <2> DEFINE b(k) == unit * Term(k)
               B == b(0) + b(1) + b(2) + b(3) + b(4) + b(5) + b(6) + b(7)
                    + b(8) + b(9) + b(10) + b(11) + b(12) + b(13) + b(14) + b(15)
    <2>2. A = 16 * B /\ B \in Int
      BY <2>1
    <2>3. unit * S = B
      <3>1. \A k \in 0 .. 15 : Term(k) \in Int
        BY <1>2
      <3>2. \A f \in Nat : \A t0, t1, t2, t3, t4, t5, t6, t7 \in Int :
                f * (t0 + t1 + t2 + t3 + t4 + t5 + t6 + t7)
                = f * t0 + f * t1 + f * t2 + f * t3 + f * t4 + f * t5 + f * t6 + f * t7
        BY SMT
      <3> DEFINE first == Term(0) + Term(1) + Term(2) + Term(3) + Term(4) + Term(5) + Term(6) + Term(7)
                 second == Term(8) + Term(9) + Term(10) + Term(11) + Term(12) + Term(13) + Term(14) + Term(15)
      <3>3. unit * first = b(0) + b(1) + b(2) + b(3) + b(4) + b(5) + b(6) + b(7)
        BY <1>1, <3>1, <3>2
      <3>4. unit * second = b(8) + b(9) + b(10) + b(11) + b(12) + b(13) + b(14) + b(15)
        BY <1>1, <3>1, <3>2
      <3>5. S = first + second /\ first \in Int /\ second \in Int
        BY <3>1
      <3>6. B = (b(0) + b(1) + b(2) + b(3) + b(4) + b(5) + b(6) + b(7))
                + (b(8) + b(9) + b(10) + b(11) + b(12) + b(13) + b(14) + b(15))
        BY <2>1
      <3> HIDE DEF first, second, b, S, B
      <3>7. unit * (first + second) = unit * first + unit * second
        BY <1>1, <3>5, SMT
      <3> QED BY <3>3, <3>4, <3>5, <3>6, <3>7
    <2> HIDE DEF B, S, A
    <2>4. unit * (16 * S) = 16 * (unit * S)
      BY <1>1, <1>6, SMT
    <2> QED BY <2>2, <2>3, <2>4
  <1>8. 536756220 * A <= 2 * most /\ - (2 * most) <= 536756220 * (A + 256 * unit)
    <2>1. \A k \in 0 .. 7 : /\ TermLoad(k) \in Int
                            /\ a(k) \in Int /\ a(k + 8) \in Int
                            /\ 536756220 * (a(k) + a(k + 8)) <= 2 * TermLoad(k)
                            /\ - (2 * TermLoad(k)) <= 536756220 * (a(k) + a(k + 8) + 32 * unit)
      <3>1. \A k \in 0 .. 7 : k \in 0 .. 15 /\ k + 8 \in 0 .. 15
        OBVIOUS
      <3> HIDE DEF a
      <3> QED BY <1>1, <1>2, <1>3, <3>1
    <2> DEFINE b(k) == a(k) + a(k + 8)
    <2>2. A = b(0) + b(1) + b(2) + b(3) + b(4) + b(5) + b(6) + b(7)
      <3>1. \A k \in 0 .. 15 : a(k) \in Int
        BY <1>2
      <3> HIDE DEF a
      <3> QED BY <3>1
    <2>3. \A k \in 0 .. 7 : /\ TermLoad(k) \in Int /\ b(k) \in Int
                            /\ 536756220 * b(k) <= 2 * TermLoad(k)
                            /\ - (2 * TermLoad(k)) <= 536756220 * (b(k) + 32 * unit)
      BY <2>1
    <2> HIDE DEF b, A, a, most
    <2> QED BY <1>1, <1>4, <2>2, <2>3
  <1> HIDE DEF S, A, most
  <1>9. 536756220 * (unit * (16 * S)) <= unit * 1152634162349040484
    BY <1>1, <1>5, <1>6, <1>7, <1>8
  <1>10. - (unit * 1152634162349040484) <= 536756220 * (unit * (16 * S + 256))
    <2>1. unit * (16 * S + 256) = A + 256 * unit
      BY <1>1, <1>6, <1>7, SMT
    <2> QED BY <1>1, <1>5, <1>6, <1>7, <1>8, <2>1
  <1>11. /\ 8588099520 * S <= 1152634162349040484
         /\ - 1152634162349040484 <= 8588099520 * S + 137409592320
    <2>1. \A m, n \in Int : unit * m <= unit * n => m <= n
      BY <1>1, SMT
    <2>2. 536756220 * (unit * (16 * S)) = unit * (8588099520 * S)
      BY <1>1, <1>6, SMT
    <2>3. 536756220 * (unit * (16 * S + 256)) = unit * (8588099520 * S + 137409592320)
      BY <1>1, <1>6, SMT
    <2>4. - (unit * 1152634162349040484) = unit * (- 1152634162349040484)
      BY <1>1, SMT
    <2>5. 8588099520 * S \in Int
      BY <1>6
    <2> QED BY <1>9, <1>10, <2>1, <2>2, <2>3, <2>4, <2>5
  <1> QED BY <1>2, <1>6, <1>11

-----------------------------------------------------------------------------
(* The power of whole tables: samples half a cycle apart round opposite ways*)

\* What is rounded off.
Off(p, a) == p * a - Full * Rounded(p, a)

\* A product of a sine and its opposite's, each rounded down: what is rounded off on
\* one side is rounded up on the other.
LEMMA Opposite ==
    ASSUME NEW p \in Int, NEW a \in Int
    PROVE  LET r == Off(p, a)
               s == Off(- p, a)
           IN  /\ r \in Nat /\ s \in Nat /\ r < Full /\ s < Full
               /\ (r = 0 /\ s = 0) \/ r + s = Full
  <1> DEFINE u == p * a
             x == Rounded(p, a)
             y == Rounded(- p, a)
             r == u - Full * x
             s == (- u) - Full * y
  <1>1. x \in Int /\ Full * x <= u /\ u < Full * x + Full
    BY RoundedIs
  <1>2. y \in Int /\ Full * y <= - u /\ - u < Full * y + Full
    <2>1. (- p) * a = - u /\ - p \in Int
      BY SMT
    <2> QED BY <2>1, RoundedIs
  <1>3. u \in Int
    BY SMT
  <1>9. r = Off(p, a) /\ s = Off(- p, a)
    <2>1. (- p) * a = - u
      BY SMT
    <2> QED BY <2>1 DEF Off
  <1> HIDE DEF u, x, y
  <1>4. Full * x \in Int /\ Full * y \in Int
    BY <1>1, <1>2, FullType
  <1>5. r \in Nat /\ s \in Nat /\ r < Full /\ s < Full
    BY <1>1, <1>2, <1>3, <1>4, FullType
  <1>6. r + s = Full * (- (x + y))
    BY <1>1, <1>2, <1>3, <1>4, FullType, SMT
  <1>7. - (x + y) = 0 \/ - (x + y) = 1
    <2>1. \A n \in Int : 0 <= Full * n /\ Full * n < 2 * Full => n = 0 \/ n = 1
      BY SMT DEF Full
    <2>2. - (x + y) \in Int
      BY <1>1, <1>2
    <2> DEFINE n == - (x + y)
    <2>3. 0 <= r + s /\ r + s < 2 * Full
      BY <1>5, FullType
    <2> HIDE DEF n, r, s
    <2>4. 0 <= Full * n /\ Full * n < 2 * Full
      BY <1>6, <2>3 DEF n
    <2>5. n = 0 \/ n = 1
      BY <2>1, <2>2, <2>4 DEF n
    <2> QED BY <2>5 DEF n
  <1>8. (r = 0 /\ s = 0) \/ r + s = Full
    <2>1. Full * 0 = 0 /\ Full * 1 = Full
      BY FullType
    <2> QED BY <1>5, <1>6, <1>7, <2>1
  <1> HIDE DEF r, s
  <1> QED BY <1>5, <1>8, <1>9

\* Two such products.
LEMMA RoundedProducts ==
    ASSUME NEW u \in Int, NEW v \in Int, NEW a \in Nat, NEW b \in Nat,
           - (Full * a) <= u, u <= Full * a, - (Full * b) <= v, v <= Full * b,
           NEW r \in Nat, NEW s \in Nat, r < Full, s < Full, (r = 0 /\ s = 0) \/ r + s = Full,
           NEW t \in Nat, NEW w \in Nat, t < Full, w < Full, (t = 0 /\ w = 0) \/ t + w = Full
    PROVE  LET error == (u - r) * (v - t) + ((- u) - s) * ((- v) - w) - 2 * (u * v)
           IN  error \in Int /\ - (Full * Full * (a + b + 1)) <= error /\ error <= Full * Full * (a + b + 1)
  <1> DEFINE error == (u - r) * (v - t) + ((- u) - s) * ((- v) - w) - 2 * (u * v)
             unit == Full * Full
  <1>1. error = v * (s - r) + u * (w - t) + (r * t + s * w)
    BY SMT
  <1>2. /\ Full * a \in Nat /\ Full * b \in Nat /\ s - r \in Int /\ w - t \in Int
        /\ - Full <= s - r /\ s - r <= Full /\ - Full <= w - t /\ w - t <= Full /\ Full \in Nat
    BY FullType
  <1>3. - (Full * b * Full) <= v * (s - r) /\ v * (s - r) <= Full * b * Full
    BY <1>2, ProductSize
  <1>4. - (Full * a * Full) <= u * (w - t) /\ u * (w - t) <= Full * a * Full
    BY <1>2, ProductSize
  <1>5. 0 <= r * t + s * w /\ r * t + s * w <= unit
    <2>1. r * t <= r * Full /\ s * w <= s * Full /\ 0 <= r * t /\ 0 <= s * w
      BY FullType, SMT
    <2>2. r * Full + s * Full = (r + s) * Full
      BY FullType, SMT
    <2>3. (r + s) * Full <= unit
      <3>1. CASE r + s = Full
        BY <3>1, FullType
      <3>2. CASE r = 0 /\ s = 0
        BY <3>2, FullType
      <3> QED BY <3>1, <3>2
    <2>4. r * t \in Int /\ s * w \in Int /\ r * Full \in Int /\ s * Full \in Int /\ unit \in Int
      BY FullType
    <2> QED BY <2>1, <2>2, <2>3, <2>4
  <1>6. unit * (a + b + 1) = Full * a * Full + Full * b * Full + unit
    BY FullType, SMT
  <1>7. /\ v * (s - r) \in Int /\ u * (w - t) \in Int /\ r * t + s * w \in Int
        /\ Full * a * Full \in Int /\ Full * b * Full \in Int /\ unit \in Nat
    BY FullType
  <1> HIDE DEF error, unit
  <1>8. error \in Int /\ - (unit * (a + b + 1)) <= error /\ error <= unit * (a + b + 1)
    BY <1>1, <1>3, <1>4, <1>5, <1>6, <1>7
  <1> QED BY <1>8 DEF error, unit

\* The products that CalcThread adds for a pair of samples half a cycle apart.
LEMMA PairError ==
    ASSUME NEW p \in Int, NEW q \in Int, Abs(p) <= Full, Abs(q) <= Full, NEW a \in Nat, NEW b \in Nat
    PROVE  LET first == (Rounded(p, a) * Rounded(q, b)) \div 16
               second == (Rounded(- p, a) * Rounded(- q, b)) \div 16
               error == Full * Full * (16 * (first + second)) - 2 * (a * b * (p * q))
           IN  /\ first \in Int /\ second \in Int
               /\ - (Full * Full * (a + b + 31)) <= error /\ error <= Full * Full * (a + b + 31)
  <1> DEFINE u == p * a
             v == q * b
             x == Rounded(p, a)
             y == Rounded(q, b)
             xx == Rounded(- p, a)
             yy == Rounded(- q, b)
             r == Off(p, a)
             s == Off(- p, a)
             t == Off(q, b)
             w == Off(- q, b)
             unit == Full * Full
             f == x * y + xx * yy
  <1>1. r \in Nat /\ s \in Nat /\ r < Full /\ s < Full /\ ((r = 0 /\ s = 0) \/ r + s = Full)
    <2>1. a \in Int
      OBVIOUS
    <2> QED BY <2>1, Opposite, Zenon
  <1>2. t \in Nat /\ w \in Nat /\ t < Full /\ w < Full /\ ((t = 0 /\ w = 0) \/ t + w = Full)
    <2>1. b \in Int
      OBVIOUS
    <2> QED BY <2>1, Opposite, Zenon
  <1>3. x \in Int /\ y \in Int /\ xx \in Int /\ yy \in Int
    <2>1. - p \in Int /\ - q \in Int /\ a \in Int /\ b \in Int
      OBVIOUS
    <2>2. x \in Int
      BY <2>1, RoundedIs
    <2>3. y \in Int
      BY <2>1, RoundedIs
    <2>4. xx \in Int
      BY <2>1, RoundedIs
    <2>5. yy \in Int
      BY <2>1, RoundedIs
    <2> QED BY <2>2, <2>3, <2>4, <2>5
  <1>7. u - r = Full * x /\ (- u) - s = Full * xx /\ v - t = Full * y /\ (- v) - w = Full * yy
    <2>1. (- p) * a = - u /\ (- q) * b = - v /\ u \in Int /\ v \in Int
      BY SMT
    <2>2. Full * x \in Int /\ Full * xx \in Int /\ Full * y \in Int /\ Full * yy \in Int
      BY <1>3, FullType
    <2> HIDE DEF u, v, x, y, xx, yy
    <2>3. r = u - Full * x /\ s = (- u) - Full * xx /\ t = v - Full * y /\ w = (- v) - Full * yy
      BY <2>1 DEF Off, u, v, x, y, xx, yy
    <2> HIDE DEF r, s, t, w
    <2> QED BY <2>1, <2>2, <2>3
  <1>4. u \in Int /\ - (Full * a) <= u /\ u <= Full * a
    <2>1. - Full <= p /\ p <= Full /\ - a <= a /\ a <= a
      BY FullType DEF Abs
    <2> QED BY <2>1, ProductSize, FullType
  <1>5. v \in Int /\ - (Full * b) <= v /\ v <= Full * b
    <2>1. - Full <= q /\ q <= Full /\ - b <= b /\ b <= b
      BY FullType DEF Abs
    <2> QED BY <2>1, ProductSize, FullType
  <1>6. u * v = a * b * (p * q)
    BY SMT
  <1> HIDE DEF u, v, x, y, xx, yy, r, s, t, w
  <1> DEFINE sum == (u - r) * (v - t) + ((- u) - s) * ((- v) - w)
             error == sum - 2 * (u * v)
  <1>8. error \in Int /\ - (unit * (a + b + 1)) <= error /\ error <= unit * (a + b + 1)
    BY <1>1, <1>2, <1>4, <1>5, RoundedProducts
  <1>9. error = unit * f - 2 * (u * v)
    <2>1. \A k, l, m, n, g \in Int : (g * k) * (g * l) + (g * m) * (g * n) = g * g * (k * l + m * n)
      BY SMT
    <2>2. (u - r) * (v - t) + ((- u) - s) * ((- v) - w) = unit * f
      BY <1>3, <1>7, <2>1, FullType
    <2> HIDE DEF sum, unit, f
    <2> QED BY <2>2 DEF sum
  <1> DEFINE first == (x * y) \div 16
             second == (xx * yy) \div 16
             more == f - 16 * (first + second)
  <1>10. first \in Int /\ second \in Int /\ more \in Nat /\ more <= 30 /\ f \in Int
    <2>1. \A n \in Int : n \div 16 \in Int /\ 16 * (n \div 16) <= n /\ n < 16 * (n \div 16) + 16
      BY SMT
    <2>2. x * y \in Int /\ xx * yy \in Int
      BY <1>3
    <2> QED BY <2>1, <2>2
  <1> HIDE DEF error, unit, first, second
  <1>11. unit * (16 * (first + second)) = unit * f - unit * more
    BY <1>10, FullType, SMT DEF unit
  <1> HIDE DEF more, f
  <1>12. unit * more <= 30 * unit /\ 0 <= unit * more /\ unit \in Nat
    <2>1. \A m, n \in Nat : m <= 30 => n * m <= 30 * n /\ 0 <= n * m
      BY SMT
    <2> QED BY <1>10, <2>1, FullType DEF unit
  <1>13. unit * (a + b + 31) = unit * (a + b + 1) + 30 * unit
    BY <1>12, SMT
  <1>14. unit * f \in Int /\ u * v \in Int /\ unit * more \in Int /\ unit * (a + b + 1) \in Int
    BY <1>4, <1>5, <1>10, <1>12
  <1>15. /\ - (unit * (a + b + 31)) <= unit * (16 * (first + second)) - 2 * (u * v)
         /\ unit * (16 * (first + second)) - 2 * (u * v) <= unit * (a + b + 31)
    BY <1>8, <1>9, <1>11, <1>12, <1>13, <1>14
  <1> QED BY <1>6, <1>10, <1>15 DEF x, y, xx, yy, first, second, unit

\* What is known of the power from the products of the sines...
Summed(n, size, ratio, products, power) ==
    /\ n \in Nat /\ n <= 268378110 /\ size \in Nat /\ size <= 34784
    /\ ratio \in Int /\ - Full <= ratio /\ ratio <= Full
    /\ products \in Int
    /\ - 379658 <= products - 262144 * ratio /\ products - 262144 * ratio <= 379658
    /\ power \in Int
    /\ - (Full * Full * (8 * size)) <= Full * Full * (16 * power) - 2 * (n * products)
    /\ Full * Full * (16 * power) - 2 * (n * products) <= Full * Full * (8 * size)

\* ... and what follows.
NearIdeal(n, ratio, power) ==
    LET ideal == ((n \div 65536) * ratio) \div 2
    IN  ideal \in Int /\ - 65536 <= power - ideal /\ power - ideal <= 65536

LEMMA PowerNear ==
    ASSUME NEW n, NEW size, NEW ratio, NEW products, NEW power,
           Summed(n, size, ratio, products, power)
    PROVE  NearIdeal(n, ratio, power)
  <1> n \in Nat /\ n <= 268378110 /\ size \in Nat /\ size <= 34784
      /\ ratio \in Int /\ - Full <= ratio /\ ratio <= Full
      /\ products \in Int
      /\ - 379658 <= products - 262144 * ratio /\ products - 262144 * ratio <= 379658
      /\ power \in Int
      /\ - (Full * Full * (8 * size)) <= Full * Full * (16 * power) - 2 * (n * products)
      /\ Full * Full * (16 * power) - 2 * (n * products) <= Full * Full * (8 * size)
    BY DEF Summed
  <1> DEFINE unit == Full * Full
             h == n \div 65536
             g == n - Full * h
             ideal == (h * ratio) \div 2
             odd == h * ratio - 2 * ideal
             error == products - 262144 * ratio
  <1>1. h \in Nat /\ g \in Nat /\ g <= Full
    <2>1. \A m \in Nat : /\ m \div 65536 \in Nat /\ 65536 * (m \div 65536) <= m
                         /\ m < 65536 * (m \div 65536) + 65536
      BY SMT
    <2>2. Full = 65536
      BY DEF Full
    <2> QED BY <2>1, <2>2
  <1>2. h * ratio \in Int
    BY <1>1
  <1>3. ideal \in Int /\ odd \in Nat /\ odd <= 1
    <2>1. \A m \in Int : m \div 2 \in Int /\ 2 * (m \div 2) <= m /\ m <= 2 * (m \div 2) + 1
      BY SMT
    <2> HIDE DEF h
    <2> QED BY <1>2, <2>1
  <1>4. unit \in Nat /\ unit > 0 /\ Full \in Nat /\ unit >= 4294967296
    <2>1. unit = 4294967296
      BY SMT DEF Full
    <2> QED BY <2>1, FullType
  <1>5. n = Full * h + g
    BY <1>1, FullType
  <1> HIDE DEF h, g, unit
  <1>6. - unit <= g * ratio /\ g * ratio <= unit /\ g * ratio \in Int
    <2>1. - g <= g /\ g <= g
      BY <1>1
    <2>2. - (Full * Full) <= g * ratio /\ g * ratio <= Full * Full
      <3>1. - Full <= g /\ g <= Full
        BY <1>1, FullType
      <3> QED BY <1>1, <3>1, ProductSize, FullType
    <2> QED BY <1>1, <2>2 DEF unit
  <1>7. - (unit * 47448) <= 2 * (n * error) /\ 2 * (n * error) <= unit * 47448 /\ n * error \in Int
    <2>1. error \in Int /\ - 379658 <= error /\ error <= 379658
      OBVIOUS
    <2> HIDE DEF error
    <2>2. - (n * 379658) <= n * error /\ n * error <= n * 379658
      <3>1. - n <= n /\ n <= n /\ 379658 \in Nat
        OBVIOUS
      <3> QED BY <2>1, <3>1, ProductSize
    <2>3. n * error \in Int
      BY <2>1
    <2>4. n * 379658 <= 268378110 * 379658
      OBVIOUS
    <2> QED BY <1>4, <2>2, <2>3, <2>4
  <1>8. 2 * (n * products) = 524288 * (n * ratio) + 2 * (n * error)
    <2>1. products = 262144 * ratio + error /\ error \in Int
      OBVIOUS
    <2> HIDE DEF error
    <2>2. n * (262144 * ratio + error) = 262144 * (n * ratio) + n * error
      BY <2>1, SMT
    <2>3. n * ratio \in Int /\ n * error \in Int
      BY <2>1
    <2> QED BY <2>1, <2>2, <2>3
  <1>9. n * ratio = Full * (h * ratio) + g * ratio
    BY <1>1, <1>5, FullType, SMT
  <1>10. 524288 * (n * ratio) = 8 * (unit * (h * ratio)) + 8 * (Full * (g * ratio))
    <2>1. \A m \in Int : 524288 * m = 8 * (Full * m)
      BY SMT DEF Full
    <2>2. Full * (Full * (h * ratio) + g * ratio) = unit * (h * ratio) + Full * (g * ratio)
      BY <1>2, <1>6, FullType, SMT DEF unit
    <2>3. unit * (h * ratio) \in Int /\ Full * (g * ratio) \in Int /\ n * ratio \in Int
      BY <1>2, <1>4, <1>6
    <2> QED BY <1>9, <2>1, <2>2, <2>3
  <1>11. - (unit * 65536) <= Full * (g * ratio) /\ Full * (g * ratio) <= unit * 65536
         /\ Full * (g * ratio) \in Int
    <2>1. \A m \in Int : Full * m = 65536 * m
      BY SMT DEF Full
    <2> QED BY <1>4, <1>6, <2>1
  <1>12. unit * (h * ratio) = 2 * (unit * ideal) + unit * odd /\ unit * ideal \in Int
         /\ unit * odd \in Nat /\ unit * odd <= unit
    <2>1. h * ratio = 2 * ideal + odd
      BY <1>2, <1>3
    <2> HIDE DEF ideal, odd
    <2>2. unit * (2 * ideal + odd) = 2 * (unit * ideal) + unit * odd
      BY <1>3, <1>4, SMT
    <2>3. odd = 0 \/ odd = 1
      BY <1>3
    <2> QED BY <1>3, <1>4, <2>1, <2>2, <2>3
  <1>13. unit * (16 * power) = 16 * (unit * power) /\ unit * power \in Int
         /\ unit * (8 * size) <= unit * 278272 /\ unit * (8 * size) \in Int
    <2>1. \A m, k \in Nat : k <= 34784 => m * (8 * k) <= m * 278272
      BY SMT
    <2> QED BY <1>4, <2>1, SMT
  <1> DEFINE away == power - ideal
  <1>14. unit * away = unit * power - unit * ideal /\ away \in Int
    <2>1. ideal \in Int
      BY <1>3
    <2> HIDE DEF ideal
    <2> QED BY <1>4, <2>1, SMT
  <1>15. - (unit * 278272) <= 16 * (unit * power) - 2 * (n * products)
         /\ 16 * (unit * power) - 2 * (n * products) <= unit * 278272
    <2>1. unit * (16 * power) \in Int /\ 2 * (n * products) \in Int
      BY <1>4
    <2>2. - (unit * (8 * size)) <= unit * (16 * power) - 2 * (n * products)
          /\ unit * (16 * power) - 2 * (n * products) <= unit * (8 * size)
      BY DEF unit
    <2> DEFINE sum == unit * (16 * power)
               twice == 2 * (n * products)
               most == unit * (8 * size)
    <2>3. sum = 16 * (unit * power) /\ most <= unit * 278272 /\ most \in Int
      BY <1>13
    <2>4. - most <= sum - twice /\ sum - twice <= most
      BY <2>2
    <2>5. sum \in Int /\ twice \in Int
      BY <2>1
    <2> HIDE DEF sum, twice, most
    <2>6. - (unit * 278272) <= sum - twice /\ sum - twice <= unit * 278272
      BY <1>4, <2>3, <2>4, <2>5
    <2> QED BY <2>3, <2>6 DEF twice
  <1> HIDE DEF error, ideal, odd, away
  <1>16. - (unit * 850016) <= 16 * (unit * away) /\ 16 * (unit * away) <= unit * 850016
    BY <1>4, <1>7, <1>8, <1>10, <1>11, <1>12, <1>13, <1>14, <1>15
  <1>17. - 850016 <= 16 * away /\ 16 * away <= 850016
    <2>1. \A k, m \in Int : unit * k <= unit * m => k <= m
      BY <1>4, SMT
    <2>2. 16 * (unit * away) = unit * (16 * away) /\ - (unit * 850016) = unit * (- 850016)
          /\ 16 * away \in Int
      BY <1>4, <1>14, SMT
    <2> QED BY <1>16, <2>1, <2>2
  <1> QED BY <1>3, <1>14, <1>17 DEF away, ideal, h, NearIdeal

\* The sines at an index and half a cycle later.
LEMMA AtIndex ==
    ASSUME NEW v \in 0 .. 63, NEW k \in 0 .. 7
    PROVE  LET j == (v + 4 * k) % 64
           IN  /\ j \in 0 .. 63 /\ j \div 4 \in 0 .. 15
               /\ (v + 4 * (k + 8)) % 64 \in 0 .. 63
               /\ ((v + 4 * (k + 8)) % 64) \div 4 \in 0 .. 15
               /\ Ratio[j] \in Int /\ Abs(Ratio[j]) <= Full
               /\ Ratio[(v + 4 * (k + 8)) % 64] = - Ratio[j]
  <1> DEFINE j == (v + 4 * k) % 64
  <1>1. j \in 0 .. 63 /\ j \div 4 \in 0 .. 15 /\ (v + 4 * (k + 8)) % 64 = (j + 32) % 64
        /\ (j + 32) % 64 \in 0 .. 63 /\ ((j + 32) % 64) \div 4 \in 0 .. 15
    BY SMT
  <1> HIDE DEF j
  <1>2. Ratio[(j + 32) % 64] = - Ratio[j]
    BY <1>1, HalfTurn, SMTT(30)
  <1>3. Ratio[j] \in Int /\ - 65536 <= Ratio[j] /\ Ratio[j] <= 65536
    BY <1>1, RatioTypes
  <1>4. Abs(Ratio[j]) <= Full
    BY <1>3 DEF Abs, Full
  <1> QED BY <1>1, <1>2, <1>3, <1>4 DEF j

\* A table that holds one amplitude only.
Whole(w) == \A g \in 0 .. 15 : SineWave[w][g] = Amp[w]

\* Two products half a cycle apart, when the tables are whole.
LEMMA PairOfTerms ==
    ASSUME Types, WaveTypes, Whole("voltage"), Whole("current"), NEW k \in 0 .. 7
    PROVE  LET a == Amp["voltage"]
               b == Amp["current"]
               error == Full * Full * (16 * (Term(k) + Term(k + 8))) - 2 * (a * b * Product(NbV, NbC, k))
           IN  - (Full * Full * (a + b + 31)) <= error /\ error <= Full * Full * (a + b + 31)
  <1> DEFINE v == (NbV + 4 * k) % 64
             c == (NbC + 4 * k) % 64
             vv == (NbV + 4 * (k + 8)) % 64
             cc == (NbC + 4 * (k + 8)) % 64
             p == Ratio[v]
             q == Ratio[c]
             a == Amp["voltage"]
             b == Amp["current"]
  <1>1. NbV \in 0 .. 63 /\ NbC \in 0 .. 63
    BY DEF Types
  <1>2. /\ v \div 4 \in 0 .. 15 /\ vv \div 4 \in 0 .. 15
        /\ p \in Int /\ Abs(p) <= Full /\ Ratio[vv] = - p
    BY <1>1, AtIndex, ZenonT(30)
  <1>3. /\ c \div 4 \in 0 .. 15 /\ cc \div 4 \in 0 .. 15
        /\ q \in Int /\ Abs(q) <= Full /\ Ratio[cc] = - q
    BY <1>1, AtIndex, ZenonT(30)
  <1>4. a \in Nat /\ b \in Nat
    BY Limits DEF WaveTypes, MinVoltage, MinCurrent
  <1>5. Product(NbV, NbC, k) = p * q
    BY Zenon DEF Product
  <1>6. Term(k) = (Rounded(p, a) * Rounded(q, b)) \div 16
    <2>1. SineWave["voltage"][v \div 4] = a /\ SineWave["current"][c \div 4] = b
      BY <1>2, <1>3 DEF Whole
    <2>2. Entry("voltage", v) = Rounded(p, a) /\ Entry("current", c) = Rounded(q, b)
      <3> HIDE DEF v, c, a, b
      <3> QED BY <2>1, SMT DEF Entry, Rounded
    <2> QED BY <2>2 DEF Term
  <1>7. Term(k + 8) = (Rounded(- p, a) * Rounded(- q, b)) \div 16
    <2>1. SineWave["voltage"][vv \div 4] = a /\ SineWave["current"][cc \div 4] = b
      BY <1>2, <1>3 DEF Whole
    <2>2. Entry("voltage", vv) = Rounded(- p, a) /\ Entry("current", cc) = Rounded(- q, b)
      <3> HIDE DEF vv, cc, a, b, p, q
      <3> QED BY <1>2, <1>3, <2>1, SMT DEF Entry, Rounded
    <2> QED BY <2>2 DEF Term
  <1> HIDE DEF p, q, a, b, v, c, vv, cc
  <1> DEFINE first == (Rounded(p, a) * Rounded(q, b)) \div 16
             second == (Rounded(- p, a) * Rounded(- q, b)) \div 16
             error == Full * Full * (16 * (first + second)) - 2 * (a * b * (p * q))
  <1>8. - (Full * Full * (a + b + 31)) <= error /\ error <= Full * Full * (a + b + 31)
    BY <1>2, <1>3, <1>4, PairError, Zenon
  <1> QED BY <1>5, <1>6, <1>7, <1>8 DEF a, b

\* The power of whole tables is that of the amplitudes and the phase.
LEMMA CycleNear ==
    ASSUME Types, WaveTypes, Whole("voltage"), Whole("current")
    PROVE  LET phase == (16 + NbC - NbV) % 64
               ideal == (((Amp["voltage"] * Amp["current"]) \div 65536) * Ratio[phase]) \div 2
           IN  ideal \in Int /\ - 65536 <= CyclePower - ideal /\ CyclePower - ideal <= 65536
  <1> DEFINE a == Amp["voltage"]
             b == Amp["current"]
             n == a * b
             size == a + b + 31
             unit == Full * Full
             pair(k) == Term(k) + Term(k + 8)
             product(k) == Product(NbV, NbC, k)
             products == Products(NbV, NbC)
             ratio == Ratio[(16 + NbC - NbV) % 64]
  <1>1. NbV \in 0 .. 63 /\ NbC \in 0 .. 63 /\ (16 + NbC - NbV) % 64 \in 0 .. 63
    BY SMT DEF Types
  <1>2. a \in Nat /\ b \in Nat /\ a <= 11583 /\ b <= 23170
    <2>1. MaxVoltage = 11583 /\ MaxCurrent = 23170 /\ MinVoltage = 9266 /\ MinCurrent = 0
      BY DEF MinVoltage, MaxVoltage, MinCurrent, MaxCurrent
    <2>2. a \in Int /\ MinVoltage <= a /\ a <= MaxVoltage /\ b \in Int /\ MinCurrent <= b /\ b <= MaxCurrent
      BY Limits DEF WaveTypes
    <2> HIDE DEF a, b
    <2> QED BY <2>1, <2>2
  <1>3. ratio \in Int /\ - Full <= ratio /\ ratio <= Full
    BY <1>1, RatioTypes DEF Full
  <1>4. - 379658 <= products - 262144 * ratio /\ products - 262144 * ratio <= 379658
    <2>1. Near(NbV, NbC)
      BY <1>1, AlwaysNear, Zenon
    <2> QED BY <2>1 DEF Near
  <1>5. \A k \in 0 .. 15 : Term(k) \in Int
    BY CycleFits
  <1>6. CyclePower = Term(0) + Term(1) + Term(2) + Term(3) + Term(4) + Term(5) + Term(6) + Term(7)
              + Term(8) + Term(9) + Term(10) + Term(11) + Term(12) + Term(13) + Term(14) + Term(15)
        /\ CyclePower \in Int
    BY <1>5, SumOf16, CycleFits
  <1>7. CyclePower = pair(0) + pair(1) + pair(2) + pair(3) + pair(4) + pair(5) + pair(6) + pair(7)
        /\ \A k \in 0 .. 7 : pair(k) \in Int
    <2> DEFINE last(k) == Term(k + 8)
    <2>1. \A k \in 0 .. 7 : Term(k) \in Int /\ last(k) \in Int
      BY <1>5
    <2>2. /\ last(0) = Term(8) /\ last(1) = Term(9) /\ last(2) = Term(10) /\ last(3) = Term(11)
          /\ last(4) = Term(12) /\ last(5) = Term(13) /\ last(6) = Term(14) /\ last(7) = Term(15)
      OBVIOUS
    <2>3. \A k \in 0 .. 7 : pair(k) = Term(k) + last(k)
      OBVIOUS
    <2>4. CyclePower = Term(0) + Term(1) + Term(2) + Term(3) + Term(4) + Term(5) + Term(6) + Term(7)
                       + last(0) + last(1) + last(2) + last(3) + last(4) + last(5) + last(6) + last(7)
      BY <1>6, <2>2
    <2> HIDE DEF last, pair
    <2>5. \A k \in 0 .. 7 : pair(k) \in Int
      BY <2>1, <2>3
    <2> QED BY <2>1, <2>3, <2>4, <2>5
  <1>8. \A k \in 0 .. 7 : /\ - (unit * size) <= unit * (16 * pair(k)) - 2 * (n * product(k))
                          /\ unit * (16 * pair(k)) - 2 * (n * product(k)) <= unit * size
    BY PairOfTerms, Zenon
  <1>9. products = product(0) + product(1) + product(2) + product(3) + product(4) + product(5)
                   + product(6) + product(7)
        /\ \A k \in 0 .. 7 : product(k) \in Int
    <2>1. ASSUME NEW k \in 0 .. 7 PROVE product(k) \in Int
      <3>1. Ratio[(NbV + 4 * k) % 64] \in Int
        BY <1>1, AtIndex, Zenon
      <3>2. Ratio[(NbC + 4 * k) % 64] \in Int
        BY <1>1, AtIndex, Zenon
      <3> QED BY <3>1, <3>2, SMT DEF Product
    <2>2. products = product(0) + product(1) + product(2) + product(3) + product(4) + product(5)
                   + product(6) + product(7)
      BY DEF Products
    <2> QED BY <2>1, <2>2
  <1>10. n \in Nat /\ n <= 268378110 /\ size \in Nat /\ size <= 34784
    <2>1. - a <= a /\ - b <= b /\ 11583 \in Nat /\ 23170 \in Nat /\ - 11583 <= a /\ - 23170 <= b
      BY <1>2
    <2>2. a * b <= 11583 * 23170
      BY <1>2, <2>1, ProductSize
    <2>3. a * b \in Nat
      BY <1>2, SMT
    <2> HIDE DEF a, b
    <2> QED BY <1>2, <2>2, <2>3
  <1>11. unit \in Nat
    BY FullType
  <1> HIDE DEF a, b, n, size, unit, pair, product, products, ratio
  <1> DEFINE left(k) == unit * pair(k)
             right(k) == n * product(k)
  <1>12. unit * CyclePower = left(0) + left(1) + left(2) + left(3) + left(4) + left(5) + left(6) + left(7)
         /\ \A k \in 0 .. 7 : left(k) \in Int
    <2>1. \A k \in 0 .. 7 : left(k) \in Int
      BY <1>7, <1>11
    <2> QED BY <1>7, <1>11, <2>1, Distributed
  <1>13. n * products = right(0) + right(1) + right(2) + right(3) + right(4) + right(5) + right(6) + right(7)
         /\ \A k \in 0 .. 7 : right(k) \in Int
    <2>1. \A k \in 0 .. 7 : right(k) \in Int
      BY <1>9, <1>10
    <2> QED BY <1>9, <1>10, <2>1, Distributed
  <1>14. \A k \in 0 .. 7 : /\ - (unit * size) <= 16 * left(k) - 2 * right(k)
                           /\ 16 * left(k) - 2 * right(k) <= unit * size
    <2>1. \A m \in Int : unit * (16 * m) = 16 * (unit * m)
      BY <1>11, SMT
    <2> QED BY <1>7, <1>8, <2>1
  <1>15. unit * (16 * CyclePower) = 16 * (unit * CyclePower) /\ unit * (8 * size) = 8 * (unit * size)
         /\ unit * size \in Int
    BY <1>6, <1>10, <1>11, SMT
  <1> HIDE DEF left, right
  <1>16. - (unit * (8 * size)) <= unit * (16 * CyclePower) - 2 * (n * products)
         /\ unit * (16 * CyclePower) - 2 * (n * products) <= unit * (8 * size)
    BY <1>12, <1>13, <1>14, <1>15
  <1>17. NearIdeal(n, ratio, CyclePower)
    <2>1. products \in Int
      BY <1>9
    <2>2. /\ - (Full * Full * (8 * size)) <= Full * Full * (16 * CyclePower) - 2 * (n * products)
          /\ Full * Full * (16 * CyclePower) - 2 * (n * products) <= Full * Full * (8 * size)
      BY <1>16 DEF unit
    <2>3. Summed(n, size, ratio, products, CyclePower)
      BY <1>3, <1>4, <1>6, <1>10, <2>1, <2>2 DEF Summed
    <2> QED BY <2>3, PowerNear
  <1> QED BY <1>17 DEF NearIdeal, n, a, b, ratio

-----------------------------------------------------------------------------
(* The tables are whole but while they are written                         *)

Other == IF Wave = "voltage" THEN "current" ELSE "voltage"

\* Only while UpdateSineWave runs, and only behind its i, has a table entries of the
\* amplitude before.
Written ==
    /\ at \in {"voltageAmp", "currentAmp"} => Name = at
    /\ at \notin {"off", "table"} => Whole("voltage") /\ Whole("current")
    /\ at = "table" =>
        /\ Whole(Other)
        /\ \A g \in 0 .. 15 : g < i => SineWave[Wave][g] = Amp[Wave]

LEMMA WrittenInit == Init => Written
  BY DEF Init, Written

\* A step that leaves the waves and the packet.
LEMMA WrittenKept ==
    ASSUME Written, UNCHANGED <<waveV, packet>>,
           at' = at \/ (at \notin {"off", "table"} /\ at' \notin {"voltageAmp", "currentAmp", "table"})
    PROVE  Written'
  <1>1. Whole("voltage")' = Whole("voltage") /\ Whole("current")' = Whole("current")
        /\ Whole(Other)' = Whole(Other) /\ Wave' = Wave /\ Name' = Name
    BY Zenon DEF Whole, Other, Wave, Name, waveV
  <1> QED BY <1>1 DEF Written, waveV

\* The first statement of DAC_SetAmp: the amplitude is new, and no entry yet.
LEMMA WrittenSetAmp ==
    ASSUME IInv, Written, DAC_SetAmp
    PROVE  Written'
  <1>1. at' = "table" /\ i' = 0 /\ packet' = packet /\ SineWave' = SineWave
        /\ Whole("voltage") /\ Whole("current") /\ Name' = Name
    BY DEF DAC_SetAmp, Step, Written, Name
  <1>2. CASE at = "voltageAmp"
    <2>1. Wave' = "voltage" /\ Other' = "current"
      BY <1>1, <1>2 DEF Wave, Other, Written
    <2>2. Amp'["current"] = Amp["current"]
      BY <1>2 DEF DAC_SetAmp, Step, IInv, WaveTypes, Waves
    <2> QED BY <1>1, <2>1, <2>2 DEF Written, Whole
  <1>3. CASE at = "currentAmp"
    <2>1. Wave' = "current" /\ Other' = "voltage"
      BY <1>1, <1>3 DEF Wave, Other, Written
    <2>2. Amp'["voltage"] = Amp["voltage"]
      BY <1>3 DEF DAC_SetAmp, Step, IInv, WaveTypes, Waves
    <2> QED BY <1>1, <2>1, <2>2 DEF Written, Whole
  <1> QED BY <1>2, <1>3 DEF DAC_SetAmp, Step

\* A step of UpdateSineWave, which after the last entry leaves the table whole.
LEMMA WrittenUpdate ==
    ASSUME IInv, Written, UpdateSineWave
    PROVE  Written'
  <1>1. Wave \in Waves /\ Other \in Waves /\ Other # Wave /\ {Wave, Other} = {"voltage", "current"}
        /\ Wave' = Wave /\ Other' = Other
    BY DEF Wave, Other, Waves, Name, UpdateSineWave
  <1>2. i \in 0 .. 15 /\ at = "table" /\ Amp' = Amp /\ i' = (i + 1) % 16
        /\ at' = (IF i = 15 THEN "idle" ELSE "table")
    BY DEF IInv, WaveTypes, UpdateSineWave, Step
  <1>3. \A w \in Waves, g \in 0 .. 15 :
            SineWave'[w][g] = IF w = Wave /\ g = i THEN Amp[Wave] ELSE SineWave[w][g]
    BY <1>1, <1>2 DEF IInv, WaveTypes, UpdateSineWave
  <1>4. Whole(Other)'
    BY <1>1, <1>2, <1>3 DEF Written, Whole
  <1>5. \A g \in 0 .. 15 : g < i + 1 => SineWave'[Wave][g] = Amp[Wave]
    <2>1. \A g \in 0 .. 15 : g < i + 1 => g = i \/ g < i
      BY <1>2
    <2> QED BY <1>1, <1>2, <1>3, <2>1 DEF Written
  <1>6. CASE i = 15
    <2>1. Whole(Wave)'
      BY <1>1, <1>2, <1>5, <1>6 DEF Whole
    <2>2. Whole("voltage")' /\ Whole("current")'
      <3>1. (Wave = "voltage" /\ Other = "current") \/ (Wave = "current" /\ Other = "voltage")
        BY DEF Wave, Other
      <3>2. CASE Wave = "voltage" /\ Other = "current"
        BY <1>1, <1>4, <2>1, <3>2 DEF Whole
      <3>3. CASE Wave = "current" /\ Other = "voltage"
        BY <1>1, <1>4, <2>1, <3>3 DEF Whole
      <3> QED BY <3>1, <3>2, <3>3
    <2> QED BY <1>2, <1>6, <2>2 DEF Written
  <1>7. CASE i # 15
    <2>1. at' = "table" /\ i' = i + 1
      BY <1>2, <1>7
    <2> QED BY <1>1, <1>2, <1>4, <1>5, <2>1 DEF Written
  <1> QED BY <1>6, <1>7

LEMMA WrittenStep == IInv /\ Written /\ [Next]_vars => Written'
  <1> SUFFICES ASSUME IInv, Written, [Next]_vars PROVE Written'
    OBVIOUS
  <1>1. CASE UNCHANGED vars
    BY <1>1, WrittenKept DEF vars
  <1>2. CASE PowerOn
    BY <1>2 DEF PowerOn, WavesOf, Written, Whole, Waves
  <1>3. CASE PowerFails
    BY <1>3 DEF PowerFails, Written
  <1>4. CASE Second \/ RTCCallback \/ DAC_Callback \/ OutputWait \/ OutputPut
    BY <1>4, WrittenKept DEF Second, RTCCallback, DAC_Callback, OutputWait, OutputPut, waveV
  <1>5. CASE HandlePacket
    <2>1. PICK p \in Commands : at = "idle" /\ packet' = p
                                /\ at' = IF InRange(p) THEN p[1] ELSE "idle"
      BY <1>5 DEF HandlePacket, Step
    <2>2. p[1] \in {"test", "time1", "time2", "phase", "tariff", "voltageAmp", "currentAmp"}
      BY SettingsAssumption
    <2>3. at' \notin {"off", "table"} /\ (at' \in {"voltageAmp", "currentAmp"} => Name' = at')
      BY <2>1, <2>2 DEF Name
    <2>4. Whole("voltage")' /\ Whole("current")'
      BY <1>5, <2>1 DEF HandlePacket, Written, Whole, waveV
    <2> QED BY <2>3, <2>4 DEF Written
  <1>6. CASE HandleTest \/ DAC_StartStop
    BY <1>6, WrittenKept DEF HandleTest, DAC_StartStop, Step
  <1>7. CASE ReadTime \/ DisableCounter \/ WriteTime \/ EnableCounter
    BY <1>7, WrittenKept DEF ReadTime, DisableCounter, WriteTime, EnableCounter, Step
  <1>11. CASE ReadPhase \/ StorePhase
    BY <1>11, WrittenKept DEF ReadPhase, StorePhase, Step
  <1>8. CASE HandleTariff \/ FlashErase \/ FlashProgram \/ StoreTariff
    BY <1>8, WrittenKept DEF HandleTariff, FlashErase, FlashProgram, StoreTariff, Step
  <1>9. CASE DAC_SetAmp
    BY <1>9, WrittenSetAmp
  <1>10. CASE UpdateSineWave
    BY <1>10, WrittenUpdate
  <1> QED BY <1>1, <1>2, <1>3, <1>4, <1>5, <1>6, <1>7, <1>8, <1>9, <1>10, <1>11 DEF Next

\* Whatever is being set, the waves' power fits and is that of the amplitudes and phase.
THEOREM PowerKept == Spec => []PowerAsSet
  <1>1. IInv /\ Written => PowerAsSet
    <2> SUFFICES ASSUME IInv, Written, at # "off" PROVE PowerAsSet
      BY DEF PowerAsSet
    <2> DEFINE phase == (16 + NbC - NbV) % 64
               ideal == (((Amp["voltage"] * Amp["current"]) \div 65536) * Ratio[phase]) \div 2
    <2>1. CyclePower \in - MostPower .. MostPower - 16
      <3>1. CyclePower \in Int /\ - 134217727 <= CyclePower /\ CyclePower <= 134217711
        BY CycleFits DEF IInv
      <3>2. MostPower \in Int /\ - MostPower <= CyclePower /\ CyclePower <= MostPower - 16
        BY <3>1 DEF MostPower
      <3> QED BY <3>1, <3>2
    <2>2. ASSUME at # "table" PROVE CyclePower - ideal \in - Tolerance .. Tolerance
      <3>1. ideal \in Int /\ - 65536 <= CyclePower - ideal /\ CyclePower - ideal <= 65536
        BY <2>2, CycleNear DEF IInv, Written
      <3>2. CyclePower \in Int
        BY CycleFits DEF IInv
      <3> HIDE DEF ideal
      <3>3. /\ Tolerance \in Int /\ CyclePower - ideal \in Int
            /\ - Tolerance <= CyclePower - ideal /\ CyclePower - ideal <= Tolerance
        BY <3>1, <3>2 DEF Tolerance
      <3> QED BY <3>3
    <2> QED BY <2>1, <2>2 DEF PowerAsSet
  <1>2. Spec => [](IInv /\ Written)
    BY InitOK, StepOK, WrittenInit, WrittenStep, PTL DEF Spec
  <1> QED BY <1>1, <1>2, PTL

=============================================================================
