------------------------------ MODULE Channel ------------------------------
(***************************************************************************)
(* The voltage channel in closed loop: every period of the PIT, the        *)
(* voltage thread samples the mains, corrects the sample period towards    *)
(* 16 samples per cycle and updates the RMS value.  One step is one        *)
(* sample, for the thread has finished long before the next one.           *)
(*                                                                         *)
(* The mains is a wave whose half period, in sample time increments of     *)
(* 2506 ns, and whose amplitude are any of those given.  Its samples have  *)
(* the sign of the wave and its amplitude as size: MeterFrequency looks at *)
(* signs only.  The reading at a zero crossing may be of either sign or 0. *)
(***************************************************************************)
EXTENDS Sampling, Sequences

CONSTANTS
    Base,            \* SAMPLE_PERIOD_BASE in increments (474 in the code)
    HalfPeriods,     \* the half periods of the mains, in increments
    Phases,          \* where in its wave the mains can be at reset
    Amplitudes,      \* the amplitudes of the mains
    Ratio,           \* TAnalogThreadData.ratio (100 for the voltage)
    MaxChanges,      \* bound: changes of amplitude
    MaxZeros         \* bound: readings of exactly 0 at a crossing

ASSUME ChannelAssumption ==
    /\ {Base, Ratio} \subseteq Nat \ {0} /\ {MaxChanges, MaxZeros} \subseteq Nat
    /\ HalfPeriods \subseteq Nat \ {0}
    /\ \A h \in HalfPeriods : Phases \subseteq 0 .. 2 * h - 1
    /\ Amplitudes \subseteq Nat

VARIABLES
    half, phase, amplitude,      \* the mains
    frequency,                   \* MeterFrequency's variables
    channel,                     \* the window and the RMS value
    recent,                      \* the last ARRAY_SIZE readings, newest last
    steady,                      \* readings of the amplitude's size in a row
    changes, zeros               \* changes of amplitude, readings that hid a crossing

vars == <<half, phase, amplitude, frequency, channel, recent, steady, changes, zeros>>

\* By then the window holds one amplitude and Newton's method has settled.
Settled == ARRAY_SIZE + NB_ITERATIONS

Init ==
    /\ half \in HalfPeriods /\ phase \in Phases /\ amplitude \in Amplitudes
    /\ frequency = NewFrequency
    /\ channel = NewChannel
    /\ recent = <<>>
    /\ steady = 0 /\ changes = 0 /\ zeros = 0

\* The readings the mains can give; one of exactly 0 hides the crossing, for both
\* products around it are 0.
Readings ==
    IF phase % half = 0
    THEN {amplitude, - amplitude} \cup (IF zeros < MaxZeros THEN {0} ELSE {})
    ELSE IF phase < half THEN {amplitude} ELSE {- amplitude}

\* PIT_ISR and AnalogLoopbackThread: the timer runs on, or was restarted, with
\* the period in force after the reading.
Sample ==
    \E value \in Readings :
        /\ frequency' = MeterFrequency(frequency, value)
        /\ channel' = Sampled(channel, Ratio, value)
        /\ phase' = (phase + Base + frequency'.TickPeriod) % (2 * half)
        /\ recent' = Append(IF Len(recent) < ARRAY_SIZE THEN recent ELSE Tail(recent), value)
        /\ zeros' = IF value = 0 /\ amplitude # 0 THEN zeros + 1 ELSE zeros
        /\ steady' = IF value = 0 /\ amplitude # 0 THEN 0
                     ELSE IF steady = Settled THEN steady ELSE steady + 1
        /\ UNCHANGED <<half, amplitude, changes>>

ChangeAmplitude ==
    /\ changes < MaxChanges
    /\ amplitude' \in Amplitudes \ {amplitude}
    /\ changes' = changes + 1
    /\ steady' = 0
    /\ UNCHANGED <<half, phase, frequency, channel, recent, zeros>>

Next == Sample \/ ChangeAmplitude

\* The PIT never stops.
Spec == Init /\ [][Next]_vars /\ WF_vars(Sample)

-----------------------------------------------------------------------------
(* Properties *)

\* The variables keep their C types.
TypeOK ==
    /\ half \in HalfPeriods /\ phase \in 0 .. 2 * half - 1 /\ amplitude \in Amplitudes
    /\ frequency.tickCnt \in 0 .. 255 /\ frequency.FrequencyDiff \in 0 .. 255
    /\ channel.rms \in 0 .. Word - 1
    /\ channel.queue.oldest \in Slots /\ channel.queue.newest \in Slots
    /\ channel.queue.nb \in 0 .. ARRAY_SIZE

\* The sum of the squares of a sequence of readings.
SumOfSquares(readings) ==
    LET sum[i \in 0 .. Len(readings)] ==
            IF i = 0 THEN 0 ELSE sum[i - 1] + Squared(readings[i])
    IN  sum[Len(readings)]

\* The running sum of SQ_Put, to which a sample is added and from which one is
\* taken without ever being recomputed, is that of the last ARRAY_SIZE squares,
\* whichever slots they are in.
WindowSum == channel.queue.sum = SumOfSquares(recent)

\* The squares of smaller numbers have 31 bits, as TLC's integers.
RootLimit == 46340

\* r is the integer square root of number.
IsRoot(r, number) == /\ 0 <= r /\ r * r <= number
                     /\ number < (r + 1) * (r + 1)

\* Once the readings have had one size for a window and NB_ITERATIONS samples, the RMS
\* value is the square root of the mean square, or one more, whatever it was
\* before, 0 included: one iteration per sample from a stale estimate gets there.
\* It does so for amplitudes that satisfy Convergent, below; others have estimates
\* that stay below the root for ever.
RmsSettles ==
    steady = Settled =>
        LET r == channel.rms \div Ratio
            mean == channel.queue.sum \div ARRAY_SIZE
        IN  r < RootLimit /\ (IsRoot(r, mean) \/ IsRoot(r - 1, mean))

\* The estimate one sample later: rms is kept in 16 bits, and divided by ratio again.
Stepped(mean, estimate) == ((Math_SquareRoot(estimate, mean, 1) * Ratio) % Word) \div Ratio

\* The estimates of the first samples of one amplitude, up to the last fifteen of
\* NB_ITERATIONS.
Detour == NB_ITERATIONS - 15

Course(mean, estimate) ==
    LET course[i \in 0 .. Detour] ==
            IF i = 0 THEN estimate ELSE Stepped(mean, course[i - 1])
    IN  course

Estimates == 0 .. (Word - 1) \div Ratio

\* The amplitudes RmsSettles is about: their RMS value has 16 bits, and no estimate stays
\* below it.  A small estimate makes the next one large, which times Ratio may wrap and
\* be small again: that has an end within Detour samples.
Convergent ==
    /\ NB_ITERATIONS >= 15
    /\ \A a \in Amplitudes : \E s \in 0 .. RootLimit - 2 :
            /\ IsRoot(s, Squared(a)) /\ (s + 1) * Ratio < Word
            /\ \A e \in Estimates : Course(Squared(a), e)[Detour] >= s

\* The difference at which half a period h of the mains is exactly 8 samples.
IdealFor(h) == h \div (HalfCycle + 1) - Base

Ideal == IdealFor(half)

Lowest(h) == IF IdealFor(h) < InitialDiff THEN IdealFor(h) ELSE InitialDiff

Highest(h) == IF IdealFor(h) < InitialDiff THEN InitialDiff ELSE IdealFor(h)

\* The reported difference goes from where it begins to where the mains wants it,
\* and never more than one increment further; plus one for each reading of exactly 0,
\* which hides a crossing and makes a half cycle look long; and plus one either way
\* for each time the mains went away and came back, for tickCnt counts on, and wraps,
\* while there is no crossing.
DiffTracks ==
    LET blackouts == changes \div 2
    IN  frequency.FrequencyDiff \in Lowest(half) - 1 - blackouts
                                    .. Highest(half) + 1 + blackouts + zeros

\* The mains DiffTracks is about: slower than 52.5 Hz by as many increments as the
\* bounds on changes and zeros can use up, and not so slow that tickCnt or the
\* difference wraps without a blackout, or that a sample takes half a cycle.
InProportion ==
    \A h \in HalfPeriods :
        LET most == Highest(h) + 1 + MaxChanges \div 2 + MaxZeros
        IN  /\ Lowest(h) > MaxChanges \div 2
            /\ most <= 255 /\ Base + most < h
            /\ (MaxZeros + 1) * h < 256 * Base

\* The sample period follows the mains: once no reading of exactly 0 hides a crossing
\* any more, it comes within one increment of 16 samples per cycle, stays there, and is
\* the one reported.
Locks ==
    <>[](amplitude # 0) =>
    <>[](/\ frequency.TickPeriod - Ideal \in {-1, 0, 1}
         /\ frequency.FrequencyDiff = frequency.TickPeriod)

=============================================================================
