------------------------------ MODULE Sampling ------------------------------
(***************************************************************************)
(* What AnalogLoopbackThread (meter.c) does with one sample, as functions  *)
(* of the state of a channel: the window of the last samples               *)
(* (SampleQueue.c), the RMS value kept up to date by Newton's method       *)
(* (Math.c), and the correction of the sample period (MeterFrequency).     *)
(* The widths of the C types are kept where a value can reach them.        *)
(***************************************************************************)
EXTENDS Integers

CONSTANTS
    ARRAY_SIZE,            \* SAMPLES_PER_CYCLE, 16 in the code
    NB_ITERATIONS,         \* 25 in the code
    HalfCycle,             \* samples strictly inside half a cycle, 7 in the code
    InitialDiff            \* FrequencyDiff at reset, 25 in the code

ASSUME SamplingAssumption ==
    /\ {ARRAY_SIZE, NB_ITERATIONS, HalfCycle} \subseteq Nat \ {0}
    /\ InitialDiff \in 0 .. 255

-----------------------------------------------------------------------------
(* SampleQueue.c.  The field latestValue is never read and left out. *)

Slots == 0 .. ARRAY_SIZE - 1

SQ_Init == [firstTime |-> TRUE, oldest |-> 0, newest |-> 0,
            data |-> [i \in Slots |-> 0], sum |-> 0, nb |-> 0]

\* Fault: the index does not wrap.
FollowingUnwrapped(slot) == slot + 1

Following(slot) == (slot + 1) % ARRAY_SIZE

\* Fault: a full window keeps the value it replaces in its sum.
SQ_PutKeepsOldest(queue, sample) ==
    IF queue.nb = ARRAY_SIZE
    THEN [queue EXCEPT !.sum = @ + sample,
                       !.newest = queue.oldest,
                       !.data[queue.oldest] = sample,
                       !.oldest = Following(@)]
    ELSE [queue EXCEPT !.sum = @ + sample,
                       !.data[queue.newest] = sample,
                       !.newest = Following(@),
                       !.nb = @ + 1]

\* A full window replaces its oldest sample, another one grows.
SQ_Put(queue, sample) ==
    IF queue.nb = ARRAY_SIZE
    THEN [queue EXCEPT !.sum = (@ - queue.data[queue.oldest]) + sample,
                       !.newest = queue.oldest,
                       !.data[queue.oldest] = sample,
                       !.oldest = Following(@)]
    ELSE [queue EXCEPT !.sum = @ + sample,
                       !.data[queue.newest] = sample,
                       !.newest = Following(@),
                       !.nb = @ + 1]

-----------------------------------------------------------------------------
(* Math.c *)

Word == 65536

\* Shift right until 16 bits are enough.
Fit(number) ==
    LET fit[n \in 0 .. number] == IF n < Word THEN n ELSE fit[n \div 2]
    IN  fit[number]

\* One iteration from each estimate; an estimate of 0 ends the loop, and stays 0.
Newton(number) ==
    [estimate \in 0 .. Word - 1 |->
        IF estimate = 0 THEN 0 ELSE ((number \div estimate + estimate) \div 2) % Word]

Math_SquareRoot(estimate, number, iterateTimes) ==
    LET times == IF iterateTimes = 0 THEN NB_ITERATIONS ELSE iterateTimes
        after[i \in 0 .. times] ==
            IF i > 0 THEN Newton(number)[after[i - 1]]
            ELSE IF estimate = 0 THEN Fit(number) ELSE estimate
    IN  after[times]

-----------------------------------------------------------------------------
(* The body of AnalogLoopbackThread *)

\* (20v)^2 >> 16: the square of a 16Q8 reading, in 32Q16.
Squared(value) == (25 * value * value) \div 4096

\* Fault: a first RMS value of 0 does not count as a first value.
RmsAfterFirstNonZero(rms, ratio, queue) ==
    LET average == queue.sum \div ARRAY_SIZE
    IN  IF rms = 0 /\ queue.nb = ARRAY_SIZE
        THEN (Math_SquareRoot(0, average, 0) * ratio) % Word
        ELSE rms

\* The RMS value once `queue' holds the new sample: 25 iterations when the
\* window first fills, and one iteration from the last value ever after.
RmsAfter(rms, ratio, queue) ==
    LET average == queue.sum \div ARRAY_SIZE
    IN  IF rms = 0 /\ queue.nb = ARRAY_SIZE /\ queue.firstTime
        THEN (Math_SquareRoot(0, average, 0) * ratio) % Word
        ELSE IF ~ queue.firstTime
        THEN (Math_SquareRoot(rms \div ratio, average, 1) * ratio) % Word
        ELSE rms

\* The channel [rms, queue] after a reading.
Sampled(channel, ratio, value) ==
    LET queue == SQ_Put(channel.queue, Squared(value))
    IN  [rms   |-> RmsAfter(channel.rms, ratio, queue),
         queue |-> [queue EXCEPT !.firstTime =
                       @ /\ ~ (channel.rms = 0 /\ queue.nb = ARRAY_SIZE)]]

NewChannel == [rms |-> 0, queue |-> SQ_Init]

-----------------------------------------------------------------------------
(* MeterFrequency: its static variables, FrequencyDiff and TickPeriod (in  *)
(* sample time increments above SAMPLE_PERIOD_BASE).  Restarting the timer *)
(* with the new period is the caller's business.                           *)

NewFrequency == [started |-> FALSE, previousVoltage |-> 0, tickCnt |-> 0,
                 FrequencyDiff |-> InitialDiff, TickPeriod |-> 0]

Crossed(f, value) == f.previousVoltage * value < 0

\* Fault: the period is lengthened where it should be shortened.
AdjustedBackwards(f) ==
    CASE f.tickCnt > HalfCycle -> (f.FrequencyDiff - 1) % 256
      [] f.tickCnt < HalfCycle -> (f.FrequencyDiff + 1) % 256
      [] OTHER                 -> f.FrequencyDiff

\* Fault: too few samples in half a cycle are not corrected.
AdjustedUpOnly(f) ==
    IF f.tickCnt > HalfCycle THEN (f.FrequencyDiff + 1) % 256 ELSE f.FrequencyDiff

\* FrequencyDiff, a uint8_t, after half a cycle of tickCnt samples.
Adjusted(f) ==
    CASE f.tickCnt > HalfCycle -> (f.FrequencyDiff + 1) % 256
      [] f.tickCnt < HalfCycle -> (f.FrequencyDiff - 1) % 256
      [] OTHER                 -> f.FrequencyDiff

\* Once started, samples are counted from one zero crossing to the next, and a
\* correction starts over.
MeterFrequency(f, value) ==
    IF Crossed(f, value) /\ f.started
    THEN [started |-> f.tickCnt = HalfCycle,
          previousVoltage |-> value,
          tickCnt |-> 0,
          FrequencyDiff |-> Adjusted(f),
          TickPeriod |-> IF f.tickCnt = HalfCycle THEN f.TickPeriod ELSE Adjusted(f)]
    ELSE [f EXCEPT !.previousVoltage = value,
                   !.started = @ \/ Crossed(f, value),
                   !.tickCnt = IF f.started THEN (@ + 1) % 256 ELSE @]

=============================================================================
