----------------------------- MODULE MCChannel -----------------------------
(* A mains of 51.2, 48.4 and 47.5 Hz: with Base = 38 an increment is 2.6 %, *)
(* and at 48.4 Hz the ideal period lies between two increments.             *)
EXTENDS Channel
MCHalfPeriods == {312, 330, 336}
MCPhases == {0, 100}

\* These mains are among those ChannelProofs speaks of.
ASSUME MCProportion == InProportion

\* From no estimate do these amplitudes stay below their root.
ASSUME MCConvergent == Convergent
============================================================================
