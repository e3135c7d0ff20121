----------------------------- MODULE MCMetering -----------------------------
EXTENDS Metering
\* 1 V and 0.5 V in phase, 1 V and 0.25 V in opposition.
MCReadings == {<<3277, 1638>>, <<-3277, 819>>}
\* A current that flows during half of the cycle only.
MCHalfLoad == {<<3277, 1638>>, <<-3277, 0>>}
============================================================================
