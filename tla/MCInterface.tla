----------------------------- MODULE MCInterface -----------------------------
EXTENDS Interface

\* A cycle that seldom carries into the upper word and a large one.
SmallAndLarge == {[energy |-> 15, cost |-> 14], [energy |-> 120, cost |-> 74]}

==============================================================================
