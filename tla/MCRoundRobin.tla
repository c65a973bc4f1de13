--------------------------- MODULE MCRoundRobin ---------------------------
EXTENDS RoundRobin, TLC

\* Tasks sleep and are woken by interrupts, but never end.
LastingCalls == {"Yield", "Create", "Sleep", "WaitWithTimeout", "Clear"}
Symmetry == Permutations(Task \ {Main})

=============================================================================
