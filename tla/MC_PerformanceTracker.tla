----------------------- MODULE MC_PerformanceTracker -----------------------
\* Small instances of PerformanceTracker.
EXTENDS PerformanceTracker, TLC

CONSTANTS there, back  \* the two directions of two exchanges

OneTask == {1}
TwoTasks == {1, 2}
BothWays == {there, back}
OneWay == {there}

PairSymmetry == Permutations(Pairs)
=============================================================================
