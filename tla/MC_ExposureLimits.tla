------------------------- MODULE MC_ExposureLimits -------------------------
\* Small instances of ExposureLimits.
EXTENDS ExposureLimits, TLC

CONSTANTS BTCEUR, ETHEUR, SOLEUR

TwoSymbols == {BTCEUR, ETHEUR}
ThreeSymbols == {BTCEUR, ETHEUR, SOLEUR}

OneRun == {1}
TwoRuns == {1, 2}

SymbolSymmetry == Permutations(Symbols)
=============================================================================
