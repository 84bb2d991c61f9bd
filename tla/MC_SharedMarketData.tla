------------------------ MODULE MC_SharedMarketData ------------------------
(***************************************************************************)
(* Small instances of SharedMarketData.                                    *)
(***************************************************************************)
EXTENDS SharedMarketData

CONSTANTS BTCEUR, BTCUSDT, primer

OneSymbol == {BTCEUR}
TwoSymbols == {BTCEUR, BTCUSDT}
LoopAndStart == {Poller, primer}
=============================================================================
