-------------------------- MODULE MC_TradingCycle --------------------------
(***************************************************************************)
(* Small instances of TradingCycle.                                        *)
(***************************************************************************)
EXTENDS TradingCycle

CONSTANTS binance, kraken, BTCEUR, BTCUSDT

TwoVenues == {binance, kraken}
TwoSymbols == {BTCEUR, BTCUSDT}
=============================================================================
