---------------------------- MODULE MC_Arbitrage ----------------------------
\* Small instances of Arbitrage.
EXTENDS Arbitrage, TLC

CONSTANTS binance, kraken, coinbase

TwoVenues == {binance, kraken}
ThreeVenues == {binance, kraken, coinbase}

VenueSymmetry == Permutations(Venues)

Level(price, amount) == [price |-> price, amount |-> amount]

\* Low, middle and high books, thin and deep.
FewBooks ==
  {[asks |-> <<Level(2, 2), Level(3, 1)>>, bids |-> <<Level(1, 2)>>],
   [asks |-> <<Level(2, 1), Level(4, 2)>>, bids |-> <<Level(1, 2)>>],
   [asks |-> <<Level(4, 2)>>, bids |-> <<Level(3, 2)>>],
   [asks |-> <<Level(5, 2)>>, bids |-> <<Level(4, 2), Level(3, 2)>>],
   [asks |-> <<Level(5, 1)>>, bids |-> <<Level(4, 1)>>]}
=============================================================================
