------------------------- MODULE MC_PaperExecution -------------------------
(***************************************************************************)
(* Small instances of PaperExecution.                                      *)
(***************************************************************************)
EXTENDS PaperExecution, TLC

CONSTANTS o1, o2, o3, btc, eth

Request(side, kind, symbol, qty, price) ==
  [side |-> side, kind |-> kind, symbol |-> symbol, qty |-> qty, price |-> price]

\* What the trading engine sends: limit orders with a price.  It only buys;
\* the sells are those of a caller of the executor.
EngineRequests ==
  {Request("buy", "limit", s, 2, p) : s \in Symbols, p \in Prices}
    \cup {Request("sell", "limit", s, q, 2) : s \in Symbols, q \in 1 .. 2}

\* Every combination the executor accepts: market orders, missing prices.
AnyRequests ==
  {Request(side, kind, s, q, p) :
     side \in {"buy", "sell"}, kind \in {"limit", "market"}, s \in Symbols,
     q \in 1 .. 2, p \in {NoPrice, 1, 2}}

OpenOnly == {"OPEN"}

IdSymmetry == Permutations(OrderIds)
=============================================================================
