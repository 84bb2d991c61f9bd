------------------------------ MODULE Arbitrage ------------------------------
(***************************************************************************)
(* How the arbitrage strategy prices an opportunity and what becomes of it *)
(* (bot/strategies/arbitrage.py, bot/profitability/, and the loop of       *)
(* PaperExecutor._walk_book): for each ordered pair of venues the depth    *)
(* both sides have, the walk through the asks of one and the bids of the   *)
(* other, the NET profit of the two, and then the order of the engine,     *)
(* limited to the average price quoted, walked through the asks once more. *)
(*                                                                         *)
(* A scan does not suspend: books change in the latency of an order only,  *)
(* and so between the scan and the second and later orders.  An average    *)
(* price is kept as the cost it comes from.  Amounts of money that fees    *)
(* are taken of are in hundredths, so that every rate is a percentage.     *)
(***************************************************************************)
EXTENDS Integers, Sequences, FiniteSets

CONSTANTS
  Venues,
  MaxPrice,      \* bound: prices of a level
  MaxAmount,     \* bound: amount of a level
  MaxLevels,     \* bound: levels of a side
  MaxQuantity,   \* arbitrage_max_quantity
  MinLiquidity,  \* arbitrage_min_liquidity_base
  FeePct,        \* taker fee
  SlippagePct,   \* profitability_slippage_bps
  BufferPct,     \* profitability_execution_buffer_bps
  MinProfit,     \* arbitrage_min_profit_eur, in hundredths
  MinReturnPct,  \* arbitrage_min_profit_pct
  Opening,       \* bound: the books that come up
  None

ASSUME ArbitrageAssumption ==
  /\ {MaxPrice, MaxAmount, MaxLevels, MaxQuantity, MinLiquidity} \subseteq Nat \ {0}
  /\ MinLiquidity <= MaxQuantity
  /\ {FeePct, SlippagePct, BufferPct, MinProfit, MinReturnPct} \subseteq Nat

Levels == [price : 1 .. MaxPrice, amount : 1 .. MaxAmount]

Sides == UNION {[1 .. n -> Levels] : n \in 1 .. MaxLevels}

AskSides == {s \in Sides : \A i, j \in DOMAIN s : i < j => s[i].price < s[j].price}
BidSides == {s \in Sides : \A i, j \in DOMAIN s : i < j => s[i].price > s[j].price}

\* A book as the market-data service shows it: both sides, not crossed.
Books == {b \in [asks : AskSides, bids : BidSides] : b.bids[1].price < b.asks[1].price}

ASSUME OpeningAssumption == Opening \subseteq Books

Pairs == {p \in Venues \X Venues : p[1] # p[2]}

Opportunities ==
  [pair : Pairs, quantity : Nat, cost : Nat, proceeds : Nat]

ASSUME NoneAssumption == None \notin Opportunities

VARIABLES
  books,     \* the books of the venues
  pc,        \* "scan", "buying", "selling", "trade", "latency" or "filling"
  left,      \* pairs the scan has not come to, as [buy, sell]
  pair,      \* the pair being evaluated
  quantity,  \* of the candidate
  walk,      \* a walk through levels: where it is, what it has taken
  cost,      \* what the quantity costs on the asks
  found,     \* opportunities emitted by the scan
  pending,   \* those the engine has not come to
  order,     \* the opportunity being executed
  filled     \* the latest fill: its order, quantity and cost

vars == <<books, pc, left, pair, quantity, walk, cost, found, pending, order, filled>>

-----------------------------------------------------------------------------
(* Pure parts.                                                             *)

AtMost(a, b) == IF a < b THEN a ELSE b

\* _side_depth: the units there are on a side.
Depth(side) ==
  Cardinality({u \in (DOMAIN side) \X (1 .. MaxAmount) : u[2] <= side[u[1]].amount})

Liquid(v) == Depth(books[v].asks) >= MinLiquidity /\ Depth(books[v].bids) >= MinLiquidity

Quantity(p) ==
  AtMost(AtMost(Depth(books[p[1]].asks), Depth(books[p[2]].bids)), MaxQuantity)

\* estimate of net_profit.py for a buy and a sale at taker fees, without a
\* book to add impact and without funding: in hundredths.
Net(spent, proceeds) ==
  100 * (proceeds - spent)
    - FeePct * spent - FeePct * proceeds
    - SlippagePct * (spent + proceeds)
    - BufferPct * spent

\* Mutant: the gross profit opens the gate.
ClearsGross(spent, proceeds) == proceeds > spent

\* _disallow_reasons, and the same thresholds again in _gate_candidate.
Clears(spent, proceeds) ==
  /\ Net(spent, proceeds) > 0
  /\ Net(spent, proceeds) >= MinProfit
  /\ Net(spent, proceeds) >= MinReturnPct * spent

-----------------------------------------------------------------------------
(* The loop that walks through levels, of walk_book and of _walk_book.     *)

NewWalk(levels, wanted) ==
  [levels |-> levels, at |-> 1, remaining |-> wanted, filled |-> 0, notional |-> 0]

\* Mutant: the limit of an order is not looked at.
AnyPrice(price) == TRUE

\* A level an order may take: its limit is the average price quoted.
WithinLimit(price) == order # None => price * order.quantity <= order.cost

WalkGoesOn ==
  /\ walk.remaining > 0
  /\ walk.at <= Len(walk.levels)
  /\ WithinLimit(walk.levels[walk.at].price)

Taken(level) == AtMost(walk.remaining, level.amount)

WalkOn ==
  /\ pc \in {"buying", "selling", "filling"}
  /\ WalkGoesOn
  /\ LET level == walk.levels[walk.at]
         take == Taken(level)
     IN  walk' = [walk EXCEPT !.at = @ + 1,
                              !.remaining = @ - take,
                              !.filled = @ + take,
                              !.notional = @ + take * level.price]
  /\ UNCHANGED <<books, pc, left, pair, quantity, cost, found, pending, order, filled>>

WalkOver(at) == pc = at /\ ~WalkGoesOn

-----------------------------------------------------------------------------
(* The scan.                                                               *)

\* Mutant: the sides are mixed up, as if the orders were to rest in the book.
MakerSide(v, action) == IF action = "buy" THEN books[v].bids ELSE books[v].asks

\* The levels that an order of the kind takes from the book of the venue.
TakerSide(v, action) == IF action = "buy" THEN books[v].asks ELSE books[v].bids

\* Both venues have the depth, so that no pair is discarded for want of it.
Consider(p) ==
  /\ pc = "scan" /\ p \in left
  /\ left' = left \ {p}
  /\ pair' = p
  /\ quantity' = Quantity(p)
  /\ walk' = NewWalk(TakerSide(p[1], "buy"), Quantity(p))
  /\ pc' = "buying"
  /\ UNCHANGED <<books, cost, found, pending, order, filled>>

\* A walk that did not get the whole quantity ends the candidate.
BuyPriced ==
  /\ WalkOver("buying")
  /\ cost' = walk.notional
  /\ walk' = NewWalk(TakerSide(pair[2], "sell"), quantity)
  /\ pc' = IF walk.remaining = 0 THEN "selling" ELSE "scan"
  /\ UNCHANGED <<books, left, pair, quantity, found, pending, order, filled>>

\* The rest of _build_candidate, and _gate_candidate.
Emitted ==
  /\ walk.remaining = 0
  /\ cost < walk.notional
  /\ Clears(cost, walk.notional)

Priced ==
  [pair |-> pair, quantity |-> quantity, cost |-> cost, proceeds |-> walk.notional]

SellPriced ==
  /\ WalkOver("selling")
  /\ found' = IF Emitted THEN found \cup {Priced} ELSE found
  /\ pc' = "scan"
  /\ UNCHANGED <<books, left, pair, quantity, walk, cost, pending, order, filled>>

Scanned ==
  /\ pc = "scan" /\ left = {}
  /\ pending' = found
  /\ pc' = "trade"
  /\ UNCHANGED <<books, left, pair, quantity, walk, cost, found, order, filled>>

-----------------------------------------------------------------------------
(* The engine and the executor.                                            *)

\* Rejected by the risk engine.
Decline(o) ==
  /\ pc = "trade" /\ o \in pending
  /\ pending' = pending \ {o}
  /\ UNCHANGED <<books, pc, left, pair, quantity, walk, cost, found, order, filled>>

\* A limit order at the average price quoted, over the asks there are now.
Place(o) ==
  /\ pc = "trade" /\ o \in pending
  /\ pending' = pending \ {o}
  /\ order' = o
  /\ walk' = NewWalk(books[o.pair[1]].asks, o.quantity)
  /\ pc' = "latency"
  /\ UNCHANGED <<books, left, pair, quantity, cost, found, filled>>

Move(v, asks) ==
  /\ pc = "latency"
  /\ books[v].bids[1].price < asks[1].price
  /\ books' = [books EXCEPT ![v].asks = asks]
  /\ UNCHANGED <<pc, left, pair, quantity, walk, cost, found, pending, order, filled>>

\* The latency is over.  An order whose limit is below the best ask rests.
Rest ==
  /\ pc = "latency"
  /\ ~WithinLimit(walk.levels[1].price)
  /\ order' = None
  /\ pc' = "trade"
  /\ UNCHANGED <<books, left, pair, quantity, walk, cost, found, pending, filled>>

Marketable ==
  /\ pc = "latency"
  /\ WithinLimit(walk.levels[1].price)
  /\ pc' = "filling"
  /\ UNCHANGED <<books, left, pair, quantity, walk, cost, found, pending, order, filled>>

Fill ==
  /\ WalkOver("filling")
  /\ filled' = [order |-> order, quantity |-> walk.filled, cost |-> walk.notional]
  /\ order' = None
  /\ pc' = "trade"
  /\ UNCHANGED <<books, left, pair, quantity, walk, cost, found, pending>>

LiquidPairs == {p \in Pairs : Liquid(p[1]) /\ Liquid(p[2])}

\* The next run of the engine.
Begin ==
  /\ pc = "trade" /\ pending = {}
  /\ left' = LiquidPairs
  /\ found' = {}
  /\ filled' = None
  /\ pc' = "scan"
  /\ UNCHANGED <<books, pair, quantity, walk, cost, pending, order>>

-----------------------------------------------------------------------------

Init ==
  /\ books \in [Venues -> Opening]
  /\ pc = "scan"
  /\ left = LiquidPairs
  /\ pair = None
  /\ quantity = 0
  /\ walk = None
  /\ cost = 0
  /\ found = {}
  /\ pending = {}
  /\ order = None
  /\ filled = None

Scan ==
  \/ \E p \in left : Consider(p)
  \/ BuyPriced \/ SellPriced \/ Scanned

Trade ==
  \/ \E o \in pending : Decline(o) \/ Place(o)
  \/ \E v \in Venues, b \in Opening : Move(v, b.asks)
  \/ Rest \/ Marketable \/ Fill \/ Begin

Next == Scan \/ WalkOn \/ Trade

Spec == Init /\ [][Next]_vars

-----------------------------------------------------------------------------
(* Properties.                                                             *)

\* All ways to take `wanted` from a side.
Takings(side, wanted) ==
  {t \in [DOMAIN side -> 0 .. MaxAmount] :
     /\ \A i \in DOMAIN side : t[i] <= side[i].amount
     /\ LET upTo[i \in 0 .. Len(side)] == IF i = 0 THEN 0 ELSE upTo[i - 1] + t[i]
        IN  upTo[Len(side)] = wanted}

Worth(side, t) ==
  LET upTo[i \in 0 .. Len(side)] == IF i = 0 THEN 0 ELSE upTo[i - 1] + t[i] * side[i].price
  IN  upTo[Len(side)]

\* Every variable has its type.
TypeOK ==
  /\ books \in [Venues -> Books]
  /\ pc \in {"scan", "buying", "selling", "trade", "latency", "filling"}
  /\ left \subseteq Pairs
  /\ pair \in Pairs \cup {None}
  /\ quantity \in Nat
  /\ walk = None \/
     walk \in [levels : Sides, at : 1 .. MaxLevels + 1, remaining : Nat,
               filled : Nat, notional : Nat]
  /\ cost \in Nat
  /\ found \subseteq Opportunities
  /\ pending \subseteq found
  /\ order \in found \cup {None}
  /\ filled = None \/ filled \in [order : found, quantity : Nat, cost : Nat]

\* What a scan quotes is the best there is: no other way to buy the quantity
\* on those asks is cheaper and no other way to sell it dearer (walk_book).
QuotesAreBest ==
  /\ WalkOver("buying") =>
       \A t \in Takings(walk.levels, quantity) : walk.notional <= Worth(walk.levels, t)
  /\ WalkOver("selling") =>
       \A t \in Takings(walk.levels, quantity) : walk.notional >= Worth(walk.levels, t)

\* A candidate's quantity is always there on both sides, so that its average
\* prices are those of one and the same quantity (_build_candidate).
QuotesAreWhole ==
  WalkOver("buying") \/ WalkOver("selling") => walk.filled = quantity

\* A scan never emits an opportunity and its opposite: buying at one venue to
\* sell at the other and the reverse (CrossExchangeArbitrageStrategy).
NeverBothWays ==
  \A o1, o2 \in found : ~(o1.pair[1] = o2.pair[2] /\ o1.pair[2] = o2.pair[1])

\* Whatever became of the books meanwhile, an order never pays more on average
\* than the price its opportunity was found profitable at (_walk_book).
NeverAboveQuote ==
  filled # None =>
    filled.cost * filled.order.quantity <= filled.quantity * filled.order.cost

\* An order that is filled entirely still clears the NET thresholds with what
\* it really cost, also when the books had moved ("emits opportunities only
\* when NET profit clears", ARCHITECTURE.md).
FilledStillPays ==
  filled # None /\ filled.quantity = filled.order.quantity =>
    /\ Net(filled.cost, filled.order.proceeds) > 0
    /\ Net(filled.cost, filled.order.proceeds) >= MinProfit
    /\ Net(filled.cost, filled.order.proceeds) >= MinReturnPct * filled.cost

\* The quantity of an opportunity can be bought at its price on the very asks
\* it was found on ("derives executable VWAP prices from depth", arbitrage.py).
QuoteIsExecutable ==
  [][filled' # None /\ filled # filled' /\ walk.levels = books[order.pair[1]].asks
       => filled'.quantity = filled'.order.quantity]_vars
=============================================================================
