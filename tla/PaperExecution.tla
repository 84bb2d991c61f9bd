--------------------------- MODULE PaperExecution ---------------------------
(***************************************************************************)
(* The simulated order path: PaperExecutor.execute and cancel, the         *)
(* reservations of PaperPortfolio, the accounting of fills, and the JSON   *)
(* file a restarted process loads.                                         *)
(*                                                                         *)
(* PaperExecutor.execute awaits once, the simulated latency, before it     *)
(* touches anything; from there to its return it runs without a            *)
(* suspension point.  One call is therefore one action, and calls          *)
(* interleave as whole actions.  Each way through execute is an action of  *)
(* its own: RejectUnfunded, Rest, RejectIlliquid, FillBuy, FillSell.       *)
(*                                                                         *)
(* Money is an integer count of the smallest unit, 1/(FeeDen * SlipDen) of *)
(* a price tick times a lot, so that every product of the code is exact.   *)
(* Of an order book only what execute tells apart is kept: whether there   *)
(* is a book, whether its best price crosses the order, and which (filled  *)
(* quantity, notional) pairs walking its levels can produce.               *)
(***************************************************************************)
EXTENDS Integers, FiniteSetsExt

CONSTANTS
  OrderIds,      \* identities (uuid4) of the orders one run may submit
  Symbols,       \* traded symbols; each has a base asset of its own
  Requests,      \* the order requests callers make
  Views,         \* what the caller's book looks like to an order
  CancelFrom,    \* the statuses from which a client calls cancel
  SlippageMode,  \* settings.paper_slippage_mode
  PartialOk,     \* settings.paper_partial_fills_on_thin_book
  FeeNum, FeeDen,    \* settings.paper_fee_rate       = FeeNum / FeeDen
  SlipNum, SlipDen,  \* paper_fixed_slippage_pct / 100 = SlipNum / SlipDen
  StartQuote,    \* settings.paper_starting_eur, in money units
  MaxPrice,      \* bound: highest price, in ticks
  MaxRestarts    \* bound: crashes in one run

NoPrice == 0     \* limit_price is None
Prices == 1 .. MaxPrice

RequestType ==
  [side : {"buy", "sell"}, kind : {"limit", "market"}, symbol : Symbols,
   qty : Nat \ {0}, price : Prices \cup {NoPrice}]

Statuses == {"NONE", "OPEN", "FILLED", "PARTIALLY_FILLED", "CANCELLED",
             "REJECTED", "LOST"}

ASSUME ConstantsAssumption ==
  /\ Symbols # {}
  /\ Requests \subseteq RequestType
  /\ Views \subseteq {"none", "touch", "away"}
  /\ CancelFrom \subseteq Statuses
  /\ SlippageMode \in {"order_book", "fixed"}
  /\ PartialOk \in BOOLEAN
  /\ FeeDen \in Nat \ {0} /\ FeeNum \in 0 .. FeeDen
  /\ SlipDen \in Nat \ {0} /\ SlipNum \in 0 .. SlipDen - 1
  /\ StartQuote \in Nat
  /\ MaxPrice \in Nat \ {0}
  /\ MaxRestarts \in Nat

VARIABLES
  orders,      \* OrderManager._orders, by id
  quote,       \* AssetBalance of the quote asset
  base,        \* AssetBalance of each symbol's base asset
  position,    \* quantity and total cost basis (average entry * quantity)
  realized,    \* stats.realized_pnl
  processed,   \* AccountingEngine._processed_fill_ids (a fill's id is its order's)
  disk,        \* the portfolio part of the persisted JSON file
  restarts     \* crashes so far (bounded)

portfolio == <<quote, base, position, realized, processed>>
vars == <<orders, portfolio, disk, restarts>>

-----------------------------------------------------------------------------
(* Balances: PaperPortfolio.reserve and release_reservation.               *)

Total(b) == b.available + b.reserved

Reserve(b, amount) ==
  [available |-> b.available - amount, reserved |-> b.reserved + amount]

\* reserve() leaves the balance alone and returns False when it is short.
TryReserve(b, amount) == IF b.available >= amount THEN Reserve(b, amount) ELSE b

\* release_reservation() never releases more than the asset's pooled reserve.
Release(b, amount) ==
  LET r == IF amount <= b.reserved THEN amount ELSE b.reserved
  IN  [available |-> b.available + r, reserved |-> b.reserved - r]

-----------------------------------------------------------------------------
(* Prices, fees and fill plans.                                            *)

WithFee(notional) == notional * (FeeDen + FeeNum)
NetOfFee(notional) == notional * (FeeDen - FeeNum)

\* The amount execute reserves: quote at the limit price (or the mark) plus
\* the fee for a buy, base for a sell; nothing for a buy of unknown price.
Needed(r, mark) ==
  IF r.side = "buy"
  THEN WithFee(r.qty * (IF r.price # NoPrice THEN r.price ELSE mark) * SlipDen)
  ELSE r.qty

Limited(r) == r.kind = "limit" /\ r.price # NoPrice

\* A limit order rests when there is a book that it does not cross.
Rests(r, view) == Limited(r) /\ view = "away"

\* The prices of the levels that walking the book may consume: none beyond
\* the limit of a limit order.
WalkPrices(r) ==
  {p \in Prices : Limited(r) => IF r.side = "buy" THEN p <= r.price
                                                  ELSE p >= r.price}

\* What _walk_book can return for some book: a quantity, whole when partial
\* fills are off, and a notional between the extreme prices it may consume.
WalkPlans(r) ==
  {plan \in [filled : IF PartialOk THEN 1 .. r.qty ELSE {r.qty},
             notional : {n * SlipDen : n \in 1 .. r.qty * MaxPrice}] :
     \E lo, hi \in WalkPrices(r) :
       /\ plan.filled * lo * SlipDen <= plan.notional
       /\ plan.notional <= plan.filled * hi * SlipDen}

\* Fixed slippage moves a reference price, the limit if there is one, else
\* the best price of the book, and fills the whole quantity there.
FixedPlans(r, view) ==
  LET refs == IF r.price # NoPrice THEN {r.price}
              ELSE IF view = "touch" THEN Prices ELSE {}
      slip == IF r.side = "buy" THEN SlipDen + SlipNum ELSE SlipDen - SlipNum
  IN  {[filled |-> r.qty, notional |-> r.qty * ref * slip] : ref \in refs}

WalksBook(view) == SlippageMode = "order_book" /\ view # "none"

FillPlans(r, view) ==
  IF ~WalksBook(view) THEN FixedPlans(r, view)
  ELSE IF view = "touch" THEN WalkPlans(r) ELSE {}

\* _simulate_fill returns None: no reference price, or a book too thin.
MayBeIlliquid(r, view) == WalksBook(view) \/ FixedPlans(r, view) = {}

-----------------------------------------------------------------------------
(* AccountingEngine.apply_fill, as functions of the old state.             *)

\* Quote spent by a buy: from the pooled reserve, then from the available
\* balance, and clamped to what there is when both fall short.
Spend(b, cost) ==
  IF b.reserved >= cost THEN [b EXCEPT !.reserved = @ - cost]
  ELSE IF Total(b) >= cost THEN [available |-> Total(b) - cost, reserved |-> 0]
  ELSE [available |-> 0, reserved |-> 0]

\* Base delivered by a sell: from the reserve, then from the available.
Deliver(b, qty) ==
  IF b.reserved >= qty THEN [b EXCEPT !.reserved = @ - qty]
  ELSE [available |-> Total(b) - qty, reserved |-> 0]

Credit(b, amount) == [b EXCEPT !.available = @ + amount]

Acquire(p, qty, cost) == [qty |-> p.qty + qty, cost |-> p.cost + cost]

\* The cost basis that a sale takes out of the position.
CostShare(p, qty) == IF p.qty = 0 THEN 0 ELSE (p.cost * qty) \div p.qty

\* Mutants: a sale closes the position; a sale leaves the cost basis.
DisposeAll(p, qty) == [qty |-> 0, cost |-> 0]
DisposeQuantity(p, qty) == [p EXCEPT !.qty = IF @ <= qty THEN 0 ELSE @ - qty]

Dispose(p, qty) ==
  IF p.qty <= qty THEN [qty |-> 0, cost |-> 0]
  ELSE [qty |-> p.qty - qty, cost |-> p.cost - CostShare(p, qty)]

\* Mutant: nothing is realised when the position is closed.
RealizedByPart(p, qty, proceeds) ==
  IF p.qty > qty /\ p.cost > 0 THEN proceeds - CostShare(p, qty) ELSE 0

RealizedBy(p, qty, proceeds) ==
  IF p.qty > 0 /\ p.cost > 0 THEN proceeds - CostShare(p, qty) ELSE 0

\* The effect of a fill whose id is new; `q` and `b` are the balances it finds.
BookBuy(id, s, qty, cost, q) ==
  /\ quote' = Spend(q, cost)
  /\ base' = [base EXCEPT ![s] = Credit(@, qty)]
  /\ position' = [position EXCEPT ![s] = Acquire(@, qty, cost)]
  /\ realized' = realized
  /\ processed' = processed \cup {id}

BookSell(id, s, qty, proceeds, b) ==
  /\ quote' = Credit(quote, proceeds)
  /\ base' = [base EXCEPT ![s] = Deliver(b, qty)]
  /\ position' = [position EXCEPT ![s] = Dispose(@, qty)]
  /\ realized' = realized + RealizedBy(position[s], qty, proceeds)
  /\ processed' = processed \cup {id}

-----------------------------------------------------------------------------
(* PaperExecutor.execute.                                                  *)

NoOrder == [side |-> "buy", kind |-> "limit", symbol |-> CHOOSE s \in Symbols : TRUE,
            qty |-> 1, price |-> NoPrice, filled |-> 0, notional |-> 0,
            status |-> "NONE"]

\* The Order record that execute leaves in the OrderManager.
Placed(r, plan, status) ==
  [side |-> r.side, kind |-> r.kind, symbol |-> r.symbol, qty |-> r.qty,
   price |-> r.price, filled |-> plan.filled, notional |-> plan.notional,
   status |-> status]

Unfilled == [filled |-> 0, notional |-> 0]

\* The mark price an unpriced buy is estimated at; unused by other requests.
Marks(r) == IF r.side = "buy" /\ r.price = NoPrice
            THEN Prices \cup {NoPrice} ELSE {NoPrice}

Balance(r) == IF r.side = "buy" THEN quote ELSE base[r.symbol]

\* Mutant: funds reserved by other orders count as well.
FundedByTotal(r, mark) == Total(Balance(r)) >= Needed(r, mark)

Funded(r, mark) == Balance(r).available >= Needed(r, mark)

Record(id, r, plan, status) ==
  /\ orders[id].status = "NONE"
  /\ orders' = [orders EXCEPT ![id] = Placed(r, plan, status)]

FillStatus(r, plan) ==
  IF plan.filled >= r.qty THEN "FILLED" ELSE "PARTIALLY_FILLED"

\* INSUFFICIENT_BALANCE: nothing is reserved.
RejectUnfunded(id, r, mark) ==
  /\ ~Funded(r, mark)
  /\ Record(id, r, Unfilled, "REJECTED")
  /\ UNCHANGED <<portfolio, disk, restarts>>

\* A limit order that is not marketable stays OPEN and keeps its reservation.
Rest(id, r, mark, view) ==
  /\ Funded(r, mark)
  /\ Rests(r, view)
  /\ Record(id, r, Unfilled, "OPEN")
  /\ IF r.side = "buy"
     THEN /\ quote' = Reserve(quote, Needed(r, mark))
          /\ UNCHANGED base
     ELSE /\ base' = [base EXCEPT ![r.symbol] = Reserve(@, Needed(r, mark))]
          /\ UNCHANGED quote
  /\ UNCHANGED <<position, realized, processed, disk, restarts>>

\* INSUFFICIENT_LIQUIDITY: the reservation is made and released again.
RejectIlliquid(id, r, mark, view) ==
  /\ Funded(r, mark)
  /\ ~Rests(r, view)
  /\ MayBeIlliquid(r, view)
  /\ Record(id, r, Unfilled, "REJECTED")
  /\ IF r.side = "buy"
     THEN /\ quote' = Release(Reserve(quote, Needed(r, mark)), Needed(r, mark))
          /\ UNCHANGED base
     ELSE /\ base' = [base EXCEPT ![r.symbol] =
                        Release(Reserve(@, Needed(r, mark)), Needed(r, mark))]
          /\ UNCHANGED quote
  /\ UNCHANGED <<position, realized, processed, disk, restarts>>

\* Mutant: what a partial fill does not need stays reserved.
AdjustUpOnly(q, reserved, cost) ==
  IF reserved > cost THEN q ELSE TryReserve(q, cost - reserved)

\* _adjust_reservation_after_fill: give back what the fill does not need, or
\* try to reserve what it needs beyond the reservation; the attempt may fail
\* and execute goes on regardless.
AdjustQuote(q, reserved, cost) ==
  IF reserved > cost THEN Release(q, reserved - cost)
                     ELSE TryReserve(q, cost - reserved)

AdjustBase(b, reserved, filled) == Release(b, reserved - filled)

\* The quote balance a buy leaves for the accounting of its fill.
ReadyQuote(r, mark, plan) ==
  AdjustQuote(Reserve(quote, Needed(r, mark)), Needed(r, mark),
              WithFee(plan.notional))

ReadyBase(r, mark, plan) ==
  AdjustBase(Reserve(base[r.symbol], Needed(r, mark)), Needed(r, mark),
             plan.filled)

FillBuy(id, r, mark, view, plan) ==
  /\ r.side = "buy"
  /\ Funded(r, mark)
  /\ ~Rests(r, view)
  /\ plan \in FillPlans(r, view)
  /\ Record(id, r, plan, FillStatus(r, plan))
  /\ BookBuy(id, r.symbol, plan.filled, WithFee(plan.notional),
             ReadyQuote(r, mark, plan))
  /\ UNCHANGED <<disk, restarts>>

FillSell(id, r, mark, view, plan) ==
  /\ r.side = "sell"
  /\ Funded(r, mark)
  /\ ~Rests(r, view)
  /\ plan \in FillPlans(r, view)
  /\ Record(id, r, plan, FillStatus(r, plan))
  /\ BookSell(id, r.symbol, plan.filled, NetOfFee(plan.notional),
              ReadyBase(r, mark, plan))
  /\ UNCHANGED <<disk, restarts>>

-----------------------------------------------------------------------------
(* PaperExecutor.cancel.                                                   *)

\* The price cancel releases a buy's remaining quantity at: the limit, else
\* the average fill price, else zero.
CancelRelease(o) ==
  LET left == o.qty - o.filled
  IN  IF o.side = "sell" THEN left
      ELSE IF o.price # NoPrice THEN WithFee(left * o.price * SlipDen)
      ELSE IF o.filled > 0 THEN WithFee((left * o.notional) \div o.filled)
      ELSE 0

\* Orders that are FILLED or REJECTED are returned untouched; any other known
\* order, CANCELLED ones included, has its remainder released.
Cancel(id) ==
  LET o == orders[id]
  IN  /\ o.status \in CancelFrom \ {"NONE", "LOST", "FILLED", "REJECTED"}
      /\ orders' = [orders EXCEPT ![id].status = "CANCELLED"]
      /\ IF o.side = "buy"
         THEN /\ quote' = Release(quote, CancelRelease(o))
              /\ UNCHANGED base
         ELSE /\ base' = [base EXCEPT ![o.symbol] = Release(@, CancelRelease(o))]
              /\ UNCHANGED quote
      /\ UNCHANGED <<position, realized, processed, disk, restarts>>

-----------------------------------------------------------------------------
(* Duplicated fills, persistence and restarts.                             *)

\* Mutant: only the fills of this process are remembered.
AppliedByThisProcess(id) == id \in processed /\ orders[id].status # "LOST"

\* apply_fill ignores a fill whose id it has processed or loaded.
AlreadyApplied(id) == id \in processed

\* A fill that was recorded is applied once more: FillTracker.apply of an
\* order still in memory, or of a row saved with the portfolio it is in.
Redeliver(id) ==
  LET o == orders[id]
  IN  /\ o.filled > 0
      /\ o.status = "LOST" => id \in disk.processed
      /\ IF AlreadyApplied(id)
         THEN UNCHANGED portfolio
         ELSE IF o.side = "buy"
         THEN BookBuy(id, o.symbol, o.filled, WithFee(o.notional), quote)
         ELSE BookSell(id, o.symbol, o.filled, NetOfFee(o.notional),
                       base[o.symbol])
      /\ UNCHANGED <<orders, disk, restarts>>

\* The durable part of PaperTradingStore.persist (an atomic file replace).
Persist ==
  /\ disk' = [quote |-> quote, base |-> base, position |-> position,
              realized |-> realized, processed |-> processed]
  /\ UNCHANGED <<orders, portfolio, restarts>>

\* The process dies; PaperTradingStore.load rebuilds the portfolio and its
\* processed fill ids.  The new OrderManager is empty: orders are LOST.
Restart ==
  /\ restarts < MaxRestarts
  /\ restarts' = restarts + 1
  /\ quote' = disk.quote
  /\ base' = disk.base
  /\ position' = disk.position
  /\ realized' = disk.realized
  /\ processed' = disk.processed
  /\ orders' = [id \in OrderIds |->
                  IF orders[id].status = "NONE" THEN orders[id]
                  ELSE [orders[id] EXCEPT !.status = "LOST"]]
  /\ UNCHANGED disk

-----------------------------------------------------------------------------

InitQuote == [available |-> StartQuote, reserved |-> 0]
InitBase == [s \in Symbols |-> [available |-> 0, reserved |-> 0]]
InitPosition == [s \in Symbols |-> [qty |-> 0, cost |-> 0]]

\* Without a file, load is not reached and the portfolio is a new one: the
\* disk starts with what a restart then yields.
Init ==
  /\ orders = [id \in OrderIds |-> NoOrder]
  /\ quote = InitQuote
  /\ base = InitBase
  /\ position = InitPosition
  /\ realized = 0
  /\ processed = {}
  /\ disk = [quote |-> InitQuote, base |-> InitBase, position |-> InitPosition,
             realized |-> 0, processed |-> {}]
  /\ restarts = 0

Execute(id, r) ==
  \E mark \in Marks(r) :
    \/ RejectUnfunded(id, r, mark)
    \/ \E view \in Views :
         \/ Rest(id, r, mark, view)
         \/ RejectIlliquid(id, r, mark, view)
         \/ \E plan \in FillPlans(r, view) :
              \/ FillBuy(id, r, mark, view, plan)
              \/ FillSell(id, r, mark, view, plan)

Next ==
  \/ \E id \in OrderIds, r \in Requests : Execute(id, r)
  \/ \E id \in OrderIds : Cancel(id) \/ Redeliver(id)
  \/ Persist
  \/ Restart

Spec == Init /\ [][Next]_vars

-----------------------------------------------------------------------------
(* Properties.                                                             *)

BalanceType == [available : Int, reserved : Int]
PositionType == [qty : Nat, cost : Nat]

OrderType == [side : {"buy", "sell"}, kind : {"limit", "market"},
              symbol : Symbols, qty : Nat \ {0}, price : Prices \cup {NoPrice},
              filled : Nat, notional : Nat, status : Statuses]

\* Every variable has its type.
TypeOK ==
  /\ orders \in [OrderIds -> OrderType]
  /\ quote \in BalanceType
  /\ base \in [Symbols -> BalanceType]
  /\ position \in [Symbols -> PositionType]
  /\ realized \in Int
  /\ processed \in SUBSET OrderIds
  /\ disk \in [quote : BalanceType, base : [Symbols -> BalanceType],
               position : [Symbols -> PositionType], realized : Int,
               processed : SUBSET OrderIds]
  /\ restarts \in 0 .. MaxRestarts

\* No balance, available or reserved, is ever negative: reservations, clamped
\* spending and pooled releases never overdraw (accounting.py, portfolio.py).
NonNegative(b) == b.available >= 0 /\ b.reserved >= 0
Solvent == NonNegative(quote) /\ \A s \in Symbols : NonNegative(base[s])

\* The position of a symbol and the balance of its base asset, kept in two
\* places and updated by different statements, always agree.
HoldingsMatchPositions ==
  \A s \in Symbols : Total(base[s]) = position[s].qty

Sum(f(_), S) == MapThenSumSet(f, S)

CostOf(s) == position[s].cost

\* Realised profit explains every unit of cash: cash and the cost basis of
\* what is held sum to the starting capital plus realised profit.  It is what
\* makes equity, drawdown and daily loss mean what the risk engine takes them
\* to mean.
CashConserved ==
  Total(quote) + Sum(CostOf, Symbols) = StartQuote + realized

OpenOrders(side) ==
  {id \in OrderIds : orders[id].status = "OPEN" /\ orders[id].side = side}

QuoteHeldFor(id) == WithFee(orders[id].qty * orders[id].price * SlipDen)
BaseHeldFor(s, id) == IF orders[id].symbol = s THEN orders[id].qty ELSE 0

BaseNeeded(s) == Sum(LAMBDA id : BaseHeldFor(s, id), OpenOrders("sell"))

\* What is reserved of an asset covers what the open orders need, and is that
\* exactly in a process that was not restarted, when orders are cancelled that
\* rest only: "balance with reserved (open-order) amount" (portfolio/models.py).
ReservationsBacked ==
  /\ quote.reserved >= Sum(QuoteHeldFor, OpenOrders("buy"))
  /\ \A s \in Symbols : base[s].reserved >= BaseNeeded(s)
  /\ restarts = 0 =>
       /\ quote.reserved = Sum(QuoteHeldFor, OpenOrders("buy"))
       /\ \A s \in Symbols : base[s].reserved = BaseNeeded(s)

\* Reserved funds can be had back: some open order holds them, and cancelling
\* it releases them.
ReservedIsReleasable ==
  quote.reserved > 0 => OpenOrders("buy") # {}

\* A limit order never trades beyond its limit (_walk_book, "Limit orders
\* cannot cross beyond limit").
FilledWithinLimit ==
  \A id \in OrderIds :
    LET o == orders[id]
    IN  Limited(o) /\ o.filled > 0 =>
          IF o.side = "buy" THEN o.notional <= o.filled * o.price * SlipDen
                            ELSE o.notional >= o.filled * o.price * SlipDen

CashOf(id) == IF orders[id].side = "buy" THEN - WithFee(orders[id].notional)
              ELSE NetOfFee(orders[id].notional)

\* Cash is the starting capital plus what each processed fill moved, once:
\* no fill is lost, repeated or half applied, also across a crash that rolls
\* the portfolio back (FillTracker, load_processed_ids).
CashFollowsFills ==
  Total(quote) = StartQuote + Sum(CashOf, processed)

\* The portfolio implements the ledger: submitting, resting, rejecting and
\* cancelling orders move no asset, only a fill applied for the first time.
Promise == INSTANCE FillLedger WITH
  Fills <- OrderIds,
  cash <- Total(quote),
  holding <- [s \in Symbols |-> Total(base[s])],
  applied <- processed,
  saved <- [cash |-> Total(disk.quote),
            holding |-> [s \in Symbols |-> Total(disk.base[s])],
            applied |-> disk.processed]

ImplementsLedger == Promise!LedgerSpec

\* How the trading engine uses the executor with the default settings: limit
\* orders with a price, against the book of the venue.
EngineUse ==
  /\ SlippageMode = "order_book"
  /\ Views \subseteq {"touch", "away"}
  /\ \A r \in Requests : Limited(r)

\* The local form of CashConserved: a step touches one symbol at most, and
\* what it adds to cash plus the cost of that position is what it realises.
\* (A restart replaces the portfolio as a whole and is left out.)
ConservingStep ==
  \E s \in Symbols :
    /\ \A t \in Symbols \ {s} : position'[t] = position[t]
    /\ Total(quote') + position'[s].cost - realized'
         = Total(quote) + position[s].cost - realized

ConservingSteps == [][Restart \/ ConservingStep]_vars
=============================================================================
