--------------------------- MODULE ExposureLimits ---------------------------
(***************************************************************************)
(* The position limits (bot/risk/position_limits.py and the checks of the  *)
(* risk engine that use them) over the runs of the trading engine: the     *)
(* portfolio snapshot a run decides on, marks that move under it, and what *)
(* the executor's fills, partial and cheaper ones too, make of the         *)
(* portfolio.  The strategy buys only, so that positions only grow.        *)
(*                                                                         *)
(* Of the losses the risk engine looks at there is the drawdown from the   *)
(* peak of the equity, which pauses the kill switch and outlives the       *)
(* process.  The daily loss is one of realized profits, and a portfolio    *)
(* that never sells has none.                                              *)
(*                                                                         *)
(* Money is in hundredths.  Several runs may be under way together, as     *)
(* they are when the runner has more than one loop (PaperSession).         *)
(***************************************************************************)
EXTENDS Integers, FiniteSets, Functions

CONSTANTS
  Symbols,
  Runs,            \* runs of the engine that may be under way together
  MaxPrice,        \* bound: prices
  MaxQuantity,     \* bound: quantity of an opportunity
  MaxFound,        \* bound: opportunities of a run
  StartCash,       \* paper_starting_eur, in hundredths
  FeePct,
  MaxNotional,     \* risk_max_position_usd, in hundredths
  MaxPositionPct,  \* max_position_percent
  MaxExposurePct,  \* max_total_exposure_percent
  MaxOpen,         \* max_simultaneous_positions
  MaxDrawdownPct   \* max_drawdown_percent

ASSUME LimitsAssumption ==
  /\ IsFiniteSet(Symbols)
  /\ {MaxPrice, MaxQuantity, MaxFound, MaxNotional, MaxPositionPct, MaxExposurePct, MaxOpen,
      MaxDrawdownPct}
       \subseteq Nat \ {0}
  /\ {StartCash, FeePct} \subseteq Nat

VARIABLES
  cash,      \* quote balance, available and reserved
  quantity,  \* of the position in each symbol
  cost,      \* average_entry_price times quantity: fees are in it
  mark,      \* mark_prices
  peak,      \* stats.peak_equity
  paused,    \* the kill switch is paused for a drawdown
  drawdownOk, \* the condition of that name, of the last evaluation
  runs,      \* where each run is, and the snapshot it has
  highest    \* the highest equity there ever was (history)

portfolio == <<cash, quantity, cost>>
equityVars == <<portfolio, mark, peak, highest>>
switchVars == <<paused, drawdownOk>>
vars == <<equityVars, switchVars, runs>>

Prices == 1 .. MaxPrice
Quantities == 1 .. MaxQuantity

\* `highest` is history too: what it was when the snapshot was taken.
Snapshots == [equity : Nat, exposure : Nat, open : Nat, peak : Nat, highest : Nat]
NoSnapshot == [equity |-> 0, exposure |-> 0, open |-> 0, peak |-> 0, highest |-> 0]

\* An order is an opportunity, the quantity it was approved for, and the
\* snapshot the decision was made on, which is the run's.
Orders == [price : Prices, wanted : Quantities, quantity : 0 .. MaxQuantity]
NoOrder == [price |-> 1, wanted |-> 1, quantity |-> 0]

Idle(symbol) ==
  [pc |-> "idle", symbol |-> symbol, left |-> 0, snapshot |-> NoSnapshot, order |-> NoOrder]

-----------------------------------------------------------------------------
(* The portfolio.                                                          *)

Exposure == SumFunction(cost)
Equity == cash + SumFunction([s \in Symbols |-> 100 * quantity[s] * mark[s]])
Open == Cardinality({s \in Symbols : quantity[s] > 0})

\* get_snapshot
Snapshot ==
  [equity |-> Equity, exposure |-> Exposure, open |-> Open, peak |-> peak, highest |-> highest]

AtLeast(a, b) == IF a > b THEN a ELSE b

\* _update_drawdown, after whatever moves the equity.
UpdateDrawdown ==
  /\ peak' = AtLeast(peak, Equity')
  /\ highest' = AtLeast(highest, Equity')

-----------------------------------------------------------------------------
(* The limits: what an opportunity asks for against a snapshot.            *)

Requested(o) == 100 * o.wanted * o.price

AtMost(a, b) == IF a < b THEN a ELSE b

\* Percentages of equity, in hundredths of hundredths.
Remaining(snapshot) ==
  IF MaxExposurePct * snapshot.equity > 100 * snapshot.exposure
  THEN MaxExposurePct * snapshot.equity - 100 * snapshot.exposure ELSE 0

ByPercent(snapshot) == MaxPositionPct * snapshot.equity

Cap(snapshot) ==
  IF ByPercent(snapshot) > 0 THEN AtMost(100 * MaxNotional, ByPercent(snapshot)) ELSE 100 * MaxNotional

\* Mutant: the percentage of a position is not looked at.
BreachedButPercent(o, snapshot) ==
  Requested(o) > MaxNotional \/ 100 * Requested(o) > Remaining(snapshot)

\* breached_codes is not empty.
Breached(o, snapshot) ==
  \/ Requested(o) > MaxNotional
  \/ ByPercent(snapshot) > 0 /\ 100 * Requested(o) > ByPercent(snapshot)
  \/ 100 * Requested(o) > Remaining(snapshot)

\* allowed_quantity, rounded down.
Allowed(o, snapshot) ==
  LET notional == AtMost(Cap(snapshot), Remaining(snapshot))
  IN  AtMost(o.wanted, notional \div (10000 * o.price))

\* A decision without a size leaves the request's.
Size(o, snapshot) == IF Allowed(o, snapshot) > 0 THEN Allowed(o, snapshot) ELSE o.wanted

\* Mutant: one more than the limit.
RoomForOneMore(snapshot) == snapshot.open <= MaxOpen

Room(snapshot) == snapshot.open < MaxOpen

Approves(o, snapshot) == Room(snapshot) /\ ~Breached(o, snapshot)

\* The drawdown has reached its limit.
DrawnDown(snapshot) ==
  snapshot.peak > 0 /\ 100 * (snapshot.peak - snapshot.equity) >= MaxDrawdownPct * snapshot.peak

-----------------------------------------------------------------------------
(* Runs of the engine.                                                     *)

\* A run suspends while it loads the books and in the executor's latency: not
\* from its snapshot to the order, nor from a fill to the next decision.
Undisturbed(r) == \A other \in Runs \ {r} : runs[other].pc # "evaluating"

\* The marks that the snapshot is made with are those of earlier runs.  A run
\* for another symbol begins in a cycle whose first run paused the switch.
Begin(r, symbol, found) ==
  /\ runs[r].pc = "idle" /\ Undisturbed(r)
  /\ runs' = [runs EXCEPT ![r] = [pc |-> "evaluating", symbol |-> symbol, left |-> found,
                                   snapshot |-> Snapshot, order |-> NoOrder]]
  /\ UNCHANGED <<equityVars, switchVars>>

\* What the run has left when it is through with an opportunity.
Through(r) ==
  [runs[r] EXCEPT !.pc = IF runs[r].left > 1 THEN "evaluating" ELSE "idle",
                  !.left = @ - 1, !.order = NoOrder]

Reject(r) == runs' = [runs EXCEPT ![r] = Through(r)]

\* An opportunity before the risk engine.  Its set_mark_price moves the
\* portfolio's equity, not the snapshot's; the conditions for a recovery are
\* looked at first.  Gates that are not modelled here may reject before the
\* drawdown is looked at.
Evaluate(r, last, o) ==
  /\ runs[r].pc = "evaluating"
  /\ mark' = [mark EXCEPT ![runs[r].symbol] = last]
  /\ UNCHANGED portfolio
  /\ UpdateDrawdown
  /\ LET snapshot == runs[r].snapshot IN
       /\ drawdownOk' = ~DrawnDown(snapshot)
       /\ \/ Reject(r) /\ UNCHANGED paused
          \/ ~paused /\ DrawnDown(snapshot) /\ Reject(r) /\ paused' = TRUE
          \/ /\ ~paused /\ ~DrawnDown(snapshot) /\ Approves(o, snapshot)
             /\ runs' = [runs EXCEPT ![r].pc = "placing",
                                     ![r].order = [o EXCEPT !.quantity = Size(o, snapshot)]]
             /\ UNCHANGED paused

Gross(filled, price) == 100 * filled * price
Paid(filled, price) == Gross(filled, price) + FeePct * filled * price

\* Mutant: the snapshot is the one the run began with.
SnapshotKept(r) == runs[r].snapshot

SnapshotAfter(r) == Snapshot'

\* Nothing is filled when the order rests, or when its cost at its limit cannot
\* be reserved.
Fill(r, filled, price) ==
  /\ runs[r].pc = "placing" /\ Undisturbed(r)
  /\ filled <= runs[r].order.quantity /\ price <= runs[r].order.price
  /\ filled > 0 => Paid(runs[r].order.quantity, runs[r].order.price) <= cash
  /\ cash' = cash - Paid(filled, price)
  /\ quantity' = [quantity EXCEPT ![runs[r].symbol] = @ + filled]
  /\ cost' = [cost EXCEPT ![runs[r].symbol] = @ + Paid(filled, price)]
  /\ UNCHANGED <<mark, switchVars>>
  /\ UpdateDrawdown
  /\ runs' = [runs EXCEPT ![r] = [Through(r) EXCEPT !.snapshot = SnapshotAfter(r)]]

-----------------------------------------------------------------------------
(* The operator, and the next process.                                     *)

\* recover accepts when the last conditions were good.
Recover ==
  /\ paused /\ drawdownOk
  /\ paused' = FALSE
  /\ UNCHANGED <<equityVars, drawdownOk, runs>>

\* Mutant: the peak is not restored.
PeakAfresh == Equity

PeakReloaded == peak

\* A shutdown, whose save the next process loads: orders in their latency are
\* cancelled, and the kill switch remembers nothing.
Restart ==
  /\ peak' = PeakReloaded
  /\ paused' = FALSE
  /\ drawdownOk' = FALSE
  /\ runs' = [r \in Runs |-> Idle(runs[r].symbol)]
  /\ UNCHANGED <<portfolio, mark, highest>>

-----------------------------------------------------------------------------

Init ==
  /\ cash = StartCash
  /\ quantity = [s \in Symbols |-> 0]
  /\ cost = [s \in Symbols |-> 0]
  /\ mark = [s \in Symbols |-> 1]
  /\ peak = StartCash /\ highest = StartCash
  /\ paused = FALSE /\ drawdownOk = FALSE
  /\ \E symbol \in Symbols : runs = [r \in Runs |-> Idle(symbol)]

Run(r) ==
  \/ \E symbol \in Symbols, found \in 1 .. MaxFound : Begin(r, symbol, found)
  \/ \E last \in Prices, price \in Prices, wanted \in Quantities :
       Evaluate(r, last, [price |-> price, wanted |-> wanted, quantity |-> 0])
  \/ \E filled \in 0 .. MaxQuantity, price \in Prices : Fill(r, filled, price)

Next ==
  \/ \E r \in Runs : Run(r)
  \/ Recover
  \/ Restart

Spec == Init /\ [][Next]_vars

-----------------------------------------------------------------------------
(* Properties.                                                             *)

\* Every variable has its type.
TypeOK ==
  /\ cash \in 0 .. StartCash
  /\ quantity \in [Symbols -> Nat] /\ cost \in [Symbols -> Nat]
  /\ mark \in [Symbols -> Prices]
  /\ peak \in Nat /\ highest \in Nat
  /\ paused \in BOOLEAN /\ drawdownOk \in BOOLEAN
  /\ runs \in [Runs -> [pc : {"idle", "evaluating", "placing"}, symbol : Symbols,
                        left : 0 .. MaxFound, snapshot : Snapshots, order : Orders]]

\* No more positions are open than may be, whatever was filled in the same run
\* before (the check of open_position_count, with the snapshot refreshed).
OpenWithinLimit == Open <= MaxOpen

\* A fill leaves no more exposure than the percentage of the equity it was
\* approved on, but for its own fee (PositionLimitCalculator.evaluate).
ExposureWithinLimit ==
  [][\A r \in Runs :
       runs[r].pc = "placing" /\ cost # cost' =>
         100 * Exposure' <= MaxExposurePct * runs[r].snapshot.equity
                              + 100 * FeePct * runs[r].order.quantity * runs[r].order.price]_vars

\* An approval is for the whole of what was asked: the limits reject and never
\* reduce, so that a size of zero, which the engine takes for the size of the
\* request, is never approved (max_allowed_quantity, _execute_opportunity).
ApprovedWhole ==
  \A r \in Runs : runs[r].pc = "placing" =>
    /\ runs[r].order.quantity = runs[r].order.wanted
    /\ Allowed(runs[r].order, runs[r].snapshot) = runs[r].order.wanted

\* No order is placed from a portfolio that, when it was last looked at, was
\* max_drawdown_percent or more below the highest equity it ever had, in this
\* process or an earlier one that was shut down (_update_drawdown, load_state,
\* "Drawdown ... exceeds max", the message of the risk engine's rejection).
DrawdownObeyed ==
  \A r \in Runs : runs[r].pc = "placing" =>
    ~DrawnDown([runs[r].snapshot EXCEPT !.peak = runs[r].snapshot.highest])

\* The same at the marks the order's opportunity came with: refuted, as the
\* snapshot is older than they are.
DrawdownObeyedAtMarks ==
  [][\A r \in Runs : runs[r].pc # "placing" /\ runs'[r].pc = "placing" =>
       ~DrawnDown(Snapshot')]_vars

\* A buy leaves no position above max_position_percent of the equity it was
\* approved on ("Position ... exceeds ...% of portfolio", the message of the
\* risk engine's rejection); without fees, which only make it worse.
PositionWithinPercent ==
  [][\A r \in Runs, s \in Symbols :
       runs[r].pc = "placing" /\ cost'[s] # cost[s] =>
         100 * cost'[s] <= MaxPositionPct * runs[r].snapshot.equity]_vars
=============================================================================
