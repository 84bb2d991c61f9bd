----------------------- MODULE PaperExecution_proofs -----------------------
(***************************************************************************)
(* Theorems about PaperExecution, for every set of orders, symbols and     *)
(* requests and every fee and slippage.                                    *)
(***************************************************************************)
EXTENDS PaperExecution, Sums, TLAPS

-----------------------------------------------------------------------------
(* Arithmetic and the operators on balances and positions.                 *)

\* A product of naturals is a natural, positive when both factors are.
LEMMA ProductNat ==
  ASSUME NEW a \in Nat, NEW b \in Nat
  PROVE  a * b \in Nat /\ (a > 0 /\ b > 0 => a * b > 0)
OBVIOUS

\* A natural stays in order when it is multiplied by a natural.
LEMMA ProductMonotone ==
  ASSUME NEW a \in Nat, NEW b \in Nat, NEW c \in Nat, a <= b
  PROVE  a * c <= b * c
OBVIOUS

\* Integer division rounds down.
LEMMA DivisionBounds ==
  ASSUME NEW a \in Nat, NEW n \in Nat \ {0}
  PROVE  /\ a \div n \in Int
         /\ n * (a \div n) <= a
         /\ a < n * ((a \div n) + 1)
OBVIOUS

\* Fees neither turn money negative nor make a positive cost vanish.
LEMMA FeeTypes ==
  ASSUME NEW n \in Nat
  PROVE  /\ WithFee(n) \in Nat
         /\ NetOfFee(n) \in Nat
         /\ n > 0 => WithFee(n) > 0
<1>1. FeeDen + FeeNum \in Nat /\ FeeDen + FeeNum > 0 /\ FeeDen - FeeNum \in Nat
  BY ConstantsAssumption
<1>2. QED
  BY <1>1, ProductNat DEF WithFee, NetOfFee

\* A reservation is a natural amount.
LEMMA NeededNat ==
  ASSUME NEW r \in RequestType, NEW mark \in Prices \cup {NoPrice}
  PROVE  Needed(r, mark) \in Nat
<1>1. r.qty \in Nat /\ r.price \in Nat /\ mark \in Nat /\ SlipDen \in Nat
  BY ConstantsAssumption DEF RequestType, Prices, NoPrice
<1> DEFINE price == IF r.price # NoPrice THEN r.price ELSE mark
<1>2. price \in Nat
  BY <1>1
<1>3. r.qty * price \in Nat
  BY <1>1, <1>2, ProductNat
<1>4. r.qty * price * SlipDen \in Nat
  BY <1>1, <1>3, ProductNat
<1>5. WithFee(r.qty * price * SlipDen) \in Nat
  BY <1>4, FeeTypes
<1>6. QED
  BY <1>1, <1>5 DEF Needed

\* Whatever the book, a fill is for a positive part of the order at a
\* positive notional.
LEMMA PlanTypes ==
  ASSUME NEW r \in RequestType, NEW view, NEW plan \in FillPlans(r, view)
  PROVE  /\ plan.filled \in 1 .. r.qty
         /\ plan.notional \in Nat \ {0}
         /\ plan = [filled |-> plan.filled, notional |-> plan.notional]
<1>1. r.qty \in Nat \ {0} /\ r.price \in Nat /\ MaxPrice \in Nat \ {0}
      /\ SlipDen \in Nat \ {0}
  BY ConstantsAssumption DEF RequestType, Prices, NoPrice
<1>2. CASE plan \in WalkPlans(r)
  <2>1. plan.filled \in 1 .. r.qty
    BY <1>1, <1>2 DEF WalkPlans
  <2>2. PICK n \in 1 .. r.qty * MaxPrice : plan.notional = n * SlipDen
    BY <1>2 DEF WalkPlans
  <2>3. n \in Nat /\ n > 0
    BY <2>2, <1>1
  <2>4. plan.notional \in Nat \ {0}
    BY <1>1, <2>2, <2>3, ProductNat
  <2>5. plan = [filled |-> plan.filled, notional |-> plan.notional]
    BY <1>2 DEF WalkPlans
  <2>6. QED
    BY <2>1, <2>4, <2>5
<1>3. CASE plan \in FixedPlans(r, view)
  <2>1. PICK ref \in Nat \ {0}, slip \in Nat \ {0} :
          plan = [filled |-> r.qty, notional |-> r.qty * ref * slip]
    BY <1>1, <1>3, ConstantsAssumption DEF FixedPlans, Prices, NoPrice
  <2>2. r.qty * ref \in Nat /\ r.qty * ref > 0
    BY <1>1, <2>1, ProductNat
  <2>3. r.qty * ref * slip \in Nat /\ r.qty * ref * slip > 0
    BY <2>1, <2>2, ProductNat
  <2>4. QED
    BY <1>1, <2>1, <2>3
<1>4. QED
  BY <1>2, <1>3 DEF FillPlans

\* The part of a position's cost that a sale takes with it: less than all of
\* a positive cost unless everything is sold.
LEMMA CostShareBounds ==
  ASSUME NEW p \in PositionType, NEW q \in Nat \ {0}, q <= p.qty
  PROVE  /\ CostShare(p, q) \in 0 .. p.cost
         /\ q = p.qty => CostShare(p, q) = p.cost
         /\ q < p.qty /\ p.cost > 0 => CostShare(p, q) < p.cost
<1> DEFINE c == p.cost  n == p.qty  a == c * q  s == a \div n
<1>1. c \in Nat /\ n \in Nat \ {0}
  BY DEF PositionType
<1>2. a \in Nat /\ a <= c * n /\ (q = n => a = n * c)
  BY <1>1
<1>3. q < n /\ c > 0 => a < n * c
  BY <1>1
<1>4. CostShare(p, q) = s
  BY <1>1 DEF CostShare
<1> HIDE DEF a
<1>5. s \in Int /\ n * s <= a /\ a < n * (s + 1)
  BY <1>1, <1>2, DivisionBounds
<1> HIDE DEF s, c, n
<1>6. s >= 0
  BY <1>1, <1>2, <1>5
<1>7. s <= c
  BY <1>1, <1>2, <1>5, <1>6
<1>8. q = n => s = c
  BY <1>1, <1>2, <1>5, <1>6, <1>7
<1>9. q < n /\ c > 0 => s < c
  <2> SUFFICES ASSUME q < n, c > 0, s = c
               PROVE  FALSE
    BY <1>1, <1>5, <1>7
  <2>1. a < n * c
    BY <1>3
  <2>2. n * c <= a
    BY <1>5
  <2>3. n * c \in Nat
    BY <1>1, ProductNat
  <2>4. QED
    BY <1>2, <2>1, <2>2, <2>3
<1>10. QED
  BY <1>1, <1>4, <1>5, <1>6, <1>7, <1>8, <1>9 DEF c, n

-----------------------------------------------------------------------------
(* Balances stay solvent and keep their total, whatever moves inside them. *)

SolventBalance == [available : Nat, reserved : Nat]

LEMMA ReserveKeepsTotal ==
  ASSUME NEW b \in SolventBalance, NEW amount \in Nat, amount <= b.available
  PROVE  Reserve(b, amount) \in SolventBalance /\ Total(Reserve(b, amount)) = Total(b)
BY DEF SolventBalance, Reserve, Total

LEMMA TryReserveKeepsTotal ==
  ASSUME NEW b \in SolventBalance, NEW amount \in Nat
  PROVE  TryReserve(b, amount) \in SolventBalance
         /\ Total(TryReserve(b, amount)) = Total(b)
BY DEF SolventBalance, TryReserve, Reserve, Total

LEMMA ReleaseKeepsTotal ==
  ASSUME NEW b \in SolventBalance, NEW amount \in Nat
  PROVE  Release(b, amount) \in SolventBalance /\ Total(Release(b, amount)) = Total(b)
BY DEF SolventBalance, Release, Total

LEMMA AdjustQuoteKeepsTotal ==
  ASSUME NEW b \in SolventBalance, NEW reserved \in Nat, NEW cost \in Nat
  PROVE  AdjustQuote(b, reserved, cost) \in SolventBalance
         /\ Total(AdjustQuote(b, reserved, cost)) = Total(b)
<1>1. CASE reserved > cost
  <2>1. reserved - cost \in Nat
    BY <1>1
  <2>2. QED
    BY <1>1, <2>1, ReleaseKeepsTotal DEF AdjustQuote
<1>2. CASE ~(reserved > cost)
  <2>1. cost - reserved \in Nat
    BY <1>2
  <2>2. QED
    BY <1>2, <2>1, TryReserveKeepsTotal DEF AdjustQuote
<1>3. QED
  BY <1>1, <1>2

\* A buy is paid in full when the balance can, and never overdraws it.
LEMMA SpendTotal ==
  ASSUME NEW b \in SolventBalance, NEW cost \in Nat
  PROVE  /\ Spend(b, cost) \in SolventBalance
         /\ Total(Spend(b, cost)) = IF cost <= Total(b) THEN Total(b) - cost ELSE 0
BY DEF SolventBalance, Spend, Total

LEMMA DeliverTotal ==
  ASSUME NEW b \in SolventBalance, NEW qty \in Nat, qty <= Total(b)
  PROVE  Deliver(b, qty) \in SolventBalance /\ Total(Deliver(b, qty)) = Total(b) - qty
BY DEF SolventBalance, Deliver, Total

LEMMA CreditTotal ==
  ASSUME NEW b \in SolventBalance, NEW amount \in Nat
  PROVE  Credit(b, amount) \in SolventBalance /\ Total(Credit(b, amount)) = Total(b) + amount
BY DEF SolventBalance, Credit, Total

-----------------------------------------------------------------------------
(* The inductive invariant.                                                *)

\* A portfolio, in memory or on disk, is solvent, its positions agree with
\* its balances, and a position costs something exactly when it is open.
SoundPortfolio(q, b, pos) ==
  /\ q \in SolventBalance
  /\ b \in [Symbols -> SolventBalance]
  /\ pos \in [Symbols -> PositionType]
  /\ \A s \in Symbols : Total(b[s]) = pos[s].qty
  /\ \A s \in Symbols : pos[s].qty > 0 <=> pos[s].cost > 0

\* Every fill that can be delivered again was processed, none of an order
\* that was never submitted was, the disk is never ahead of memory, and no
\* order is overfilled.
FillsProcessed ==
  /\ \A id \in OrderIds :
       /\ orders[id].status = "NONE" => orders[id].filled = 0 /\ id \notin processed
       /\ orders[id].filled > 0 /\ orders[id].status # "LOST" => id \in processed
       /\ orders[id].filled <= orders[id].qty
  /\ disk.processed \subseteq processed

IInv ==
  /\ TypeOK
  /\ SoundPortfolio(quote, base, position)
  /\ SoundPortfolio(disk.quote, disk.base, disk.position)
  /\ FillsProcessed

LEMMA InitIInv == Init => IInv
<1> SUFFICES ASSUME Init PROVE IInv
  OBVIOUS
<1>1. InitQuote \in SolventBalance /\ InitBase \in [Symbols -> SolventBalance]
      /\ InitPosition \in [Symbols -> PositionType]
  BY ConstantsAssumption DEF InitQuote, InitBase, InitPosition, SolventBalance, PositionType
<1>2. SoundPortfolio(InitQuote, InitBase, InitPosition)
  BY <1>1 DEF SoundPortfolio, InitBase, InitPosition, Total
<1>3. NoOrder \in OrderType
  BY ConstantsAssumption DEF NoOrder, OrderType, Statuses, NoPrice
<1>4. \A b \in SolventBalance : b \in BalanceType
  BY DEF SolventBalance, BalanceType
<1>5. TypeOK
  BY <1>1, <1>3, <1>4, ConstantsAssumption DEF Init, TypeOK
<1>6. FillsProcessed
  BY DEF Init, FillsProcessed, NoOrder
<1>7. QED
  BY <1>2, <1>5, <1>6 DEF IInv, Init

\* Applying a buy to a sound portfolio leaves a sound portfolio and spends no
\* more than there is.
LEMMA BookBuySound ==
  ASSUME NEW id \in OrderIds, NEW s \in Symbols, NEW qty \in Nat \ {0},
         NEW cost \in Nat \ {0}, NEW q \in SolventBalance,
         SoundPortfolio(quote, base, position), Total(q) = Total(quote),
         BookBuy(id, s, qty, cost, q)
  PROVE  /\ SoundPortfolio(quote, base, position)'
         /\ Total(quote') = IF cost <= Total(quote) THEN Total(quote) - cost ELSE 0
         /\ Total(base'[s]) = Total(base[s]) + qty
         /\ position'[s].cost = position[s].cost + cost
         /\ \A t \in Symbols \ {s} : base'[t] = base[t] /\ position'[t] = position[t]
<1>1. quote' \in SolventBalance
      /\ Total(quote') = IF cost <= Total(quote) THEN Total(quote) - cost ELSE 0
  BY SpendTotal DEF BookBuy
<1>2. base[s] \in SolventBalance /\ position[s] \in PositionType
  BY DEF SoundPortfolio
<1>3. Credit(base[s], qty) \in SolventBalance
      /\ Total(Credit(base[s], qty)) = Total(base[s]) + qty
  BY <1>2, CreditTotal
<1>4. Acquire(position[s], qty, cost) \in PositionType
      /\ Acquire(position[s], qty, cost).qty = position[s].qty + qty
      /\ Acquire(position[s], qty, cost).cost = position[s].cost + cost
  BY <1>2 DEF Acquire, PositionType
<1>5. base' = [base EXCEPT ![s] = Credit(base[s], qty)]
      /\ position' = [position EXCEPT ![s] = Acquire(position[s], qty, cost)]
  BY DEF BookBuy
<1>6. base' \in [Symbols -> SolventBalance] /\ position' \in [Symbols -> PositionType]
  BY <1>3, <1>4, <1>5 DEF SoundPortfolio
<1>7. /\ base'[s] = Credit(base[s], qty)
      /\ position'[s] = Acquire(position[s], qty, cost)
      /\ \A t \in Symbols \ {s} : base'[t] = base[t] /\ position'[t] = position[t]
  BY <1>5 DEF SoundPortfolio
<1>8. \A t \in Symbols : Total(base'[t]) = position'[t].qty
  BY <1>3, <1>4, <1>7 DEF SoundPortfolio
<1>9. \A t \in Symbols : position'[t].qty > 0 <=> position'[t].cost > 0
  BY <1>2, <1>4, <1>7 DEF SoundPortfolio, PositionType
<1>10. QED
  BY <1>1, <1>3, <1>4, <1>6, <1>7, <1>8, <1>9 DEF SoundPortfolio

\* Applying a sell of no more than is held leaves a sound portfolio, and the
\* cost that leaves the position is the proceeds less the realised profit.
LEMMA BookSellSound ==
  ASSUME NEW id \in OrderIds, NEW s \in Symbols, NEW qty \in Nat \ {0},
         NEW proceeds \in Nat, NEW b \in SolventBalance,
         SoundPortfolio(quote, base, position), Total(b) = Total(base[s]),
         qty <= Total(base[s]), realized \in Int,
         BookSell(id, s, qty, proceeds, b)
  PROVE  /\ SoundPortfolio(quote, base, position)'
         /\ Total(quote') = Total(quote) + proceeds
         /\ Total(base'[s]) = Total(base[s]) - qty
         /\ position'[s].cost = position[s].cost - (proceeds - (realized' - realized))
         /\ realized' \in Int
         /\ \A t \in Symbols \ {s} : base'[t] = base[t] /\ position'[t] = position[t]
<1> DEFINE p == position[s]  share == CostShare(p, qty)
<1>1. quote' \in SolventBalance /\ Total(quote') = Total(quote) + proceeds
  BY CreditTotal DEF BookSell, SoundPortfolio
<1>2. Deliver(b, qty) \in SolventBalance
      /\ Total(Deliver(b, qty)) = Total(base[s]) - qty
  BY DeliverTotal
<1>3. p \in PositionType /\ qty <= p.qty /\ p.cost > 0
  BY DEF SoundPortfolio, PositionType
<1>4. /\ share \in 0 .. p.cost
      /\ qty = p.qty => share = p.cost
      /\ qty < p.qty => share < p.cost
  BY <1>3, CostShareBounds
<1> HIDE DEF share
<1>5. /\ Dispose(p, qty) \in PositionType
      /\ Dispose(p, qty).qty = p.qty - qty
      /\ Dispose(p, qty).cost = p.cost - share
      /\ Dispose(p, qty).qty > 0 <=> Dispose(p, qty).cost > 0
  <2>1. CASE qty = p.qty
    BY <1>3, <1>4, <2>1 DEF Dispose, PositionType
  <2>2. CASE qty < p.qty
    <3>1. Dispose(p, qty) = [qty |-> p.qty - qty, cost |-> p.cost - share]
      BY <1>3, <2>2 DEF Dispose, PositionType, share
    <3>2. QED
      BY <1>3, <1>4, <2>2, <3>1 DEF PositionType
  <2>3. QED
    BY <1>3, <2>1, <2>2 DEF PositionType
<1>6. realized' = realized + (proceeds - share)
  BY <1>3 DEF BookSell, RealizedBy, share, PositionType
<1>7. base' = [base EXCEPT ![s] = Deliver(b, qty)]
      /\ position' = [position EXCEPT ![s] = Dispose(p, qty)]
  BY DEF BookSell
<1>8. base' \in [Symbols -> SolventBalance] /\ position' \in [Symbols -> PositionType]
  BY <1>2, <1>5, <1>7 DEF SoundPortfolio
<1>9. /\ base'[s] = Deliver(b, qty)
      /\ position'[s] = Dispose(p, qty)
      /\ \A t \in Symbols \ {s} : base'[t] = base[t] /\ position'[t] = position[t]
  BY <1>7 DEF SoundPortfolio
<1>10. \A t \in Symbols : Total(base'[t]) = position'[t].qty
  BY <1>2, <1>5, <1>9 DEF SoundPortfolio
<1>11. \A t \in Symbols : position'[t].qty > 0 <=> position'[t].cost > 0
  BY <1>5, <1>9 DEF SoundPortfolio
<1>12. position'[s].cost = position[s].cost - (proceeds - (realized' - realized))
  BY <1>3, <1>4, <1>5, <1>6, <1>9 DEF PositionType
<1>13. realized' \in Int
  BY <1>3, <1>4, <1>6 DEF PositionType
<1>14. QED
  BY <1>1, <1>2, <1>8, <1>9, <1>10, <1>11, <1>12, <1>13 DEF SoundPortfolio

\* Moving an amount between the available and the reserved part of balances
\* leaves a sound portfolio.
LEMMA ShiftSound ==
  ASSUME SoundPortfolio(quote, base, position), UNCHANGED position,
         quote' \in SolventBalance, Total(quote') = Total(quote),
         base' \in [Symbols -> SolventBalance],
         \A s \in Symbols : Total(base'[s]) = Total(base[s])
  PROVE  SoundPortfolio(quote, base, position)'
BY DEF SoundPortfolio

-----------------------------------------------------------------------------
(* Each action preserves the invariant.                                    *)

\* Recording an order whose id is new keeps the orders' type and the
\* bookkeeping of processed fills, if its fill, when it has one, is processed.
LEMMA RecordSound ==
  ASSUME NEW id \in OrderIds, NEW r \in RequestType, NEW plan, NEW status,
         IInv, plan = [filled |-> plan.filled, notional |-> plan.notional],
         plan.filled \in Nat, plan.filled <= r.qty, plan.notional \in Nat,
         status \in {"OPEN", "FILLED", "PARTIALLY_FILLED", "REJECTED"},
         Record(id, r, plan, status), UNCHANGED disk,
         processed \subseteq processed', processed' \subseteq processed \cup {id},
         plan.filled > 0 => id \in processed'
  PROVE  orders' \in [OrderIds -> OrderType] /\ FillsProcessed'
<1>1. Placed(r, plan, status) \in OrderType
  BY DEF Placed, OrderType, RequestType, Statuses
<1>2. /\ orders' = [orders EXCEPT ![id] = Placed(r, plan, status)]
      /\ orders \in [OrderIds -> OrderType]
  BY DEF Record, IInv, TypeOK
<1>3. orders' \in [OrderIds -> OrderType]
  BY <1>1, <1>2
<1>4. /\ orders'[id].status = status /\ orders'[id].filled = plan.filled
      /\ orders'[id].qty = r.qty
      /\ \A x \in OrderIds \ {id} : orders'[x] = orders[x]
  BY <1>2 DEF Placed
<1>5. FillsProcessed'
  BY <1>4 DEF FillsProcessed, IInv
<1>6. QED
  BY <1>3, <1>5

\* The parts of IInv' assembled; a sound portfolio is well typed.
LEMMA IInvFrom ==
  ASSUME SoundPortfolio(quote, base, position)',
         SoundPortfolio(disk.quote, disk.base, disk.position)',
         orders' \in [OrderIds -> OrderType], FillsProcessed',
         realized' \in Int, processed' \in SUBSET OrderIds,
         disk' = [quote |-> disk'.quote, base |-> disk'.base,
                  position |-> disk'.position, realized |-> disk'.realized,
                  processed |-> disk'.processed],
         disk'.realized \in Int, disk'.processed \in SUBSET OrderIds,
         restarts' \in 0 .. MaxRestarts
  PROVE  IInv'
<1>1. \A b \in SolventBalance : b \in BalanceType
  BY DEF SolventBalance, BalanceType
<1>2. /\ quote' \in BalanceType /\ base' \in [Symbols -> BalanceType]
      /\ position' \in [Symbols -> PositionType]
      /\ disk'.quote \in BalanceType /\ disk'.base \in [Symbols -> BalanceType]
      /\ disk'.position \in [Symbols -> PositionType]
  BY <1>1 DEF SoundPortfolio
<1>3. TypeOK'
  BY <1>2 DEF TypeOK
<1>4. QED
  BY <1>3 DEF IInv

\* As IInvFrom, for the actions that leave the disk and the crash count alone.
LEMMA IInvSameDisk ==
  ASSUME IInv, UNCHANGED <<disk, restarts>>,
         SoundPortfolio(quote, base, position)',
         orders' \in [OrderIds -> OrderType], FillsProcessed',
         realized' \in Int, processed' \in SUBSET OrderIds
  PROVE  IInv'
<1>1. SoundPortfolio(disk.quote, disk.base, disk.position)'
  BY DEF IInv
<1>2. /\ disk = [quote |-> disk.quote, base |-> disk.base,
                 position |-> disk.position, realized |-> disk.realized,
                 processed |-> disk.processed]
      /\ disk.realized \in Int /\ disk.processed \in SUBSET OrderIds
      /\ restarts \in 0 .. MaxRestarts
  BY DEF IInv, TypeOK
<1>3. QED
  BY <1>1, <1>2, IInvFrom

LEMMA RejectUnfundedIInv ==
  ASSUME NEW id \in OrderIds, NEW r \in RequestType, NEW mark,
         IInv, RejectUnfunded(id, r, mark)
  PROVE  IInv'
<1>1. orders' \in [OrderIds -> OrderType] /\ FillsProcessed'
  BY RecordSound DEF RejectUnfunded, Unfilled, portfolio, RequestType
<1>2. SoundPortfolio(quote, base, position)'
  BY DEF RejectUnfunded, portfolio, IInv
<1>3. QED
  BY <1>1, <1>2, IInvSameDisk DEF RejectUnfunded, portfolio, IInv, TypeOK

\* A balance the request is funded by stays solvent, with the same total,
\* when the request reserves from it and when it gives the amount back.
LEMMA FundedReserve ==
  ASSUME NEW r \in RequestType, NEW mark \in Prices \cup {NoPrice}, IInv,
         Funded(r, mark)
  PROVE  /\ Needed(r, mark) \in Nat
         /\ Balance(r) \in SolventBalance
         /\ Reserve(Balance(r), Needed(r, mark)) \in SolventBalance
         /\ Total(Reserve(Balance(r), Needed(r, mark))) = Total(Balance(r))
<1>1. Balance(r) \in SolventBalance
  BY DEF IInv, SoundPortfolio, Balance, RequestType
<1>2. QED
  BY <1>1, NeededNat, ReserveKeepsTotal DEF Funded

LEMMA RestIInv ==
  ASSUME NEW id \in OrderIds, NEW r \in RequestType,
         NEW mark \in Prices \cup {NoPrice}, NEW view,
         IInv, Rest(id, r, mark, view)
  PROVE  IInv'
<1>1. orders' \in [OrderIds -> OrderType] /\ FillsProcessed'
  BY RecordSound DEF Rest, Unfilled, RequestType
<1> DEFINE held == Reserve(Balance(r), Needed(r, mark))
<1>2. held \in SolventBalance /\ Total(held) = Total(Balance(r))
  BY FundedReserve DEF Rest
<1>3. SoundPortfolio(quote, base, position) /\ r.symbol \in Symbols
  BY DEF IInv, RequestType
<1>4. CASE r.side = "buy"
  <2>1. quote' = held /\ UNCHANGED <<base, position>> /\ Balance(r) = quote
    BY <1>4 DEF Rest, Balance
  <2>2. SoundPortfolio(quote, base, position)'
    BY <1>2, <1>3, <2>1 DEF SoundPortfolio
  <2>3. QED
    BY <1>1, <2>2, IInvSameDisk DEF Rest, IInv, TypeOK
<1>5. CASE r.side # "buy"
  <2>1. base' = [base EXCEPT ![r.symbol] = held] /\ UNCHANGED <<quote, position>>
        /\ Balance(r) = base[r.symbol]
    BY <1>5 DEF Rest, Balance
  <2>2. base' \in [Symbols -> SolventBalance]
        /\ \A s \in Symbols : Total(base'[s]) = Total(base[s])
    BY <1>2, <1>3, <2>1 DEF SoundPortfolio
  <2>3. SoundPortfolio(quote, base, position)'
    BY <1>3, <2>1, <2>2 DEF SoundPortfolio
  <2>4. QED
    BY <1>1, <2>3, IInvSameDisk DEF Rest, IInv, TypeOK
<1>6. QED
  BY <1>4, <1>5

LEMMA RejectIlliquidIInv ==
  ASSUME NEW id \in OrderIds, NEW r \in RequestType,
         NEW mark \in Prices \cup {NoPrice}, NEW view,
         IInv, RejectIlliquid(id, r, mark, view)
  PROVE  IInv'
<1>1. orders' \in [OrderIds -> OrderType] /\ FillsProcessed'
  BY RecordSound DEF RejectIlliquid, Unfilled, RequestType
<1> DEFINE back == Release(Reserve(Balance(r), Needed(r, mark)), Needed(r, mark))
<1>2. back \in SolventBalance /\ Total(back) = Total(Balance(r))
  BY FundedReserve, ReleaseKeepsTotal DEF RejectIlliquid
<1>3. SoundPortfolio(quote, base, position) /\ r.symbol \in Symbols
  BY DEF IInv, RequestType
<1>4. CASE r.side = "buy"
  <2>1. quote' = back /\ UNCHANGED <<base, position>> /\ Balance(r) = quote
    BY <1>4 DEF RejectIlliquid, Balance
  <2>2. SoundPortfolio(quote, base, position)'
    BY <1>2, <1>3, <2>1 DEF SoundPortfolio
  <2>3. QED
    BY <1>1, <2>2, IInvSameDisk DEF RejectIlliquid, IInv, TypeOK
<1>5. CASE r.side # "buy"
  <2>1. base' = [base EXCEPT ![r.symbol] = back] /\ UNCHANGED <<quote, position>>
        /\ Balance(r) = base[r.symbol]
    BY <1>5 DEF RejectIlliquid, Balance
  <2>2. base' \in [Symbols -> SolventBalance]
        /\ \A s \in Symbols : Total(base'[s]) = Total(base[s])
    BY <1>2, <1>3, <2>1 DEF SoundPortfolio
  <2>3. SoundPortfolio(quote, base, position)'
    BY <1>3, <2>1, <2>2 DEF SoundPortfolio
  <2>4. QED
    BY <1>1, <2>3, IInvSameDisk DEF RejectIlliquid, IInv, TypeOK
<1>6. QED
  BY <1>4, <1>5

\* What FillBuy hands to the accounting, and what comes of it.
LEMMA FillBuyEffect ==
  ASSUME NEW id \in OrderIds, NEW r \in RequestType,
         NEW mark \in Prices \cup {NoPrice}, NEW view, NEW plan,
         IInv, FillBuy(id, r, mark, view, plan)
  PROVE  LET s == r.symbol
             cost == WithFee(plan.notional)
         IN  /\ s \in Symbols /\ plan.filled \in Nat \ {0} /\ cost \in Nat \ {0}
             /\ ReadyQuote(r, mark, plan) \in SolventBalance
             /\ Total(ReadyQuote(r, mark, plan)) = Total(quote)
             /\ SoundPortfolio(quote, base, position)'
             /\ Total(quote') = IF cost <= Total(quote) THEN Total(quote) - cost ELSE 0
             /\ Total(base'[s]) = Total(base[s]) + plan.filled
             /\ position'[s].cost = position[s].cost + cost
             /\ \A t \in Symbols \ {s} : base'[t] = base[t] /\ position'[t] = position[t]
<1> DEFINE s == r.symbol  cost == WithFee(plan.notional)
<1>1. s \in Symbols
  BY DEF RequestType
<1>2. plan.filled \in Nat \ {0} /\ plan.notional \in Nat \ {0}
  BY PlanTypes DEF FillBuy, RequestType
<1>3. cost \in Nat \ {0}
  BY <1>2, FeeTypes
<1>4. Balance(r) = quote
  BY DEF FillBuy, Balance
<1>5. /\ Needed(r, mark) \in Nat
      /\ Reserve(quote, Needed(r, mark)) \in SolventBalance
      /\ Total(Reserve(quote, Needed(r, mark))) = Total(quote)
  BY <1>4, FundedReserve DEF FillBuy
<1>6. ReadyQuote(r, mark, plan) \in SolventBalance
      /\ Total(ReadyQuote(r, mark, plan)) = Total(quote)
  BY <1>3, <1>5, AdjustQuoteKeepsTotal DEF ReadyQuote
<1>7. SoundPortfolio(quote, base, position)
      /\ BookBuy(id, s, plan.filled, cost, ReadyQuote(r, mark, plan))
  BY DEF IInv, FillBuy
<1> HIDE DEF s, cost
<1>8. /\ SoundPortfolio(quote, base, position)'
      /\ Total(quote') = IF cost <= Total(quote) THEN Total(quote) - cost ELSE 0
      /\ Total(base'[s]) = Total(base[s]) + plan.filled
      /\ position'[s].cost = position[s].cost + cost
      /\ \A t \in Symbols \ {s} : base'[t] = base[t] /\ position'[t] = position[t]
  BY <1>1, <1>2, <1>3, <1>6, <1>7, BookBuySound
<1>9. QED
  BY <1>1, <1>2, <1>3, <1>6, <1>8 DEF s, cost

LEMMA FillBuyIInv ==
  ASSUME NEW id \in OrderIds, NEW r \in RequestType,
         NEW mark \in Prices \cup {NoPrice}, NEW view, NEW plan,
         IInv, FillBuy(id, r, mark, view, plan)
  PROVE  IInv'
<1>1. SoundPortfolio(quote, base, position)'
  BY FillBuyEffect
<1>2. /\ plan.filled \in Nat /\ plan.filled <= r.qty /\ plan.notional \in Nat
      /\ plan = [filled |-> plan.filled, notional |-> plan.notional]
  BY PlanTypes DEF FillBuy, RequestType
<1>3. processed' = processed \cup {id} /\ realized' = realized
  BY DEF FillBuy, BookBuy
<1>4. orders' \in [OrderIds -> OrderType] /\ FillsProcessed'
  BY <1>2, <1>3, RecordSound DEF FillBuy, FillStatus
<1>5. QED
  BY <1>1, <1>3, <1>4, IInvSameDisk DEF FillBuy, IInv, TypeOK

\* What FillSell hands to the accounting, and what comes of it: the order's
\* own reservation of base always covers the fill.
LEMMA FillSellEffect ==
  ASSUME NEW id \in OrderIds, NEW r \in RequestType,
         NEW mark \in Prices \cup {NoPrice}, NEW view, NEW plan,
         IInv, FillSell(id, r, mark, view, plan)
  PROVE  LET s == r.symbol
             proceeds == NetOfFee(plan.notional)
         IN  /\ s \in Symbols /\ plan.filled \in Nat \ {0} /\ proceeds \in Nat
             /\ plan.filled <= Total(base[s])
             /\ SoundPortfolio(quote, base, position)'
             /\ Total(quote') = Total(quote) + proceeds
             /\ Total(base'[s]) = Total(base[s]) - plan.filled
             /\ position'[s].cost = position[s].cost - (proceeds - (realized' - realized))
             /\ realized' \in Int
             /\ \A t \in Symbols \ {s} : base'[t] = base[t] /\ position'[t] = position[t]
<1> DEFINE s == r.symbol  proceeds == NetOfFee(plan.notional)
           b == ReadyBase(r, mark, plan)
<1>1. s \in Symbols /\ r.qty \in Nat \ {0}
  BY DEF RequestType
<1>2. plan.filled \in 1 .. r.qty /\ plan.notional \in Nat
  BY PlanTypes DEF FillSell
<1>3. proceeds \in Nat
  BY <1>2, FeeTypes
<1>4. Balance(r) = base[s] /\ Needed(r, mark) = r.qty
  BY DEF FillSell, Balance, Needed
<1>5. /\ Reserve(base[s], r.qty) \in SolventBalance
      /\ Total(Reserve(base[s], r.qty)) = Total(base[s])
  BY <1>4, FundedReserve DEF FillSell
<1>6. r.qty - plan.filled \in Nat
  BY <1>1, <1>2
<1>7. b \in SolventBalance /\ Total(b) = Total(base[s])
  BY <1>4, <1>5, <1>6, ReleaseKeepsTotal DEF ReadyBase, AdjustBase
<1>8. SoundPortfolio(quote, base, position) /\ realized \in Int
      /\ BookSell(id, s, plan.filled, proceeds, b)
  BY DEF IInv, TypeOK, FillSell
<1>9. plan.filled <= Total(base[s]) /\ plan.filled \in Nat \ {0}
  BY <1>1, <1>2, <1>4, <1>8 DEF FillSell, Funded, SoundPortfolio, SolventBalance, Total
<1> HIDE DEF s, proceeds, b
<1>10. /\ SoundPortfolio(quote, base, position)'
       /\ Total(quote') = Total(quote) + proceeds
       /\ Total(base'[s]) = Total(base[s]) - plan.filled
       /\ position'[s].cost = position[s].cost - (proceeds - (realized' - realized))
       /\ realized' \in Int
       /\ \A t \in Symbols \ {s} : base'[t] = base[t] /\ position'[t] = position[t]
  BY <1>1, <1>3, <1>7, <1>8, <1>9, BookSellSound
<1>11. QED
  BY <1>1, <1>3, <1>9, <1>10 DEF s, proceeds

LEMMA FillSellIInv ==
  ASSUME NEW id \in OrderIds, NEW r \in RequestType,
         NEW mark \in Prices \cup {NoPrice}, NEW view, NEW plan,
         IInv, FillSell(id, r, mark, view, plan)
  PROVE  IInv'
<1>1. SoundPortfolio(quote, base, position)' /\ realized' \in Int
  BY FillSellEffect
<1>2. /\ plan.filled \in Nat /\ plan.filled <= r.qty /\ plan.notional \in Nat
      /\ plan = [filled |-> plan.filled, notional |-> plan.notional]
  BY PlanTypes DEF FillSell, RequestType
<1>3. processed' = processed \cup {id}
  BY DEF FillSell, BookSell
<1>4. orders' \in [OrderIds -> OrderType] /\ FillsProcessed'
  BY <1>2, <1>3, RecordSound DEF FillSell, FillStatus
<1>5. QED
  BY <1>1, <1>3, <1>4, IInvSameDisk DEF FillSell, IInv, TypeOK

\* What cancel releases is a natural amount: no order is overfilled.
LEMMA CancelReleaseNat ==
  ASSUME NEW o \in OrderType, o.filled <= o.qty
  PROVE  CancelRelease(o) \in Nat
<1> DEFINE left == o.qty - o.filled
<1>1. /\ left \in Nat /\ o.price \in Nat /\ o.notional \in Nat /\ o.filled \in Nat
      /\ SlipDen \in Nat
  BY ConstantsAssumption DEF OrderType, Prices, NoPrice
<1> HIDE DEF left
<1>2. left * o.price * SlipDen \in Nat
  BY <1>1, ProductNat
<1>3. left * o.notional \in Nat
  BY <1>1, ProductNat
<1>4. o.filled > 0 => (left * o.notional) \div o.filled \in Nat
  <2> SUFFICES ASSUME o.filled > 0
               PROVE  (left * o.notional) \div o.filled \in Nat
    OBVIOUS
  <2> DEFINE a == left * o.notional  n == o.filled
  <2>1. a \in Nat /\ n \in Nat \ {0}
    BY <1>1, <1>3
  <2> HIDE DEF a, n
  <2>2. a \div n \in Int /\ a < n * ((a \div n) + 1)
    BY <2>1, DivisionBounds
  <2>3. a \div n >= 0
    BY <2>1, <2>2
  <2>4. QED
    BY <2>2, <2>3 DEF a, n
<1>5. QED
  BY <1>1, <1>2, <1>4, FeeTypes DEF CancelRelease, left

LEMMA CancelIInv ==
  ASSUME NEW id \in OrderIds, IInv, Cancel(id)
  PROVE  IInv'
<1> DEFINE o == orders[id]
<1>1. o \in OrderType /\ o.filled <= o.qty /\ o.symbol \in Symbols
      /\ o.status \notin {"NONE", "LOST"}
  BY DEF IInv, TypeOK, OrderType, FillsProcessed, Cancel
<1>2. CancelRelease(o) \in Nat
  BY <1>1, CancelReleaseNat
<1>3. SoundPortfolio(quote, base, position)
  BY DEF IInv
<1>4. SoundPortfolio(quote, base, position)'
  <2>1. CASE o.side = "buy"
    <3>1. quote' = Release(quote, CancelRelease(o)) /\ UNCHANGED <<base, position>>
      BY <2>1 DEF Cancel
    <3>2. QED
      BY <1>2, <1>3, <3>1, ReleaseKeepsTotal DEF SoundPortfolio
  <2>2. CASE o.side # "buy"
    <3>1. base' = [base EXCEPT ![o.symbol] = Release(base[o.symbol], CancelRelease(o))]
          /\ UNCHANGED <<quote, position>>
      BY <2>2 DEF Cancel
    <3>2. base[o.symbol] \in SolventBalance
      BY <1>1, <1>3 DEF SoundPortfolio
    <3>3. base' \in [Symbols -> SolventBalance]
          /\ \A s \in Symbols : Total(base'[s]) = Total(base[s])
      BY <1>1, <1>2, <1>3, <3>1, <3>2, ReleaseKeepsTotal DEF SoundPortfolio
    <3>4. QED
      BY <1>3, <3>1, <3>3 DEF SoundPortfolio
  <2>3. QED
    BY <2>1, <2>2
<1>5. orders' = [orders EXCEPT ![id] = [o EXCEPT !.status = "CANCELLED"]]
  BY DEF Cancel
<1>6. [o EXCEPT !.status = "CANCELLED"] \in OrderType
  BY <1>1 DEF OrderType, Statuses
<1>7. orders' \in [OrderIds -> OrderType]
  BY <1>5, <1>6 DEF IInv, TypeOK
<1>8. UNCHANGED <<realized, processed, disk, restarts>>
  BY DEF Cancel
<1>9. /\ orders'[id].status = "CANCELLED" /\ orders'[id].filled = o.filled
      /\ orders'[id].qty = o.qty
      /\ \A x \in OrderIds \ {id} : orders'[x] = orders[x]
  BY <1>1, <1>5 DEF IInv, TypeOK, OrderType
<1>10. FillsProcessed'
  BY <1>1, <1>8, <1>9 DEF FillsProcessed, IInv
<1>11. QED
  BY <1>4, <1>7, <1>8, <1>10, IInvSameDisk DEF IInv, TypeOK

\* A fill delivered again finds its id processed and changes nothing.
LEMMA RedeliverChangesNothing ==
  ASSUME NEW id \in OrderIds, IInv, Redeliver(id)
  PROVE  UNCHANGED vars
<1>1. id \in processed
  BY DEF IInv, FillsProcessed, Redeliver
<1>2. QED
  BY <1>1 DEF Redeliver, vars, portfolio, AlreadyApplied

LEMMA PersistIInv ==
  ASSUME IInv, Persist
  PROVE  IInv'
<1>1. UNCHANGED <<orders, portfolio, restarts>>
  BY DEF Persist
<1>2. /\ disk'.quote = quote /\ disk'.base = base /\ disk'.position = position
      /\ disk'.realized = realized /\ disk'.processed = processed
      /\ disk' = [quote |-> quote, base |-> base, position |-> position,
                  realized |-> realized, processed |-> processed]
  BY DEF Persist
<1>3. SoundPortfolio(quote, base, position)'
      /\ SoundPortfolio(disk.quote, disk.base, disk.position)'
  BY <1>1, <1>2 DEF portfolio, IInv
<1>4. FillsProcessed'
  BY <1>1, <1>2 DEF portfolio, IInv, FillsProcessed
<1>5. QED
  BY <1>1, <1>2, <1>3, <1>4, IInvFrom DEF portfolio, IInv, TypeOK

LEMMA RestartIInv ==
  ASSUME IInv, Restart
  PROVE  IInv'
<1>1. /\ quote' = disk.quote /\ base' = disk.base /\ position' = disk.position
      /\ realized' = disk.realized /\ processed' = disk.processed /\ disk' = disk
  BY DEF Restart
<1>2. SoundPortfolio(quote, base, position)'
      /\ SoundPortfolio(disk.quote, disk.base, disk.position)'
  BY <1>1 DEF IInv
<1>3. \A id \in OrderIds :
        /\ orders'[id] \in OrderType
        /\ orders'[id].status \in {"NONE", "LOST"}
        /\ orders'[id].status = "NONE" => orders'[id] = orders[id]
        /\ orders'[id].filled = orders[id].filled /\ orders'[id].qty = orders[id].qty
  <2> SUFFICES ASSUME NEW id \in OrderIds
               PROVE  /\ orders'[id] \in OrderType
                      /\ orders'[id].status \in {"NONE", "LOST"}
                      /\ orders'[id].status = "NONE" => orders'[id] = orders[id]
                      /\ orders'[id].filled = orders[id].filled /\ orders'[id].qty = orders[id].qty
    OBVIOUS
  <2> DEFINE o == orders[id]
  <2>1. o \in OrderType
    BY DEF IInv, TypeOK
  <2>2. orders'[id] = IF o.status = "NONE" THEN o ELSE [o EXCEPT !.status = "LOST"]
    BY DEF Restart
  <2> HIDE DEF o
  <2>3. [o EXCEPT !.status = "LOST"] \in OrderType
    BY <2>1 DEF OrderType, Statuses
  <2>4. [o EXCEPT !.status = "LOST"].status = "LOST" /\ [o EXCEPT !.status = "LOST"].filled = o.filled
        /\ [o EXCEPT !.status = "LOST"].qty = o.qty
    BY <2>1 DEF OrderType
  <2>5. CASE o.status = "NONE"
    BY <2>1, <2>2, <2>5 DEF o
  <2>6. CASE o.status # "NONE"
    BY <2>2, <2>3, <2>4, <2>6 DEF o
  <2> QED BY <2>5, <2>6
<1>4. orders' \in [OrderIds -> OrderType]
  BY <1>3 DEF Restart
<1>5. FillsProcessed'
  BY <1>1, <1>3 DEF IInv, FillsProcessed
<1>6. restarts' \in 0 .. MaxRestarts
  BY ConstantsAssumption DEF Restart, IInv, TypeOK
<1>7. /\ disk = [quote |-> disk.quote, base |-> disk.base,
                 position |-> disk.position, realized |-> disk.realized,
                 processed |-> disk.processed]
      /\ disk.realized \in Int /\ disk.processed \in SUBSET OrderIds
  BY DEF IInv, TypeOK
<1>8. QED
  BY <1>1, <1>2, <1>4, <1>5, <1>6, <1>7, IInvFrom

\* The steps of an Execute, named.
LEMMA ExecuteCases ==
  ASSUME NEW id \in OrderIds, NEW r \in Requests, Execute(id, r)
  PROVE  /\ r \in RequestType
         /\ \E mark \in Prices \cup {NoPrice}, view \in Views \cup {"none"} :
              \/ RejectUnfunded(id, r, mark)
              \/ Rest(id, r, mark, view)
              \/ RejectIlliquid(id, r, mark, view)
              \/ \E plan \in FillPlans(r, view) :
                   FillBuy(id, r, mark, view, plan) \/ FillSell(id, r, mark, view, plan)
BY ConstantsAssumption DEF Execute, Marks

LEMMA NextIInv == IInv /\ [Next]_vars => IInv'
<1> SUFFICES ASSUME IInv, [Next]_vars PROVE IInv'
  OBVIOUS
<1>1. ASSUME NEW id \in OrderIds, NEW r \in Requests, Execute(id, r)
      PROVE  IInv'
  BY <1>1, ExecuteCases, RejectUnfundedIInv, RestIInv, RejectIlliquidIInv,
     FillBuyIInv, FillSellIInv
<1>2. ASSUME NEW id \in OrderIds, Cancel(id) PROVE IInv'
  BY <1>2, CancelIInv
<1>3. CASE UNCHANGED vars
  BY <1>3 DEF vars, portfolio, IInv, TypeOK, SoundPortfolio, FillsProcessed, Total
<1>4. ASSUME NEW id \in OrderIds, Redeliver(id) PROVE IInv'
  BY <1>3, <1>4, RedeliverChangesNothing
<1>5. CASE Persist
  BY <1>5, PersistIInv
<1>6. CASE Restart
  BY <1>6, RestartIInv
<1>7. QED
  BY <1>1, <1>2, <1>3, <1>4, <1>5, <1>6 DEF Next

-----------------------------------------------------------------------------
(* The theorems.                                                           *)

\* The strengthened invariant holds in every reachable state.
THEOREM Invariance == Spec => []IInv
BY InitIInv, NextIInv, PTL DEF Spec

\* Types, for every instance.
THEOREM TypeCorrect == Spec => []TypeOK
<1>1. IInv => TypeOK
  BY DEF IInv
<1>2. QED
  BY <1>1, Invariance, PTL

\* No balance is ever negative, under any order mix, slippage mode, repeated
\* cancel or restart.
THEOREM NeverOverdrawn == Spec => []Solvent
<1>1. IInv => Solvent
  BY DEF IInv, SoundPortfolio, SolventBalance, Solvent, NonNegative
<1>2. QED
  BY <1>1, Invariance, PTL

\* Positions and base balances agree in every reachable state.
THEOREM HoldingsAgree == Spec => []HoldingsMatchPositions
<1>1. IInv => HoldingsMatchPositions
  BY DEF IInv, SoundPortfolio, HoldingsMatchPositions
<1>2. QED
  BY <1>1, Invariance, PTL

-----------------------------------------------------------------------------
(* The portfolio implements the ledger of fills.                           *)

Holding == [s \in Symbols |-> Total(base[s])]

LEMMA LedgerInitHolds == Init => Promise!LedgerInit
<1> SUFFICES ASSUME Init PROVE Promise!LedgerInit
  OBVIOUS
<1>1. Total(quote) \in Nat
  BY ConstantsAssumption DEF Init, InitQuote, Total
<1>2. Holding = [s \in Symbols |-> 0]
  BY DEF Init, InitBase, Total, Holding
<1>3. disk.quote = quote /\ disk.base = base /\ disk.processed = processed
  BY DEF Init
<1>4. QED
  BY <1>1, <1>2, <1>3 DEF Init, Holding, Promise!LedgerInit, Promise!Ledger

\* A step that keeps every total, the processed fills and the disk is a stutter.
LEMMA TotalsKept ==
  ASSUME Total(quote') = Total(quote), UNCHANGED <<processed, disk>>,
         \A s \in Symbols : Total(base'[s]) = Total(base[s])
  PROVE  UNCHANGED Promise!ledgerVars
<1>1. Holding' = Holding
  BY DEF Holding
<1>2. QED
  BY <1>1 DEF Promise!ledgerVars, Holding

LEMMA RestStutters ==
  ASSUME NEW id \in OrderIds, NEW r \in RequestType,
         NEW mark \in Prices \cup {NoPrice}, NEW view, IInv,
         Rest(id, r, mark, view) \/ RejectIlliquid(id, r, mark, view)
  PROVE  UNCHANGED Promise!ledgerVars
<1> DEFINE held == Reserve(Balance(r), Needed(r, mark))
           back == Release(held, Needed(r, mark))
<1>1. Total(held) = Total(Balance(r)) /\ Total(back) = Total(Balance(r))
  BY FundedReserve, ReleaseKeepsTotal DEF Rest, RejectIlliquid
<1>2. SoundPortfolio(quote, base, position) /\ r.symbol \in Symbols
  BY DEF IInv, RequestType
<1>3. UNCHANGED <<processed, disk>>
  BY DEF Rest, RejectIlliquid
<1>4. CASE r.side = "buy"
  <2>1. quote' \in {held, back} /\ UNCHANGED base /\ Balance(r) = quote
    BY <1>4 DEF Rest, RejectIlliquid, Balance
  <2>2. QED
    BY <1>1, <1>3, <2>1, TotalsKept
<1>5. CASE r.side # "buy"
  <2>1. /\ base' = [base EXCEPT ![r.symbol] = held] \/ base' = [base EXCEPT ![r.symbol] = back]
        /\ UNCHANGED quote /\ Balance(r) = base[r.symbol]
    BY <1>5 DEF Rest, RejectIlliquid, Balance
  <2>2. \A s \in Symbols : Total(base'[s]) = Total(base[s])
    BY <1>1, <1>2, <2>1 DEF SoundPortfolio
  <2>3. QED
    BY <1>3, <2>1, <2>2, TotalsKept
<1>6. QED
  BY <1>4, <1>5

LEMMA CancelStutters ==
  ASSUME NEW id \in OrderIds, IInv, Cancel(id)
  PROVE  UNCHANGED Promise!ledgerVars
<1> DEFINE o == orders[id]
<1>1. o \in OrderType /\ o.filled <= o.qty /\ o.symbol \in Symbols
  BY DEF IInv, TypeOK, OrderType, FillsProcessed
<1>2. CancelRelease(o) \in Nat
  BY <1>1, CancelReleaseNat
<1>3. SoundPortfolio(quote, base, position) /\ UNCHANGED <<processed, disk>>
  BY DEF IInv, Cancel
<1>4. CASE o.side = "buy"
  <2>1. quote' = Release(quote, CancelRelease(o)) /\ UNCHANGED base
    BY <1>4 DEF Cancel
  <2>2. QED
    BY <1>2, <1>3, <2>1, ReleaseKeepsTotal, TotalsKept DEF SoundPortfolio
<1>5. CASE o.side # "buy"
  <2>1. base' = [base EXCEPT ![o.symbol] = Release(base[o.symbol], CancelRelease(o))]
        /\ UNCHANGED quote
    BY <1>5 DEF Cancel
  <2>2. \A s \in Symbols : Total(base'[s]) = Total(base[s])
    BY <1>1, <1>2, <1>3, <2>1, ReleaseKeepsTotal DEF SoundPortfolio
  <2>3. QED
    BY <1>3, <2>1, <2>2, TotalsKept
<1>6. QED
  BY <1>4, <1>5

\* The ledger view of a fill of symbol s.
LEMMA FillIsApply ==
  ASSUME NEW id \in OrderIds, NEW s \in Symbols, IInv,
         id \notin processed, processed' = processed \cup {id}, UNCHANGED disk,
         SoundPortfolio(quote, base, position)',
         \A t \in Symbols \ {s} : base'[t] = base[t],
         \/ /\ Total(quote') \in 0 .. Total(quote)
            /\ Total(base'[s]) > Total(base[s])
         \/ /\ Total(quote') >= Total(quote)
            /\ Total(base'[s]) \in 0 .. Total(base[s]) - 1
  PROVE  Promise!Apply(id)
<1>1. Holding' = [Holding EXCEPT ![s] = Holding'[s]]
  BY DEF Holding
<1>2. Holding[s] = Total(base[s]) /\ Holding'[s] = Total(base'[s])
  BY DEF Holding
<1>3. Promise!Buy(id, s) \/ Promise!Sell(id, s)
  BY <1>2 DEF Holding, Promise!Buy, Promise!Sell
<1>4. QED
  BY <1>1, <1>3 DEF Holding, Promise!Apply

LEMMA FillBuyApplies ==
  ASSUME NEW id \in OrderIds, NEW r \in RequestType,
         NEW mark \in Prices \cup {NoPrice}, NEW view, NEW plan,
         IInv, FillBuy(id, r, mark, view, plan)
  PROVE  Promise!Apply(id)
<1> DEFINE s == r.symbol  cost == WithFee(plan.notional)
<1>1. id \notin processed
  BY DEF FillBuy, Record, IInv, FillsProcessed
<1>2. processed' = processed \cup {id} /\ UNCHANGED disk
  BY DEF FillBuy, BookBuy
<1>3. Total(quote) \in Nat /\ \A t \in Symbols : Total(base[t]) \in Nat
  BY DEF IInv, SoundPortfolio, SolventBalance, Total
<1>4. /\ s \in Symbols /\ plan.filled \in Nat \ {0} /\ cost \in Nat
      /\ SoundPortfolio(quote, base, position)'
      /\ Total(quote') = IF cost <= Total(quote) THEN Total(quote) - cost ELSE 0
      /\ Total(base'[s]) = Total(base[s]) + plan.filled
      /\ \A t \in Symbols \ {s} : base'[t] = base[t]
  BY FillBuyEffect
<1> HIDE DEF s, cost
<1>5. Total(quote') \in 0 .. Total(quote) /\ Total(base'[s]) > Total(base[s])
  BY <1>3, <1>4
<1>6. QED
  BY <1>1, <1>2, <1>4, <1>5, FillIsApply

LEMMA FillSellApplies ==
  ASSUME NEW id \in OrderIds, NEW r \in RequestType,
         NEW mark \in Prices \cup {NoPrice}, NEW view, NEW plan,
         IInv, FillSell(id, r, mark, view, plan)
  PROVE  Promise!Apply(id)
<1> DEFINE s == r.symbol  proceeds == NetOfFee(plan.notional)
<1>1. id \notin processed
  BY DEF FillSell, Record, IInv, FillsProcessed
<1>2. processed' = processed \cup {id} /\ UNCHANGED disk
  BY DEF FillSell, BookSell
<1>3. Total(quote) \in Nat /\ \A t \in Symbols : Total(base[t]) \in Nat
  BY DEF IInv, SoundPortfolio, SolventBalance, Total
<1>4. /\ s \in Symbols /\ plan.filled \in Nat \ {0} /\ proceeds \in Nat
      /\ plan.filled <= Total(base[s])
      /\ SoundPortfolio(quote, base, position)'
      /\ Total(quote') = Total(quote) + proceeds
      /\ Total(base'[s]) = Total(base[s]) - plan.filled
      /\ \A t \in Symbols \ {s} : base'[t] = base[t]
  BY FillSellEffect
<1> HIDE DEF s, proceeds
<1>5. Total(quote') >= Total(quote) /\ Total(base'[s]) \in 0 .. Total(base[s]) - 1
  BY <1>3, <1>4
<1>6. QED
  BY <1>1, <1>2, <1>4, <1>5, FillIsApply

LEMMA NextIsLedgerNext ==
  IInv /\ [Next]_vars => [Promise!LedgerNext]_(Promise!ledgerVars)
<1> SUFFICES ASSUME IInv, [Next]_vars
             PROVE  Promise!LedgerNext \/ UNCHANGED Promise!ledgerVars
  OBVIOUS
<1>1. ASSUME NEW id \in OrderIds, NEW r \in Requests, Execute(id, r)
      PROVE  Promise!Apply(id) \/ UNCHANGED Promise!ledgerVars
  <2>1. PICK mark \in Prices \cup {NoPrice}, view \in Views \cup {"none"} :
              \/ RejectUnfunded(id, r, mark)
              \/ Rest(id, r, mark, view)
              \/ RejectIlliquid(id, r, mark, view)
              \/ \E plan \in FillPlans(r, view) :
                   FillBuy(id, r, mark, view, plan) \/ FillSell(id, r, mark, view, plan)
    BY <1>1, ExecuteCases
  <2>2. r \in RequestType
    BY <1>1, ExecuteCases
  <2>3. CASE RejectUnfunded(id, r, mark)
    BY <2>3, TotalsKept DEF RejectUnfunded, portfolio, Total
  <2>4. QED
    BY <2>1, <2>2, <2>3, RestStutters, FillBuyApplies, FillSellApplies
<1>2. ASSUME NEW id \in OrderIds, Cancel(id) PROVE UNCHANGED Promise!ledgerVars
  BY <1>2, CancelStutters
<1>3. ASSUME UNCHANGED vars PROVE UNCHANGED Promise!ledgerVars
  <2>1. quote' = quote /\ base' = base /\ processed' = processed /\ disk' = disk
    BY <1>3 DEF vars, portfolio
  <2>2. Total(quote') = Total(quote) /\ \A s \in Symbols : Total(base'[s]) = Total(base[s])
    BY <2>1
  <2>3. QED
    BY <2>1, <2>2, TotalsKept
<1>4. ASSUME NEW id \in OrderIds, Redeliver(id) PROVE UNCHANGED Promise!ledgerVars
  <2>1. UNCHANGED vars
    BY <1>4, RedeliverChangesNothing
  <2>2. QED
    BY <1>3, <2>1
<1>5. ASSUME Persist PROVE Promise!Save
  <2>1. Holding' = Holding /\ Total(quote') = Total(quote) /\ processed' = processed
    BY <1>5 DEF Persist, portfolio, Holding
  <2>2. disk'.quote = quote /\ disk'.base = base /\ disk'.processed = processed
    BY <1>5 DEF Persist
  <2>3. QED
    BY <2>1, <2>2 DEF Promise!Save, Promise!Ledger, Holding
<1>6. ASSUME Restart PROVE Promise!Restore
  <2>1. /\ quote' = disk.quote /\ base' = disk.base
        /\ processed' = disk.processed /\ disk' = disk
    BY <1>6 DEF Restart
  <2>2. QED
    BY <2>1 DEF Promise!Restore
<1>7. QED
  BY <1>1, <1>2, <1>3, <1>4, <1>5, <1>6 DEF Next, Promise!LedgerNext

\* The executor with its reservations implements the ledger of fills.
THEOREM LedgerImplemented == Spec => ImplementsLedger
<1>1. Spec => Promise!LedgerInit /\ [][Promise!LedgerNext]_(Promise!ledgerVars)
  BY LedgerInitHolds, NextIsLedgerNext, Invariance, PTL DEF Spec
<1>2. QED
  BY <1>1 DEF ImplementsLedger, Promise!LedgerSpec

-----------------------------------------------------------------------------
(* Limit orders against books, as the trading engine sends them.           *)

\* Walking a book for a limit order never pays more than the limit for a buy
\* nor takes less than the limit for a sell.
LEMMA PlanWithinLimit ==
  ASSUME EngineUse, NEW r \in RequestType, Limited(r), NEW view \in Views,
         NEW plan \in FillPlans(r, view)
  PROVE  /\ r.side = "buy" => plan.notional <= plan.filled * r.price * SlipDen
         /\ r.side = "sell" => plan.notional >= plan.filled * r.price * SlipDen
<1>1. plan \in WalkPlans(r)
  BY DEF EngineUse, FillPlans, WalksBook
<1>2. PICK lo, hi \in WalkPrices(r) :
        /\ plan.filled * lo * SlipDen <= plan.notional
        /\ plan.notional <= plan.filled * hi * SlipDen
  BY <1>1 DEF WalkPlans
<1>3. /\ lo \in Nat /\ hi \in Nat /\ r.price \in Nat /\ SlipDen \in Nat
      /\ r.side = "buy" => hi <= r.price
      /\ r.side = "sell" => lo >= r.price
  BY <1>2, ConstantsAssumption DEF WalkPrices, Prices, RequestType, NoPrice
<1>4. plan.filled \in Nat /\ plan.notional \in Nat
  BY PlanTypes DEF RequestType
<1>5. ASSUME NEW x \in Nat, NEW y \in Nat, x <= y
      PROVE  /\ plan.filled * x * SlipDen <= plan.filled * y * SlipDen
             /\ plan.filled * x * SlipDen \in Nat /\ plan.filled * y * SlipDen \in Nat
  <2>1. x * plan.filled <= y * plan.filled
    BY <1>4, <1>5, ProductMonotone
  <2>2. /\ plan.filled * x \in Nat /\ plan.filled * y \in Nat
        /\ plan.filled * x = x * plan.filled /\ plan.filled * y = y * plan.filled
    BY <1>4, <1>5
  <2>3. QED
    BY <1>3, <2>1, <2>2, ProductMonotone, ProductNat
<1>6. CASE r.side = "buy"
  <2>1. plan.filled * hi * SlipDen <= plan.filled * r.price * SlipDen
        /\ plan.filled * hi * SlipDen \in Nat /\ plan.filled * r.price * SlipDen \in Nat
    BY <1>3, <1>5, <1>6
  <2>2. QED
    BY <1>2, <1>4, <1>6, <2>1
<1>7. CASE r.side = "sell"
  <2>1. plan.filled * r.price * SlipDen <= plan.filled * lo * SlipDen
        /\ plan.filled * lo * SlipDen \in Nat /\ plan.filled * r.price * SlipDen \in Nat
    BY <1>3, <1>5, <1>7
  <2>2. QED
    BY <1>2, <1>4, <1>7, <2>1
<1>8. QED
  BY <1>6, <1>7 DEF RequestType

\* Such a buy never costs more than it reserved.
LEMMA CostWithinReservation ==
  ASSUME EngineUse, NEW r \in RequestType, Limited(r), NEW view \in Views,
         NEW mark \in Prices \cup {NoPrice}, NEW plan \in FillPlans(r, view),
         r.side = "buy"
  PROVE  WithFee(plan.notional) <= Needed(r, mark)
<1>1. plan.filled \in 1 .. r.qty /\ plan.notional \in Nat
      /\ plan.notional <= plan.filled * r.price * SlipDen
  BY PlanTypes, PlanWithinLimit
<1>2. r.qty \in Nat /\ r.price \in Nat /\ SlipDen \in Nat
      /\ FeeDen + FeeNum \in Nat /\ plan.filled \in Nat /\ plan.filled <= r.qty
  BY <1>1, ConstantsAssumption DEF RequestType, Prices, NoPrice
<1>3. plan.filled * r.price <= r.qty * r.price
      /\ plan.filled * r.price \in Nat /\ r.qty * r.price \in Nat
  BY <1>2, ProductMonotone, ProductNat
<1>4. plan.filled * r.price * SlipDen <= r.qty * r.price * SlipDen
      /\ plan.filled * r.price * SlipDen \in Nat /\ r.qty * r.price * SlipDen \in Nat
  BY <1>2, <1>3, ProductMonotone, ProductNat
<1>5. plan.notional <= r.qty * r.price * SlipDen
  BY <1>1, <1>4
<1>6. WithFee(plan.notional) <= WithFee(r.qty * r.price * SlipDen)
  BY <1>1, <1>2, <1>4, <1>5, ProductMonotone DEF WithFee
<1>7. Needed(r, mark) = WithFee(r.qty * r.price * SlipDen)
  BY DEF Needed, Limited
<1>8. QED
  BY <1>6, <1>7

\* Used as the engine uses it, every step but a restart conserves money: cash
\* and cost basis move by exactly what is realised.
LEMMA NextConserves ==
  ASSUME EngineUse
  PROVE  IInv /\ [Next]_vars => [Restart \/ ConservingStep]_vars
<1> SUFFICES ASSUME IInv, [Next]_vars
             PROVE  Restart \/ ConservingStep \/ UNCHANGED vars
  OBVIOUS
<1>1. SoundPortfolio(quote, base, position) /\ realized \in Int
      /\ Total(quote) \in Nat /\ \A s \in Symbols : position[s].cost \in Nat
  BY DEF IInv, TypeOK, SoundPortfolio, SolventBalance, PositionType, Total
<1>2. ASSUME Total(quote') = Total(quote), UNCHANGED <<position, realized>>
      PROVE  ConservingStep
  BY <1>2, ConstantsAssumption DEF ConservingStep
<1>3. ASSUME NEW id \in OrderIds, NEW r \in Requests, Execute(id, r)
      PROVE  ConservingStep
  <2>1. r \in RequestType /\ Limited(r)
    BY <1>3, ConstantsAssumption DEF EngineUse
  <2>2. PICK mark \in Marks(r) :
          \/ RejectUnfunded(id, r, mark)
          \/ \E view \in Views :
               \/ Rest(id, r, mark, view)
               \/ RejectIlliquid(id, r, mark, view)
               \/ \E plan \in FillPlans(r, view) :
                    \/ FillBuy(id, r, mark, view, plan)
                    \/ FillSell(id, r, mark, view, plan)
    BY <1>3 DEF Execute
  <2>3. mark \in Prices \cup {NoPrice}
    BY DEF Marks
  <2>4. CASE RejectUnfunded(id, r, mark)
    BY <1>2, <2>4 DEF RejectUnfunded, portfolio
  <2>5. ASSUME NEW view \in Views,
               Rest(id, r, mark, view) \/ RejectIlliquid(id, r, mark, view)
        PROVE  ConservingStep
    <3>1. UNCHANGED Promise!ledgerVars
      BY <2>1, <2>3, <2>5, RestStutters
    <3>2. QED
      BY <1>2, <2>5, <3>1 DEF Rest, RejectIlliquid, Promise!ledgerVars
  <2>6. ASSUME NEW view \in Views, NEW plan \in FillPlans(r, view),
               FillBuy(id, r, mark, view, plan)
        PROVE  ConservingStep
    <3> DEFINE s == r.symbol  cost == WithFee(plan.notional)
    <3>1. r.side = "buy" /\ Balance(r) = quote /\ quote.available >= Needed(r, mark)
      BY <2>6 DEF FillBuy, Balance, Funded
    <3>2. cost <= Needed(r, mark) /\ Needed(r, mark) \in Nat
      BY <2>1, <2>3, <3>1, CostWithinReservation, NeededNat
    <3>3. /\ s \in Symbols /\ cost \in Nat
          /\ Total(quote') = IF cost <= Total(quote) THEN Total(quote) - cost ELSE 0
          /\ position'[s].cost = position[s].cost + cost
          /\ \A t \in Symbols \ {s} : position'[t] = position[t]
      BY <2>1, <2>3, <2>6, FillBuyEffect
    <3>4. quote.available <= Total(quote) /\ quote.available \in Nat
      BY <1>1 DEF SoundPortfolio, SolventBalance, Total
    <3>5. realized' = realized
      BY <2>6 DEF FillBuy, BookBuy
    <3> HIDE DEF cost, s
    <3>6. Total(quote') = Total(quote) - cost
      BY <1>1, <3>1, <3>2, <3>3, <3>4
    <3>7. QED
      BY <1>1, <3>3, <3>5, <3>6 DEF ConservingStep
  <2>7. ASSUME NEW view \in Views, NEW plan \in FillPlans(r, view),
               FillSell(id, r, mark, view, plan)
        PROVE  ConservingStep
    <3> DEFINE s == r.symbol  proceeds == NetOfFee(plan.notional)
    <3>1. /\ s \in Symbols /\ proceeds \in Nat
          /\ Total(quote') = Total(quote) + proceeds
          /\ position'[s].cost = position[s].cost - (proceeds - (realized' - realized))
          /\ realized' \in Int
          /\ \A t \in Symbols \ {s} : position'[t] = position[t]
      BY <2>1, <2>3, <2>7, FillSellEffect
    <3> HIDE DEF proceeds, s
    <3>2. Total(quote') + position'[s].cost - realized'
            = Total(quote) + position[s].cost - realized
      BY <1>1, <3>1
    <3>3. QED
      BY <3>1, <3>2 DEF ConservingStep
  <2>8. QED
    BY <2>2, <2>4, <2>5, <2>6, <2>7
<1>4. ASSUME NEW id \in OrderIds, Cancel(id) PROVE ConservingStep
  BY <1>2, <1>4, CancelStutters DEF Cancel, Promise!ledgerVars
<1>5. ASSUME NEW id \in OrderIds, Redeliver(id) PROVE UNCHANGED vars
  BY <1>5, RedeliverChangesNothing
<1>6. CASE Persist
  BY <1>2, <1>6 DEF Persist, portfolio
<1>7. QED
  BY <1>3, <1>4, <1>5, <1>6 DEF Next

THEOREM MoneyConserved ==
  ASSUME EngineUse
  PROVE  Spec => ConservingSteps
BY NextConserves, Invariance, PTL DEF Spec, ConservingSteps

-----------------------------------------------------------------------------
(* What is reserved and what the open orders need.                         *)

\* How the engine cancels: orders that rest, and none twice.
EngineCancels == EngineUse /\ CancelFrom \subseteq {"OPEN"} /\ IsFiniteSet(OrderIds)

\* What each order holds of the quote asset, and of a symbol's base asset.
QuoteHeld(os) ==
  [id \in OrderIds |->
     IF os[id].status = "OPEN" /\ os[id].side = "buy"
     THEN WithFee(os[id].qty * os[id].price * SlipDen) ELSE 0]

BaseHeld(os, s) ==
  [id \in OrderIds |->
     IF os[id].status = "OPEN" /\ os[id].side = "sell" /\ os[id].symbol = s
     THEN os[id].qty ELSE 0]

QuoteNeed(os) == SumFunctionOnSet(QuoteHeld(os), OrderIds)
BaseNeed(os, s) == SumFunctionOnSet(BaseHeld(os, s), OrderIds)

\* Only limit orders that took nothing rest, and what is reserved is theirs.
Backed ==
  /\ \A id \in OrderIds : orders[id].status = "OPEN" =>
       orders[id].filled = 0 /\ orders[id].price # NoPrice
  /\ quote.reserved >= QuoteNeed(orders)
  /\ \A s \in Symbols : base[s].reserved >= BaseNeed(orders, s)
  /\ restarts = 0 =>
       /\ quote.reserved = QuoteNeed(orders)
       /\ \A s \in Symbols : base[s].reserved = BaseNeed(orders, s)

LEMMA HeldTypes ==
  ASSUME NEW os \in [OrderIds -> OrderType]
  PROVE  \A id \in OrderIds :
           QuoteHeld(os)[id] \in Nat /\ \A s : BaseHeld(os, s)[id] \in Nat
<1> SUFFICES ASSUME NEW id \in OrderIds
             PROVE  QuoteHeld(os)[id] \in Nat /\ \A s : BaseHeld(os, s)[id] \in Nat
  OBVIOUS
<1>1. /\ os[id].qty \in Nat /\ os[id].price \in Nat /\ SlipDen \in Nat
  BY ConstantsAssumption DEF OrderType, Prices, NoPrice
<1>2. os[id].qty * os[id].price \in Nat
  BY <1>1, ProductNat
<1>3. os[id].qty * os[id].price * SlipDen \in Nat
  BY <1>1, <1>2, ProductNat
<1>4. WithFee(os[id].qty * os[id].price * SlipDen) \in Nat
  BY <1>3, FeeTypes
<1> QED BY <1>1, <1>4 DEF QuoteHeld, BaseHeld

\* A step that changes one order changes the needs by that order's.
LEMMA NeedsOfOne ==
  ASSUME IsFiniteSet(OrderIds), NEW os \in [OrderIds -> OrderType],
         NEW ot \in [OrderIds -> OrderType], NEW id \in OrderIds,
         \A x \in OrderIds \ {id} : ot[x] = os[x]
  PROVE  /\ QuoteNeed(ot) = QuoteNeed(os) - QuoteHeld(os)[id] + QuoteHeld(ot)[id]
         /\ \A s : BaseNeed(ot, s) = BaseNeed(os, s) - BaseHeld(os, s)[id] + BaseHeld(ot, s)[id]
<1>1. \A x \in OrderIds : QuoteHeld(os)[x] \in Int /\ QuoteHeld(ot)[x] \in Int
  BY HeldTypes
<1>2. \A x \in OrderIds \ {id} : QuoteHeld(ot)[x] = QuoteHeld(os)[x]
  BY DEF QuoteHeld
<1>3. QuoteNeed(ot) = QuoteNeed(os) - QuoteHeld(os)[id] + QuoteHeld(ot)[id]
  BY <1>1, <1>2, SumOfUpdate DEF QuoteNeed
<1>4. ASSUME NEW s
      PROVE  BaseNeed(ot, s) = BaseNeed(os, s) - BaseHeld(os, s)[id] + BaseHeld(ot, s)[id]
  <2>1. \A x \in OrderIds : BaseHeld(os, s)[x] \in Int /\ BaseHeld(ot, s)[x] \in Int
    BY HeldTypes
  <2>2. \A x \in OrderIds \ {id} : BaseHeld(ot, s)[x] = BaseHeld(os, s)[x]
    BY DEF BaseHeld
  <2> QED BY <2>1, <2>2, SumOfUpdate DEF BaseNeed
<1> QED BY <1>3, <1>4

LEMMA NeedTypes ==
  ASSUME IsFiniteSet(OrderIds), NEW os \in [OrderIds -> OrderType], NEW id \in OrderIds
  PROVE  /\ QuoteNeed(os) \in Nat /\ QuoteHeld(os)[id] <= QuoteNeed(os)
         /\ \A s : BaseNeed(os, s) \in Nat /\ BaseHeld(os, s)[id] <= BaseNeed(os, s)
<1>1. QuoteNeed(os) \in Nat /\ QuoteHeld(os)[id] <= QuoteNeed(os)
  <2>1. \A x \in OrderIds : QuoteHeld(os)[x] \in Nat
    BY HeldTypes
  <2> QED BY <2>1, SumOfNaturals, ValueWithinSum DEF QuoteNeed
<1>2. ASSUME NEW s
      PROVE  BaseNeed(os, s) \in Nat /\ BaseHeld(os, s)[id] <= BaseNeed(os, s)
  <2>1. \A x \in OrderIds : BaseHeld(os, s)[x] \in Nat
    BY HeldTypes
  <2> QED BY <2>1, SumOfNaturals, ValueWithinSum DEF BaseNeed
<1> QED BY <1>1, <1>2

\* One order changes, and each balance by what that order changes of its needs.
LEMMA StaysBacked ==
  ASSUME IInv, IInv', Backed, IsFiniteSet(OrderIds), NEW id \in OrderIds, restarts' = restarts,
         \A x \in OrderIds \ {id} : orders'[x] = orders[x],
         orders'[id].status = "OPEN" => orders'[id].filled = 0 /\ orders'[id].price # NoPrice,
         quote'.reserved = quote.reserved - QuoteHeld(orders)[id] + QuoteHeld(orders')[id],
         \A s \in Symbols : base'[s].reserved =
           base[s].reserved - BaseHeld(orders, s)[id] + BaseHeld(orders', s)[id]
  PROVE  Backed'
<1>1. orders \in [OrderIds -> OrderType] /\ orders' \in [OrderIds -> OrderType]
  BY DEF IInv, TypeOK
<1>2. /\ QuoteNeed(orders') = QuoteNeed(orders) - QuoteHeld(orders)[id] + QuoteHeld(orders')[id]
      /\ \A s : BaseNeed(orders', s)
                  = BaseNeed(orders, s) - BaseHeld(orders, s)[id] + BaseHeld(orders', s)[id]
  BY <1>1, NeedsOfOne
<1>3. /\ QuoteNeed(orders) \in Int /\ QuoteHeld(orders)[id] \in Int /\ QuoteHeld(orders')[id] \in Int
      /\ \A s : BaseNeed(orders, s) \in Int /\ BaseHeld(orders, s)[id] \in Int
                /\ BaseHeld(orders', s)[id] \in Int
  BY <1>1, NeedTypes, HeldTypes
<1>4. quote.reserved \in Int /\ \A s \in Symbols : base[s].reserved \in Int
  BY DEF IInv, TypeOK, BalanceType
<1>5. \A x \in OrderIds : orders'[x].status = "OPEN" =>
        orders'[x].filled = 0 /\ orders'[x].price # NoPrice
  BY DEF Backed
<1>6. quote'.reserved >= QuoteNeed(orders')
      /\ (restarts' = 0 => quote'.reserved = QuoteNeed(orders'))
  BY <1>2, <1>3, <1>4 DEF Backed
<1>7. \A s \in Symbols : base'[s].reserved >= BaseNeed(orders', s)
      /\ (restarts' = 0 => base'[s].reserved = BaseNeed(orders', s))
  BY <1>2, <1>3, <1>4 DEF Backed
<1> QED BY <1>5, <1>6, <1>7 DEF Backed

\* A new order: what it holds, by its status.
LEMMA RecordHolds ==
  ASSUME IInv, NEW id \in OrderIds, NEW r \in RequestType, NEW plan, NEW status,
         Record(id, r, plan, status)
  PROVE  /\ \A x \in OrderIds \ {id} : orders'[x] = orders[x]
         /\ orders'[id] = Placed(r, plan, status)
         /\ QuoteHeld(orders)[id] = 0 /\ \A s : BaseHeld(orders, s)[id] = 0
         /\ QuoteHeld(orders')[id] = IF status = "OPEN" /\ r.side = "buy"
                                     THEN WithFee(r.qty * r.price * SlipDen) ELSE 0
         /\ \A s : BaseHeld(orders', s)[id] = IF status = "OPEN" /\ r.side = "sell" /\ r.symbol = s
                                              THEN r.qty ELSE 0
<1>1. /\ \A x \in OrderIds \ {id} : orders'[x] = orders[x]
      /\ orders'[id] = Placed(r, plan, status) /\ orders[id].status = "NONE"
  BY DEF Record, IInv, TypeOK
<1> QED BY <1>1 DEF QuoteHeld, BaseHeld, Placed

LEMMA RestBacked ==
  ASSUME IInv, IInv', Backed, IsFiniteSet(OrderIds), NEW id \in OrderIds, NEW r \in RequestType,
         NEW mark \in Prices \cup {NoPrice}, NEW view, Rest(id, r, mark, view)
  PROVE  Backed'
<1>1. Record(id, r, Unfilled, "OPEN") /\ Limited(r)
  BY DEF Rest, Rests
<1>2. /\ \A x \in OrderIds \ {id} : orders'[x] = orders[x]
      /\ orders'[id] = Placed(r, Unfilled, "OPEN")
      /\ QuoteHeld(orders)[id] = 0 /\ \A s : BaseHeld(orders, s)[id] = 0
      /\ QuoteHeld(orders')[id] = IF r.side = "buy" THEN WithFee(r.qty * r.price * SlipDen) ELSE 0
      /\ \A s : BaseHeld(orders', s)[id] = IF r.side = "sell" /\ r.symbol = s THEN r.qty ELSE 0
  BY <1>1, RecordHolds
<1>3. orders'[id].filled = 0 /\ orders'[id].price # NoPrice
  BY <1>1, <1>2 DEF Placed, Unfilled, Limited
<1>4. quote.reserved \in Int /\ (\A s \in Symbols : base[s].reserved \in Int)
      /\ base \in [Symbols -> BalanceType] /\ r.symbol \in Symbols /\ r.qty \in Int
      /\ r.side \in {"buy", "sell"}
  BY DEF IInv, TypeOK, BalanceType, RequestType
<1>5. Needed(r, mark) \in Nat
  BY NeededNat
<1>6. CASE r.side = "buy"
  <2>1. Needed(r, mark) = WithFee(r.qty * r.price * SlipDen)
    BY <1>1, <1>6 DEF Needed, Limited
  <2>2. quote'.reserved = quote.reserved + Needed(r, mark) /\ base' = base
    BY <1>6 DEF Rest, Reserve
  <2>3. /\ quote'.reserved = quote.reserved - QuoteHeld(orders)[id] + QuoteHeld(orders')[id]
        /\ \A s \in Symbols : base'[s].reserved =
             base[s].reserved - BaseHeld(orders, s)[id] + BaseHeld(orders', s)[id]
    BY <1>2, <1>4, <1>5, <1>6, <2>1, <2>2
  <2> QED BY <1>2, <1>3, <2>3, StaysBacked DEF Rest
<1>7. CASE r.side = "sell"
  <2>1. Needed(r, mark) = r.qty
    BY <1>7 DEF Needed
  <2>2. /\ quote' = quote
        /\ base'[r.symbol].reserved = base[r.symbol].reserved + r.qty
        /\ \A s \in Symbols \ {r.symbol} : base'[s] = base[s]
    BY <1>4, <1>7, <2>1 DEF Rest, Reserve
  <2>3. /\ quote'.reserved = quote.reserved - QuoteHeld(orders)[id] + QuoteHeld(orders')[id]
        /\ \A s \in Symbols : base'[s].reserved =
             base[s].reserved - BaseHeld(orders, s)[id] + BaseHeld(orders', s)[id]
    BY <1>2, <1>4, <1>7, <2>2
  <2> QED BY <1>2, <1>3, <2>3, StaysBacked DEF Rest
<1> QED BY <1>4, <1>6, <1>7

\* An order that does not rest leaves what is reserved as it was.
LEMMA NotRestingBacked ==
  ASSUME IInv, IInv', Backed, IsFiniteSet(OrderIds), NEW id \in OrderIds, NEW r \in RequestType,
         NEW plan, NEW status, status # "OPEN", Record(id, r, plan, status), restarts' = restarts,
         quote'.reserved = quote.reserved,
         \A s \in Symbols : base'[s].reserved = base[s].reserved
  PROVE  Backed'
<1>1. /\ \A x \in OrderIds \ {id} : orders'[x] = orders[x]
      /\ orders'[id] = Placed(r, plan, status)
      /\ QuoteHeld(orders)[id] = 0 /\ \A s : BaseHeld(orders, s)[id] = 0
      /\ QuoteHeld(orders')[id] = 0 /\ \A s : BaseHeld(orders', s)[id] = 0
  BY RecordHolds
<1>2. orders'[id].status # "OPEN"
  BY <1>1 DEF Placed
<1>3. quote.reserved \in Int /\ \A s \in Symbols : base[s].reserved \in Int
  BY DEF IInv, TypeOK, BalanceType
<1>4. /\ quote'.reserved = quote.reserved - QuoteHeld(orders)[id] + QuoteHeld(orders')[id]
      /\ \A s \in Symbols : base'[s].reserved =
           base[s].reserved - BaseHeld(orders, s)[id] + BaseHeld(orders', s)[id]
  BY <1>1, <1>3
<1> QED BY <1>1, <1>2, <1>4, StaysBacked

LEMMA RejectIlliquidReserves ==
  ASSUME IInv, NEW id, NEW r \in RequestType, NEW mark \in Prices \cup {NoPrice}, NEW view,
         RejectIlliquid(id, r, mark, view)
  PROVE  /\ quote'.reserved = quote.reserved
         /\ \A s \in Symbols : base'[s].reserved = base[s].reserved
<1>1. ASSUME NEW b \in SolventBalance, NEW amount \in Nat
      PROVE  Release(Reserve(b, amount), amount).reserved = b.reserved
  BY DEF SolventBalance, Release, Reserve
<1>2. /\ quote \in SolventBalance /\ base \in [Symbols -> SolventBalance]
      /\ r.symbol \in Symbols
  BY DEF IInv, SoundPortfolio, RequestType
<1> QED BY <1>1, <1>2, NeededNat DEF RejectIlliquid

LEMMA FillBuyReserves ==
  ASSUME EngineUse, IInv, NEW id, NEW r \in RequestType, Limited(r),
         NEW mark \in Prices \cup {NoPrice}, NEW view \in Views,
         NEW plan, FillBuy(id, r, mark, view, plan)
  PROVE  /\ quote'.reserved = quote.reserved
         /\ \A s \in Symbols : base'[s].reserved = base[s].reserved
<1> DEFINE n == Needed(r, mark)
           cost == WithFee(plan.notional)
<1>1. r.side = "buy" /\ plan \in FillPlans(r, view)
  BY DEF FillBuy
<1>2. cost <= n /\ n \in Nat /\ cost \in Nat
  <2>1. plan.notional \in Nat
    BY <1>1, PlanTypes
  <2> QED BY <1>1, <2>1, CostWithinReservation, NeededNat, FeeTypes
<1>3. quote \in SolventBalance /\ base \in [Symbols -> SolventBalance] /\ r.symbol \in Symbols
  BY DEF IInv, SoundPortfolio, RequestType
<1>4. quote' = Spend(AdjustQuote(Reserve(quote, n), n, cost), cost)
  BY DEF FillBuy, BookBuy, ReadyQuote
<1> HIDE DEF n, cost
<1>5. ASSUME NEW b \in SolventBalance
      PROVE  AdjustQuote(Reserve(b, n), n, cost).reserved = b.reserved + cost
  BY <1>2 DEF SolventBalance, AdjustQuote, Release, TryReserve, Reserve
<1>6. ASSUME NEW b, NEW k \in Nat, b.reserved = k + cost
      PROVE  Spend(b, cost).reserved = k
  BY <1>2, <1>6 DEF Spend
<1>7. quote'.reserved = quote.reserved
  BY <1>3, <1>4, <1>5, <1>6 DEF SolventBalance
<1>8. \A s \in Symbols : base'[s].reserved = base[s].reserved
  BY <1>3 DEF FillBuy, BookBuy, Credit, SolventBalance
<1> QED BY <1>7, <1>8

LEMMA FillSellReserves ==
  ASSUME IInv, NEW id, NEW r \in RequestType, NEW mark \in Prices \cup {NoPrice}, NEW view,
         NEW plan, FillSell(id, r, mark, view, plan)
  PROVE  /\ quote'.reserved = quote.reserved
         /\ \A s \in Symbols : base'[s].reserved = base[s].reserved
<1> DEFINE n == Needed(r, mark)
           f == plan.filled
           b == base[r.symbol]
<1>1. n = r.qty /\ plan \in FillPlans(r, view)
  BY DEF FillSell, Needed
<1>2. n \in Nat /\ f \in Nat /\ f <= n
  BY <1>1, PlanTypes DEF RequestType
<1>3. /\ quote \in SolventBalance /\ base \in [Symbols -> SolventBalance] /\ r.symbol \in Symbols
      /\ b \in SolventBalance
  BY DEF IInv, SoundPortfolio, RequestType
<1>4. base' = [base EXCEPT ![r.symbol] = Deliver(AdjustBase(Reserve(b, n), n, f), f)]
  BY DEF FillSell, BookSell, ReadyBase
<1> HIDE DEF n, f
<1>5. AdjustBase(Reserve(b, n), n, f).reserved = b.reserved + f
  BY <1>2, <1>3 DEF SolventBalance, AdjustBase, Release, Reserve
<1>6. Deliver(AdjustBase(Reserve(b, n), n, f), f).reserved = b.reserved
  <2>1. ASSUME NEW c, NEW k \in Nat, c.reserved = k + f
        PROVE  Deliver(c, f).reserved = k
    BY <1>2, <2>1 DEF Deliver
  <2> QED BY <1>3, <1>5, <2>1 DEF SolventBalance
<1>7. \A s \in Symbols : base'[s].reserved = base[s].reserved
  BY <1>3, <1>4, <1>6
<1>8. quote'.reserved = quote.reserved
  BY <1>3 DEF FillSell, BookSell, Credit, SolventBalance
<1> QED BY <1>7, <1>8

\* What cancel releases of an order that rests is what the order holds.
LEMMA CancelBacked ==
  ASSUME EngineCancels, IInv, IInv', Backed, NEW id \in OrderIds, Cancel(id)
  PROVE  Backed'
<1> DEFINE o == orders[id]
<1>1. /\ o.status = "OPEN" /\ o.filled = 0 /\ o.price # NoPrice
      /\ o \in OrderType /\ orders \in [OrderIds -> OrderType] /\ IsFiniteSet(OrderIds)
  BY DEF EngineCancels, Cancel, IInv, TypeOK, Backed
<1>2. /\ \A x \in OrderIds \ {id} : orders'[x] = orders[x]
      /\ orders'[id].status = "CANCELLED"
  BY <1>1 DEF Cancel, OrderType
<1>3. CancelRelease(o) = IF o.side = "sell" THEN o.qty
                         ELSE WithFee(o.qty * o.price * SlipDen)
  BY <1>1 DEF CancelRelease, OrderType
<1>4. /\ QuoteHeld(orders)[id] = IF o.side = "buy" THEN CancelRelease(o) ELSE 0
      /\ \A s : BaseHeld(orders, s)[id] =
                 IF o.side = "sell" /\ o.symbol = s THEN CancelRelease(o) ELSE 0
      /\ QuoteHeld(orders')[id] = 0 /\ \A s : BaseHeld(orders', s)[id] = 0
  BY <1>1, <1>2, <1>3 DEF QuoteHeld, BaseHeld
<1>5. /\ QuoteHeld(orders)[id] \in Nat /\ QuoteHeld(orders)[id] <= QuoteNeed(orders)
      /\ QuoteNeed(orders) \in Nat
      /\ \A s : /\ BaseHeld(orders, s)[id] \in Nat /\ BaseNeed(orders, s) \in Nat
                /\ BaseHeld(orders, s)[id] <= BaseNeed(orders, s)
  BY <1>1, HeldTypes, NeedTypes
<1>6. /\ quote \in SolventBalance /\ base \in [Symbols -> SolventBalance]
      /\ o.symbol \in Symbols /\ o.side \in {"buy", "sell"}
  BY <1>1 DEF IInv, SoundPortfolio, OrderType
<1>7. ASSUME NEW b \in SolventBalance, NEW amount \in Nat, amount <= b.reserved
      PROVE  Release(b, amount).reserved = b.reserved - amount
  BY <1>7 DEF SolventBalance, Release
<1> HIDE DEF o
<1>8. CASE o.side = "buy"
  <2>1. quote' = Release(quote, CancelRelease(o)) /\ base' = base
    BY <1>8 DEF Cancel, o
  <2>2. CancelRelease(o) \in Nat /\ CancelRelease(o) <= quote.reserved
    BY <1>4, <1>5, <1>6, <1>8 DEF Backed, SolventBalance
  <2>3. quote'.reserved = quote.reserved - CancelRelease(o)
    BY <1>6, <1>7, <2>1, <2>2
  <2>4. /\ quote'.reserved = quote.reserved - QuoteHeld(orders)[id] + QuoteHeld(orders')[id]
        /\ \A s \in Symbols : base'[s].reserved =
             base[s].reserved - BaseHeld(orders, s)[id] + BaseHeld(orders', s)[id]
    BY <1>4, <1>6, <1>8, <2>1, <2>2, <2>3 DEF SolventBalance
  <2> QED BY <1>1, <1>2, <2>4, StaysBacked DEF Cancel
<1>9. CASE o.side = "sell"
  <2>1. /\ base' = [base EXCEPT ![o.symbol] = Release(base[o.symbol], CancelRelease(o))]
        /\ quote' = quote
    BY <1>9 DEF Cancel, o
  <2>2. CancelRelease(o) \in Nat /\ CancelRelease(o) <= base[o.symbol].reserved
    BY <1>4, <1>5, <1>6, <1>9 DEF Backed, SolventBalance
  <2>3. /\ base'[o.symbol].reserved = base[o.symbol].reserved - CancelRelease(o)
        /\ \A s \in Symbols \ {o.symbol} : base'[s] = base[s]
    BY <1>6, <1>7, <2>1, <2>2
  <2>4. /\ quote'.reserved = quote.reserved - QuoteHeld(orders)[id] + QuoteHeld(orders')[id]
        /\ \A s \in Symbols : base'[s].reserved =
             base[s].reserved - BaseHeld(orders, s)[id] + BaseHeld(orders', s)[id]
    BY <1>4, <1>6, <1>9, <2>1, <2>2, <2>3 DEF SolventBalance
  <2> QED BY <1>1, <1>2, <2>4, StaysBacked DEF Cancel
<1> QED BY <1>6, <1>8, <1>9

LEMMA NoneOpenNeedsNothing ==
  ASSUME IsFiniteSet(OrderIds), NEW os, \A id \in OrderIds : os[id].status # "OPEN"
  PROVE  QuoteNeed(os) = 0 /\ \A s : BaseNeed(os, s) = 0
<1>1. \A id \in OrderIds : QuoteHeld(os)[id] = 0 /\ \A s : BaseHeld(os, s)[id] = 0
  BY DEF QuoteHeld, BaseHeld
<1> QED BY <1>1, SumOfZeros DEF QuoteNeed, BaseNeed

\* A restart forgets the orders, and loads reserves that nothing needs.
LEMMA RestartBacked ==
  ASSUME IInv, IsFiniteSet(OrderIds), Restart
  PROVE  Backed'
<1>1. \A id \in OrderIds : orders'[id].status # "OPEN"
  <2> SUFFICES ASSUME NEW id \in OrderIds PROVE orders'[id].status # "OPEN"
    OBVIOUS
  <2>1. orders[id] \in OrderType
    BY DEF IInv, TypeOK
  <2>2. orders'[id] = IF orders[id].status = "NONE" THEN orders[id]
                      ELSE [orders[id] EXCEPT !.status = "LOST"]
    BY DEF Restart
  <2> QED BY <2>1, <2>2 DEF OrderType
<1>2. QuoteNeed(orders') = 0 /\ \A s : BaseNeed(orders', s) = 0
  BY <1>1, NoneOpenNeedsNothing
<1>3. quote'.reserved \in Nat /\ \A s \in Symbols : base'[s].reserved \in Nat
  BY DEF Restart, IInv, SoundPortfolio, SolventBalance
<1>4. restarts' # 0
  BY ConstantsAssumption DEF Restart, IInv, TypeOK
<1> QED BY <1>1, <1>2, <1>3, <1>4 DEF Backed

LEMMA InitBacked == IsFiniteSet(OrderIds) /\ Init => Backed
<1> SUFFICES ASSUME IsFiniteSet(OrderIds), Init PROVE Backed
  OBVIOUS
<1>1. \A id \in OrderIds : orders[id].status # "OPEN"
  BY DEF Init, NoOrder
<1>2. QuoteNeed(orders) = 0 /\ \A s : BaseNeed(orders, s) = 0
  BY <1>1, NoneOpenNeedsNothing
<1>3. quote.reserved = 0 /\ \A s \in Symbols : base[s].reserved = 0
  BY DEF Init, InitQuote, InitBase
<1> QED BY <1>1, <1>2, <1>3 DEF Backed

LEMMA NextBacked ==
  ASSUME EngineCancels
  PROVE  IInv /\ IInv' /\ Backed /\ [Next]_vars => Backed'
<1> SUFFICES ASSUME IInv, IInv', Backed, [Next]_vars PROVE Backed'
  OBVIOUS
<1>0. EngineUse /\ IsFiniteSet(OrderIds)
  BY DEF EngineCancels
<1>1. ASSUME NEW id \in OrderIds, NEW r \in Requests, Execute(id, r)
      PROVE  Backed'
  <2>1. r \in RequestType /\ Limited(r)
    BY <1>0, ConstantsAssumption DEF EngineUse
  <2>2. PICK mark \in Marks(r) :
          \/ RejectUnfunded(id, r, mark)
          \/ \E view \in Views :
               \/ Rest(id, r, mark, view)
               \/ RejectIlliquid(id, r, mark, view)
               \/ \E plan \in FillPlans(r, view) :
                    \/ FillBuy(id, r, mark, view, plan)
                    \/ FillSell(id, r, mark, view, plan)
    BY <1>1 DEF Execute
  <2>3. mark \in Prices \cup {NoPrice}
    BY DEF Marks
  <2>4. CASE RejectUnfunded(id, r, mark)
    <3>1. Record(id, r, Unfilled, "REJECTED") /\ UNCHANGED <<quote, base, restarts>>
      BY <2>4 DEF RejectUnfunded, portfolio
    <3> QED BY <1>0, <2>1, <3>1, NotRestingBacked
  <2>5. ASSUME NEW view \in Views, Rest(id, r, mark, view) PROVE Backed'
    BY <1>0, <2>1, <2>3, <2>5, RestBacked
  <2>6. ASSUME NEW view \in Views, RejectIlliquid(id, r, mark, view) PROVE Backed'
    <3>1. Record(id, r, Unfilled, "REJECTED") /\ restarts' = restarts
      BY <2>6 DEF RejectIlliquid
    <3> QED BY <1>0, <2>1, <2>3, <2>6, <3>1, RejectIlliquidReserves, NotRestingBacked
  <2>7. \A plan : FillStatus(r, plan) # "OPEN"
    BY DEF FillStatus
  <2>8. ASSUME NEW view \in Views, NEW plan, FillBuy(id, r, mark, view, plan) PROVE Backed'
    <3>1. Record(id, r, plan, FillStatus(r, plan)) /\ restarts' = restarts
      BY <2>8 DEF FillBuy
    <3> QED BY <1>0, <2>1, <2>3, <2>7, <2>8, <3>1, FillBuyReserves, NotRestingBacked
  <2>9. ASSUME NEW view \in Views, NEW plan, FillSell(id, r, mark, view, plan) PROVE Backed'
    <3>1. Record(id, r, plan, FillStatus(r, plan)) /\ restarts' = restarts
      BY <2>9 DEF FillSell
    <3> QED BY <1>0, <2>1, <2>3, <2>7, <2>9, <3>1, FillSellReserves, NotRestingBacked
  <2> QED BY <2>2, <2>4, <2>5, <2>6, <2>8, <2>9
<1>2. ASSUME NEW id \in OrderIds, Cancel(id) PROVE Backed'
  BY <1>2, CancelBacked
<1>3. CASE UNCHANGED vars
  BY <1>3 DEF vars, portfolio, Backed
<1>4. ASSUME NEW id \in OrderIds, Redeliver(id) PROVE Backed'
  BY <1>3, <1>4, RedeliverChangesNothing
<1>5. CASE Persist
  BY <1>5 DEF Persist, portfolio, Backed
<1>6. CASE Restart
  BY <1>0, <1>6, RestartBacked
<1> QED BY <1>1, <1>2, <1>3, <1>4, <1>5, <1>6 DEF Next

\* The sum the specification takes of what orders hold is that of a function
\* with the same values.
LEMMA SumOfQuoteHeld ==
  ASSUME NEW S, IsFiniteSet(S), NEW f, \A id \in S : f[id] = QuoteHeldFor(id)
  PROVE  Sum(QuoteHeldFor, S) = SumFunctionOnSet(f, S)
<1> DEFINE IsIt(g) == g = [s \in SUBSET S |->
             IF s = {} THEN 0 ELSE QuoteHeldFor(Member(s)) + g[s \ {Member(s)}]]
           h == CHOOSE k : IsIt(k)
<1>1. PICK g : Sums(f, S, g)
  BY SumsExist
<1>2. \A s \in SUBSET S : s # {} => f[Member(s)] = QuoteHeldFor(Member(s))
  BY DEF Member
<1>3. IsIt(g)
  BY <1>1, <1>2 DEF Sums
<1>4. IsIt(h)
  <2> HIDE DEF IsIt
  <2> QED BY <1>3
<1>5. Sum(QuoteHeldFor, S) = h[S]
  BY DEF Sum, MapThenSumSet, MapThenFoldSet, Member
<1> HIDE DEF h
<1>6. Sums(f, S, h)
  BY <1>2, <1>4 DEF Sums
<1> QED BY <1>5, <1>6, SumIsOfSums

LEMMA SumOfBaseHeld ==
  ASSUME NEW sym, NEW S, IsFiniteSet(S), NEW f, \A id \in S : f[id] = BaseHeldFor(sym, id)
  PROVE  Sum(LAMBDA id : BaseHeldFor(sym, id), S) = SumFunctionOnSet(f, S)
<1> DEFINE IsIt(g) == g = [s \in SUBSET S |->
             IF s = {} THEN 0 ELSE BaseHeldFor(sym, Member(s)) + g[s \ {Member(s)}]]
           h == CHOOSE k : IsIt(k)
<1>1. PICK g : Sums(f, S, g)
  BY SumsExist
<1>2. \A s \in SUBSET S : s # {} => f[Member(s)] = BaseHeldFor(sym, Member(s))
  BY DEF Member
<1>3. IsIt(g)
  BY <1>1, <1>2 DEF Sums
<1>4. IsIt(h)
  <2> HIDE DEF IsIt
  <2> QED BY <1>3
<1>5. Sum(LAMBDA id : BaseHeldFor(sym, id), S) = h[S]
  BY DEF Sum, MapThenSumSet, MapThenFoldSet, Member
<1> HIDE DEF h
<1>6. Sums(f, S, h)
  BY <1>2, <1>4 DEF Sums
<1> QED BY <1>5, <1>6, SumIsOfSums

LEMMA SumOfCash ==
  ASSUME NEW S, IsFiniteSet(S), NEW f, \A id \in S : f[id] = CashOf(id)
  PROVE  Sum(CashOf, S) = SumFunctionOnSet(f, S)
<1> DEFINE IsIt(g) == g = [s \in SUBSET S |->
             IF s = {} THEN 0 ELSE CashOf(Member(s)) + g[s \ {Member(s)}]]
           h == CHOOSE k : IsIt(k)
<1>1. PICK g : Sums(f, S, g)
  BY SumsExist
<1>2. \A s \in SUBSET S : s # {} => f[Member(s)] = CashOf(Member(s))
  BY DEF Member
<1>3. IsIt(g)
  BY <1>1, <1>2 DEF Sums
<1>4. IsIt(h)
  <2> HIDE DEF IsIt
  <2> QED BY <1>3
<1>5. Sum(CashOf, S) = h[S]
  BY DEF Sum, MapThenSumSet, MapThenFoldSet, Member
<1> HIDE DEF h
<1>6. Sums(f, S, h)
  BY <1>2, <1>4 DEF Sums
<1> QED BY <1>5, <1>6, SumIsOfSums

LEMMA SumOfCosts ==
  ASSUME NEW S, IsFiniteSet(S), NEW f, \A id \in S : f[id] = CostOf(id)
  PROVE  Sum(CostOf, S) = SumFunctionOnSet(f, S)
<1> DEFINE IsIt(g) == g = [s \in SUBSET S |->
             IF s = {} THEN 0 ELSE CostOf(Member(s)) + g[s \ {Member(s)}]]
           h == CHOOSE k : IsIt(k)
<1>1. PICK g : Sums(f, S, g)
  BY SumsExist
<1>2. \A s \in SUBSET S : s # {} => f[Member(s)] = CostOf(Member(s))
  BY DEF Member
<1>3. IsIt(g)
  BY <1>1, <1>2 DEF Sums
<1>4. IsIt(h)
  <2> HIDE DEF IsIt
  <2> QED BY <1>3
<1>5. Sum(CostOf, S) = h[S]
  BY DEF Sum, MapThenSumSet, MapThenFoldSet, Member
<1> HIDE DEF h
<1>6. Sums(f, S, h)
  BY <1>2, <1>4 DEF Sums
<1> QED BY <1>5, <1>6, SumIsOfSums

LEMMA BackedMeans ==
  ASSUME IsFiniteSet(OrderIds), TypeOK, Backed
  PROVE  ReservationsBacked
<1>1. OpenOrders("buy") \subseteq OrderIds /\ OpenOrders("sell") \subseteq OrderIds
      /\ IsFiniteSet(OpenOrders("buy")) /\ IsFiniteSet(OpenOrders("sell"))
  BY FS_Subset DEF OpenOrders
<1>2. \A id \in OrderIds : QuoteHeld(orders)[id] \in Nat /\ \A s : BaseHeld(orders, s)[id] \in Nat
  BY HeldTypes DEF TypeOK
<1>3. Sum(QuoteHeldFor, OpenOrders("buy")) = QuoteNeed(orders)
  <2>1. \A id \in OpenOrders("buy") : QuoteHeld(orders)[id] = QuoteHeldFor(id)
    BY DEF OpenOrders, QuoteHeld, QuoteHeldFor
  <2>2. \A id \in OrderIds \ OpenOrders("buy") : QuoteHeld(orders)[id] = 0
    BY DEF OpenOrders, QuoteHeld
  <2>3. SumFunctionOnSet(QuoteHeld(orders), OrderIds)
          = SumFunctionOnSet(QuoteHeld(orders), OpenOrders("buy"))
    <3>1. \A id \in OpenOrders("buy") : QuoteHeld(orders)[id] \in Int
      BY <1>1, <1>2
    <3> QED BY <1>1, <2>2, <3>1, SumOverPart
  <2> QED BY <1>1, <2>1, <2>3, SumOfQuoteHeld DEF QuoteNeed
<1>4. ASSUME NEW s \in Symbols
      PROVE  BaseNeeded(s) = BaseNeed(orders, s)
  <2>1. \A id \in OpenOrders("sell") : BaseHeld(orders, s)[id] = BaseHeldFor(s, id)
    BY DEF OpenOrders, BaseHeld, BaseHeldFor
  <2>2. \A id \in OrderIds \ OpenOrders("sell") : BaseHeld(orders, s)[id] = 0
    BY DEF OpenOrders, BaseHeld
  <2>3. SumFunctionOnSet(BaseHeld(orders, s), OrderIds)
          = SumFunctionOnSet(BaseHeld(orders, s), OpenOrders("sell"))
    <3>1. \A id \in OpenOrders("sell") : BaseHeld(orders, s)[id] \in Int
      BY <1>1, <1>2
    <3> QED BY <1>1, <2>2, <3>1, SumOverPart
  <2>4. BaseNeeded(s) = SumFunctionOnSet(BaseHeld(orders, s), OpenOrders("sell"))
    BY <1>1, <2>1, SumOfBaseHeld DEF BaseNeeded
  <2> QED BY <2>3, <2>4 DEF BaseNeed
<1> QED BY <1>3, <1>4 DEF ReservationsBacked, Backed

\* Used as the engine uses it, what is reserved covers what the open orders
\* need, and is that exactly before the first restart (reserve,
\* _adjust_reservation_after_fill, cancel).
THEOREM ReservedIsNeeded ==
  ASSUME EngineCancels
  PROVE  Spec => []ReservationsBacked
<1>1. Init => Backed
  BY InitBacked DEF EngineCancels
<1>2. IInv /\ IInv' /\ Backed /\ [Next]_vars => Backed'
  BY NextBacked
<1>3. IInv /\ Backed => ReservationsBacked
  BY BackedMeans DEF EngineCancels, IInv
<1> QED BY <1>1, <1>2, <1>3, Invariance, PTL DEF Spec

-----------------------------------------------------------------------------
(* Cash, cost and profit.                                                  *)

\* What a set of fills moved, in memory and in what was saved.
CashMoves(os) ==
  [id \in OrderIds |-> IF os[id].side = "buy" THEN - WithFee(os[id].notional)
                       ELSE NetOfFee(os[id].notional)]
Moved(os, fills) == SumFunctionOnSet(CashMoves(os), fills)

Follows ==
  /\ Total(quote) = StartQuote + Moved(orders, processed)
  /\ Total(disk.quote) = StartQuote + Moved(orders, disk.processed)

LEMMA MoveTypes ==
  ASSUME NEW os \in [OrderIds -> OrderType]
  PROVE  \A id \in OrderIds : CashMoves(os)[id] \in Int
<1> SUFFICES ASSUME NEW id \in OrderIds PROVE CashMoves(os)[id] \in Int
  OBVIOUS
<1>1. os[id].notional \in Nat
  BY DEF OrderType
<1>2. WithFee(os[id].notional) \in Int /\ NetOfFee(os[id].notional) \in Int
  BY <1>1, FeeTypes
<1> QED BY <1>2 DEF CashMoves

\* Fills of orders that keep their side and notional moved what they moved.
LEMMA MovedKept ==
  ASSUME IsFiniteSet(OrderIds), NEW os, NEW ot, NEW fills, fills \subseteq OrderIds,
         \A id \in fills : ot[id].side = os[id].side /\ ot[id].notional = os[id].notional
  PROVE  Moved(ot, fills) = Moved(os, fills)
<1>1. \A id \in fills : CashMoves(ot)[id] = CashMoves(os)[id]
  BY DEF CashMoves
<1>2. IsFiniteSet(fills)
  BY FS_Subset
<1> QED BY <1>1, <1>2, SumAgrees DEF Moved

\* A fill that is new moves its own cash and no other.
LEMMA FillFollows ==
  ASSUME IsFiniteSet(OrderIds), IInv, IInv', Follows, NEW id \in OrderIds,
         orders[id].status = "NONE", processed' = processed \cup {id}, disk' = disk,
         \A x \in OrderIds \ {id} : orders'[x] = orders[x],
         Total(quote') = Total(quote) + CashMoves(orders')[id]
  PROVE  Follows'
<1>1. id \notin processed /\ processed \subseteq OrderIds /\ disk.processed \subseteq processed
  BY DEF IInv, TypeOK, FillsProcessed
<1>2. Moved(orders', processed) = Moved(orders, processed)
  BY <1>1, MovedKept
<1>3. Moved(orders', disk.processed) = Moved(orders, disk.processed)
  BY <1>1, MovedKept
<1>4. Moved(orders', processed') = CashMoves(orders')[id] + Moved(orders', processed)
  <2>1. \A x \in OrderIds : CashMoves(orders')[x] \in Int
    BY MoveTypes DEF IInv, TypeOK
  <2>2. /\ IsFiniteSet(processed') /\ id \in processed' /\ processed' \ {id} = processed
        /\ \A x \in processed' : CashMoves(orders')[x] \in Int
    BY <1>1, <2>1, FS_Subset
  <2> QED BY <2>2, SumAdds DEF Moved
<1>5. /\ CashMoves(orders')[id] \in Int /\ Moved(orders, processed) \in Int
      /\ StartQuote \in Int
  <2>1. /\ \A x \in OrderIds : CashMoves(orders')[x] \in Int /\ CashMoves(orders)[x] \in Int
    BY MoveTypes DEF IInv, TypeOK
  <2>2. \A x \in processed : CashMoves(orders)[x] \in Int
    BY <1>1, <2>1
  <2>3. IsFiniteSet(processed)
    BY <1>1, FS_Subset
  <2> QED BY <2>1, <2>2, <2>3, SumType, ConstantsAssumption DEF Moved
<1> QED BY <1>2, <1>3, <1>4, <1>5 DEF Follows

\* Without a new fill, cash stays what it was.
LEMMA NoFillFollows ==
  ASSUME IsFiniteSet(OrderIds), IInv, Follows, UNCHANGED <<processed, disk>>,
         Total(quote') = Total(quote),
         \A id \in processed : orders'[id].side = orders[id].side
                              /\ orders'[id].notional = orders[id].notional
  PROVE  Follows'
<1>1. processed \subseteq OrderIds /\ disk.processed \subseteq processed
  BY DEF IInv, TypeOK, FillsProcessed
<1>2. Moved(orders', processed) = Moved(orders, processed)
  BY <1>1, MovedKept
<1>3. Moved(orders', disk.processed) = Moved(orders, disk.processed)
  BY <1>1, MovedKept
<1> QED BY <1>2, <1>3 DEF Follows

LEMMA InitFollows == Init => Follows
<1> SUFFICES ASSUME Init PROVE Follows
  OBVIOUS
<1>1. Moved(orders, {}) = 0
  BY SumOfNone DEF Moved
<1> QED BY <1>1, ConstantsAssumption DEF Init, InitQuote, Total, Follows

LEMMA ExecuteFollows ==
  ASSUME EngineUse, IsFiniteSet(OrderIds), IInv, IInv', Follows,
         NEW id \in OrderIds, NEW r \in Requests, Execute(id, r)
  PROVE  Follows'
<1>1. r \in RequestType /\ Limited(r)
  BY ConstantsAssumption DEF EngineUse
<1>2. PICK mark \in Marks(r) :
        \/ RejectUnfunded(id, r, mark)
        \/ \E view \in Views :
             \/ Rest(id, r, mark, view)
             \/ RejectIlliquid(id, r, mark, view)
             \/ \E plan \in FillPlans(r, view) :
                  \/ FillBuy(id, r, mark, view, plan)
                  \/ FillSell(id, r, mark, view, plan)
  BY DEF Execute
<1>3. mark \in Prices \cup {NoPrice}
  BY DEF Marks
<1>4. ASSUME NEW plan, NEW status, Record(id, r, plan, status)
      PROVE  /\ orders[id].status = "NONE" /\ id \notin processed
             /\ orders'[id] = Placed(r, plan, status)
             /\ \A x \in OrderIds \ {id} : orders'[x] = orders[x]
             /\ \A x \in processed : orders'[x] = orders[x]
  BY <1>4 DEF Record, IInv, TypeOK, FillsProcessed
<1>5. CASE RejectUnfunded(id, r, mark)
  <2>1. Record(id, r, Unfilled, "REJECTED") /\ UNCHANGED <<quote, processed, disk>>
    BY <1>5 DEF RejectUnfunded, portfolio
  <2> QED BY <1>4, <2>1, NoFillFollows
<1>6. ASSUME NEW view \in Views, Rest(id, r, mark, view) \/ RejectIlliquid(id, r, mark, view)
      PROVE  Follows'
  <2>1. PICK status \in {"OPEN", "REJECTED"} : Record(id, r, Unfilled, status)
    BY <1>6 DEF Rest, RejectIlliquid
  <2>2. UNCHANGED <<processed, disk>>
    BY <1>6 DEF Rest, RejectIlliquid
  <2>3. UNCHANGED Promise!ledgerVars
    BY <1>1, <1>3, <1>6, RestStutters
  <2>4. Total(quote') = Total(quote)
    BY <2>3 DEF Promise!ledgerVars
  <2> QED BY <1>4, <2>1, <2>2, <2>4, NoFillFollows
<1>7. ASSUME NEW view \in Views, NEW plan \in FillPlans(r, view), FillBuy(id, r, mark, view, plan)
      PROVE  Follows'
  <2> DEFINE cost == WithFee(plan.notional)
  <2>1. r.side = "buy" /\ Balance(r) = quote /\ quote.available >= Needed(r, mark)
    BY <1>7 DEF FillBuy, Balance, Funded
  <2>2. cost <= Needed(r, mark) /\ Needed(r, mark) \in Nat
    BY <1>1, <1>3, <2>1, CostWithinReservation, NeededNat
  <2>3. cost \in Nat /\ Total(quote') = IF cost <= Total(quote) THEN Total(quote) - cost ELSE 0
    BY <1>1, <1>3, <1>7, FillBuyEffect
  <2>4. quote.available <= Total(quote) /\ quote.available \in Nat /\ Total(quote) \in Nat
    BY DEF IInv, SoundPortfolio, SolventBalance, Total
  <2>5. Record(id, r, plan, FillStatus(r, plan)) /\ processed' = processed \cup {id} /\ disk' = disk
    BY <1>7 DEF FillBuy, BookBuy
  <2>6. CashMoves(orders')[id] = - cost
    <3>1. orders'[id] = Placed(r, plan, FillStatus(r, plan))
      BY <1>4, <2>5
    <3>2. orders'[id].side = "buy" /\ orders'[id].notional = plan.notional
      BY <2>1, <3>1 DEF Placed
    <3> QED BY <3>2 DEF CashMoves
  <2> HIDE DEF cost
  <2>7. Total(quote') = Total(quote) + CashMoves(orders')[id]
    BY <2>1, <2>2, <2>3, <2>4, <2>6
  <2> QED BY <1>4, <2>5, <2>7, FillFollows
<1>8. ASSUME NEW view \in Views, NEW plan \in FillPlans(r, view), FillSell(id, r, mark, view, plan)
      PROVE  Follows'
  <2>1. Total(quote') = Total(quote) + NetOfFee(plan.notional)
    BY <1>1, <1>3, <1>8, FillSellEffect
  <2>2. Record(id, r, plan, FillStatus(r, plan)) /\ processed' = processed \cup {id} /\ disk' = disk
        /\ r.side = "sell"
    BY <1>8 DEF FillSell, BookSell
  <2>3. CashMoves(orders')[id] = NetOfFee(plan.notional)
    <3>1. orders'[id] = Placed(r, plan, FillStatus(r, plan))
      BY <1>4, <2>2
    <3>2. orders'[id].side = "sell" /\ orders'[id].notional = plan.notional
      BY <2>2, <3>1 DEF Placed
    <3> QED BY <3>2 DEF CashMoves
  <2> QED BY <1>4, <2>1, <2>2, <2>3, FillFollows
<1> QED BY <1>2, <1>5, <1>6, <1>7, <1>8

LEMMA NextFollows ==
  ASSUME EngineUse, IsFiniteSet(OrderIds)
  PROVE  IInv /\ IInv' /\ Follows /\ [Next]_vars => Follows'
<1> SUFFICES ASSUME IInv, IInv', Follows, [Next]_vars PROVE Follows'
  OBVIOUS
<1>1. ASSUME NEW id \in OrderIds, NEW r \in Requests, Execute(id, r)
      PROVE  Follows'
  BY <1>1, ExecuteFollows
<1>2. ASSUME NEW id \in OrderIds, Cancel(id) PROVE Follows'
  <2>1. /\ \A x \in OrderIds \ {id} : orders'[x] = orders[x]
        /\ orders'[id].side = orders[id].side /\ orders'[id].notional = orders[id].notional
        /\ UNCHANGED <<processed, disk>> /\ processed \subseteq OrderIds
    BY <1>2 DEF Cancel, IInv, TypeOK, OrderType
  <2>2. Total(quote') = Total(quote)
    BY <1>2, CancelStutters DEF Promise!ledgerVars
  <2> QED BY <2>1, <2>2, NoFillFollows
<1>3. CASE UNCHANGED vars
  BY <1>3, NoFillFollows DEF vars, portfolio
<1>4. ASSUME NEW id \in OrderIds, Redeliver(id) PROVE Follows'
  BY <1>3, <1>4, RedeliverChangesNothing
<1>5. CASE Persist
  BY <1>5 DEF Persist, portfolio, Follows
<1>6. CASE Restart
  <2>1. \A x \in OrderIds : /\ orders'[x].side = orders[x].side
                            /\ orders'[x].notional = orders[x].notional
    <3> SUFFICES ASSUME NEW x \in OrderIds
                 PROVE  orders'[x].side = orders[x].side /\ orders'[x].notional = orders[x].notional
      OBVIOUS
    <3>1. orders[x] \in OrderType
      BY DEF IInv, TypeOK
    <3>2. orders'[x] = IF orders[x].status = "NONE" THEN orders[x]
                       ELSE [orders[x] EXCEPT !.status = "LOST"]
      BY <1>6 DEF Restart
    <3> QED BY <3>1, <3>2 DEF OrderType
  <2>2. disk.processed \subseteq OrderIds
    BY DEF IInv, TypeOK
  <2>3. Moved(orders', disk.processed) = Moved(orders, disk.processed)
    BY <2>1, <2>2, MovedKept
  <2> QED BY <1>6, <2>3 DEF Restart, Follows
<1> QED BY <1>1, <1>2, <1>3, <1>4, <1>5, <1>6 DEF Next

\* Used as the engine uses it, cash is the starting capital plus what each
\* processed fill moved, once, also across a crash that rolls the portfolio
\* back (apply_fill, load_processed_ids).
THEOREM CashIsOfFills ==
  ASSUME EngineUse, IsFiniteSet(OrderIds)
  PROVE  Spec => []CashFollowsFills
<1>1. IInv /\ IInv' /\ Follows /\ [Next]_vars => Follows'
  BY NextFollows
<1>2. IInv /\ Follows => CashFollowsFills
  <2> SUFFICES ASSUME IInv, Follows PROVE CashFollowsFills
    OBVIOUS
  <2>1. processed \subseteq OrderIds /\ IsFiniteSet(processed)
    BY FS_Subset DEF IInv, TypeOK
  <2>2. \A id \in processed : CashMoves(orders)[id] = CashOf(id)
    BY <2>1 DEF CashMoves, CashOf
  <2>3. Sum(CashOf, processed) = Moved(orders, processed)
    BY <2>1, <2>2, SumOfCash DEF Moved
  <2> QED BY <2>3 DEF Follows, CashFollowsFills
<1> QED BY <1>1, <1>2, InitFollows, Invariance, PTL DEF Spec

\* The cost of what is held.
Costs(pos) == SumFunctionOnSet([s \in Symbols |-> pos[s].cost], Symbols)

Conserved ==
  /\ Total(quote) + Costs(position) = StartQuote + realized
  /\ Total(disk.quote) + Costs(disk.position) = StartQuote + disk.realized

LEMMA InitConserved ==
  ASSUME IsFiniteSet(Symbols)
  PROVE  Init => Conserved
<1> SUFFICES ASSUME Init PROVE Conserved
  OBVIOUS
<1>1. \A s \in Symbols : [x \in Symbols |-> InitPosition[x].cost][s] = 0
  BY DEF InitPosition
<1>2. Costs(InitPosition) = 0
  BY <1>1, SumOfZeros DEF Costs
<1> QED BY <1>2, ConstantsAssumption DEF Init, InitQuote, Total, Conserved

LEMMA StepConserved ==
  ASSUME EngineUse, IsFiniteSet(Symbols)
  PROVE  IInv /\ IInv' /\ Conserved /\ [Next]_vars => Conserved'
<1> SUFFICES ASSUME IInv, IInv', Conserved, [Next]_vars PROVE Conserved'
  OBVIOUS
<1>1. CASE Restart
  BY <1>1 DEF Restart, Conserved
<1>2. CASE Persist
  BY <1>2 DEF Persist, portfolio, Conserved
<1>3. CASE UNCHANGED vars
  BY <1>3 DEF vars, portfolio, Conserved
<1>4. CASE ConservingStep /\ disk' = disk
  <2>1. PICK s \in Symbols :
          /\ \A t \in Symbols \ {s} : position'[t] = position[t]
          /\ Total(quote') + position'[s].cost - realized'
               = Total(quote) + position[s].cost - realized
    BY <1>4 DEF ConservingStep
  <2> DEFINE f == [x \in Symbols |-> position[x].cost]
             h == [x \in Symbols |-> position'[x].cost]
  <2>2. \A x \in Symbols : f[x] \in Int /\ h[x] \in Int
    BY DEF IInv, TypeOK, PositionType
  <2>3. \A x \in Symbols \ {s} : h[x] = f[x]
    BY <2>1
  <2>4. f[s] = position[s].cost /\ h[s] = position'[s].cost
        /\ Costs(position) = SumFunctionOnSet(f, Symbols)
        /\ Costs(position') = SumFunctionOnSet(h, Symbols)
    BY DEF Costs
  <2> HIDE DEF f, h
  <2>5. SumFunctionOnSet(h, Symbols) = SumFunctionOnSet(f, Symbols) - f[s] + h[s]
    BY <2>2, <2>3, SumOfUpdate
  <2>6. SumFunctionOnSet(f, Symbols) \in Int
    BY <2>2, SumType
  <2>7. Total(quote) \in Int /\ Total(quote') \in Int /\ realized \in Int /\ realized' \in Int
        /\ StartQuote \in Int
    BY ConstantsAssumption DEF IInv, TypeOK, BalanceType, Total
  <2>8. Total(quote') + Costs(position') = StartQuote + realized'
    BY <2>1, <2>2, <2>4, <2>5, <2>6, <2>7 DEF Conserved
  <2> QED BY <1>4, <2>8 DEF Conserved
<1>5. Restart \/ Persist \/ UNCHANGED vars \/ (ConservingStep /\ disk' = disk)
  <2>1. Restart \/ ConservingStep \/ UNCHANGED vars
    BY NextConserves
  <2>2. Restart \/ Persist \/ UNCHANGED vars \/ disk' = disk
    BY DEF Next, Execute, Cancel, Redeliver, RejectUnfunded, Rest, RejectIlliquid, FillBuy, FillSell
  <2> QED BY <2>1, <2>2
<1> QED BY <1>1, <1>2, <1>3, <1>4, <1>5

\* Used as the engine uses it, cash and the cost basis of what is held are
\* the starting capital plus the realised profit in every reachable state
\* (AccountingEngine.apply_fill).
THEOREM ProfitExplainsCash ==
  ASSUME EngineUse, IsFiniteSet(Symbols)
  PROVE  Spec => []CashConserved
<1>1. Init => Conserved
  BY InitConserved
<1>2. IInv /\ IInv' /\ Conserved /\ [Next]_vars => Conserved'
  BY StepConserved
<1>3. Conserved => CashConserved
  <2>1. \A s \in Symbols : [x \in Symbols |-> position[x].cost][s] = CostOf(s)
    BY DEF CostOf
  <2>2. Sum(CostOf, Symbols) = Costs(position)
    BY <2>1, SumOfCosts DEF Costs
  <2> QED BY <2>2 DEF Conserved, CashConserved
<1> QED BY <1>1, <1>2, <1>3, Invariance, PTL DEF Spec
=============================================================================
