-------------------------- MODULE Arbitrage_proofs --------------------------
(***************************************************************************)
(* Theorems about Arbitrage, for any venues, books, fees and thresholds.   *)
(*                                                                         *)
(* A walk goes through the levels from the best on.  What it has spent or  *)
(* earned is therefore bounded by the price of the first level (Buying,    *)
(* Selling), and, while an order fills, by the average price quoted, which *)
(* no level it takes exceeds (Filling).  What is found keeps its profit at *)
(* any lower cost (NetAtLowerCost).                                        *)
(***************************************************************************)
EXTENDS Arbitrage, FiniteSetTheorems, TLAPS

-----------------------------------------------------------------------------
(* Arithmetic, and the sides of a book.                                    *)

LEMMA Product ==
  ASSUME NEW a \in Nat, NEW b \in Nat
  PROVE  a * b \in Nat
OBVIOUS

LEMMA ProductGrows ==
  ASSUME NEW a \in Nat, NEW b \in Nat, NEW c \in Nat, a <= b
  PROVE  a * c <= b * c /\ c * a <= c * b
OBVIOUS

LEMMA ProductReflects ==
  ASSUME NEW a \in Nat, NEW b \in Nat, NEW c \in Nat \ {0}, a * c <= b * c
  PROVE  a <= b
OBVIOUS

LEMMA Distributes ==
  ASSUME NEW a \in Nat, NEW b \in Nat, NEW c \in Nat
  PROVE  (a + b) * c = a * c + b * c
OBVIOUS

\* A profit that clears the thresholds clears them at a lower cost too.
LEMMA NetAtLowerCost ==
  ASSUME NEW less \in Nat, NEW spent \in Nat, NEW proceeds \in Nat,
         less <= spent, Clears(spent, proceeds)
  PROVE  Clears(less, proceeds)
<1>1. /\ FeePct \in Nat /\ SlippagePct \in Nat /\ BufferPct \in Nat
      /\ MinProfit \in Nat /\ MinReturnPct \in Nat
  BY ArbitrageAssumption
<1>2. /\ FeePct * less <= FeePct * spent /\ BufferPct * less <= BufferPct * spent
      /\ MinReturnPct * less <= MinReturnPct * spent
  BY <1>1, ProductGrows
<1>3. SlippagePct * (less + proceeds) <= SlippagePct * (spent + proceeds)
  BY <1>1, ProductGrows
<1>4. /\ FeePct * less \in Nat /\ FeePct * spent \in Nat /\ FeePct * proceeds \in Nat
      /\ BufferPct * less \in Nat /\ BufferPct * spent \in Nat
      /\ SlippagePct * (less + proceeds) \in Nat /\ SlippagePct * (spent + proceeds) \in Nat
      /\ MinReturnPct * less \in Nat /\ MinReturnPct * spent \in Nat
  BY <1>1, Product
<1>5. /\ Net(less, proceeds) \in Int /\ Net(spent, proceeds) \in Int
      /\ Net(less, proceeds) >= Net(spent, proceeds)
  BY <1>2, <1>3, <1>4 DEF Net
<1> QED BY <1>1, <1>2, <1>4, <1>5 DEF Clears

LEMMA SideType ==
  ASSUME NEW side \in Sides
  PROVE  /\ Len(side) \in 1 .. MaxLevels
         /\ \A i \in 1 .. Len(side) :
              side[i] \in Levels /\ side[i].price \in Nat \ {0} /\ side[i].amount \in Nat \ {0}
         /\ Depth(side) \in Nat
<1>1. PICK n \in 1 .. MaxLevels : side \in [1 .. n -> Levels]
  BY DEF Sides
<1>2. MaxLevels \in Nat \ {0} /\ MaxPrice \in Nat \ {0} /\ MaxAmount \in Nat \ {0}
  BY ArbitrageAssumption
<1>3. DOMAIN side = 1 .. n /\ Len(side) = n
  BY <1>1, <1>2
<1>4. \A i \in 1 .. n :
        side[i] \in Levels /\ side[i].price \in Nat \ {0} /\ side[i].amount \in Nat \ {0}
  BY <1>1, <1>2 DEF Levels
<1>5. IsFiniteSet((DOMAIN side) \X (1 .. MaxAmount))
  <2>1. IsFiniteSet(1 .. n) /\ IsFiniteSet(1 .. MaxAmount)
    BY <1>2, FS_Interval
  <2>2. IsFiniteSet((1 .. n) \X (1 .. MaxAmount))
    BY <2>1, FS_Product
  <2> QED BY <1>3, <2>2
<1>6. IsFiniteSet({u \in (DOMAIN side) \X (1 .. MaxAmount) : u[2] <= side[u[1]].amount})
  BY <1>5, FS_Subset
<1>7. Depth(side) \in Nat
  BY <1>6, FS_CardinalityType DEF Depth
<1> QED BY <1>1, <1>3, <1>4, <1>7

LEMMA BookType ==
  ASSUME NEW b \in Books
  PROVE  /\ b.asks \in AskSides /\ b.bids \in BidSides
         /\ b.asks \in Sides /\ b.bids \in Sides
         /\ b.bids[1].price < b.asks[1].price
BY DEF Books, AskSides, BidSides

\* From the best level on, asks are dearer and bids are lower.
LEMMA FromTheBest ==
  ASSUME NEW i \in Nat \ {0}
  PROVE  /\ \A s \in AskSides : i <= Len(s) => s[1].price <= s[i].price
         /\ \A s \in BidSides : i <= Len(s) => s[i].price <= s[1].price
<1>1. \A s \in Sides : DOMAIN s = 1 .. Len(s)
  BY DEF Sides
<1>2. \A s \in AskSides \cup BidSides : s \in Sides
  BY DEF AskSides, BidSides
<1>3. CASE i = 1
  BY <1>2, <1>3, SideType
<1>4. CASE i > 1
  <2>1. \A s \in AskSides \cup BidSides : i <= Len(s) =>
          1 \in DOMAIN s /\ i \in DOMAIN s /\ s[1].price \in Nat /\ s[i].price \in Nat
    BY <1>1, <1>2, <1>4, SideType
  <2> QED BY <1>4, <2>1 DEF AskSides, BidSides
<1> QED BY <1>3, <1>4

LEMMA LiquidQuantity ==
  ASSUME TypeOK, NEW p \in LiquidPairs
  PROVE  Quantity(p) \in Nat \ {0}
<1>1. p[1] \in Venues /\ p[2] \in Venues
  BY DEF LiquidPairs, Pairs
<1>2. books[p[1]].asks \in Sides /\ books[p[2]].bids \in Sides
  BY <1>1, BookType DEF TypeOK
<1>3. Depth(books[p[1]].asks) \in Nat /\ Depth(books[p[2]].bids) \in Nat
  BY <1>2, SideType
<1>4. MinLiquidity \in Nat \ {0} /\ MaxQuantity \in Nat \ {0}
  BY ArbitrageAssumption
<1>5. Depth(books[p[1]].asks) >= MinLiquidity /\ Depth(books[p[2]].bids) >= MinLiquidity
  BY DEF LiquidPairs, Liquid
<1> QED BY <1>3, <1>4, <1>5 DEF Quantity, AtMost

-----------------------------------------------------------------------------
(* The invariant.                                                          *)

Walks ==
  [levels : Sides, at : 1 .. MaxLevels + 1, remaining : Nat, filled : Nat, notional : Nat]

\* A walk that is under way has a candidate, or an order, it is for.
WalkTyped ==
  /\ pc \in {"buying", "selling", "latency", "filling"} => walk \in Walks
  /\ pc \in {"buying", "selling"} =>
       /\ pair \in Pairs /\ quantity > 0
       /\ walk.filled + walk.remaining = quantity
  /\ pc \in {"latency", "filling"} <=> order # None

\* Nothing was bought below the best ask.
Buying ==
  pc = "buying" =>
    /\ walk.levels = books[pair[1]].asks
    /\ walk.filled * books[pair[1]].asks[1].price <= walk.notional

\* Nothing was sold above the best bid.
Selling ==
  pc = "selling" =>
    /\ walk.levels = books[pair[2]].bids
    /\ quantity * books[pair[1]].asks[1].price <= cost
    /\ walk.notional <= walk.filled * books[pair[2]].bids[1].price

\* An order has paid the average price quoted, or less.
Filling ==
  pc \in {"latency", "filling"} =>
    walk.notional * order.quantity <= walk.filled * order.cost

\* Where one buys is cheaper than where one sells, for all that was found in
\* the books there are as long as the scan lasts.
Spread ==
  pc \in {"scan", "buying", "selling"} =>
    /\ left \subseteq LiquidPairs
    /\ \A o \in found : books[o.pair[1]].asks[1].price < books[o.pair[2]].bids[1].price

Profitable == \A o \in found : o.quantity > 0 /\ Clears(o.cost, o.proceeds)

IInv ==
  /\ TypeOK /\ WalkTyped
  /\ Buying /\ Selling /\ Filling /\ Spread /\ Profitable
  /\ NeverBothWays /\ NeverAboveQuote

-----------------------------------------------------------------------------
(* The initial states, and the steps.                                      *)

LEMMA InitEstablishes == Init => IInv
<1> SUFFICES ASSUME Init PROVE IInv
  OBVIOUS
<1>1. TypeOK
  BY OpeningAssumption DEF Init, TypeOK, LiquidPairs
<1>2. /\ WalkTyped /\ Buying /\ Selling /\ Filling /\ Spread /\ Profitable
      /\ NeverBothWays /\ NeverAboveQuote
  BY DEF Init, WalkTyped, Buying, Selling, Filling, Spread, Profitable, NeverBothWays,
         NeverAboveQuote
<1> QED BY <1>1, <1>2 DEF IInv

\* What a walk is before it has taken anything.
LEMMA NewWalkType ==
  ASSUME NEW side \in Sides, NEW wanted \in Nat
  PROVE  /\ NewWalk(side, wanted) \in Walks
         /\ NewWalk(side, wanted).levels = side
         /\ NewWalk(side, wanted).filled = 0
         /\ NewWalk(side, wanted).remaining = wanted
         /\ NewWalk(side, wanted).notional = 0
<1>1. 1 \in 1 .. MaxLevels + 1
  BY ArbitrageAssumption
<1> QED BY <1>1 DEF NewWalk, Walks

\* What a walk is after a level: what it takes is at most what it wants.
LEMMA WalkOnType ==
  ASSUME walk \in Walks, WalkOn
  PROVE  \E take \in Nat :
           /\ walk.at \in Nat \ {0} /\ walk.at <= Len(walk.levels)
           /\ walk.levels[walk.at].price \in Nat
           /\ WithinLimit(walk.levels[walk.at].price)
           /\ walk' \in Walks /\ walk'.levels = walk.levels
           /\ walk'.filled = walk.filled + take
           /\ walk'.filled + walk'.remaining = walk.filled + walk.remaining
           /\ walk'.notional = walk.notional + take * walk.levels[walk.at].price
<1> DEFINE level == walk.levels[walk.at]
           take == Taken(level)
           worth == take * level.price
<1>1. /\ walk.levels \in Sides /\ walk.at \in Nat \ {0} /\ walk.at <= Len(walk.levels)
      /\ walk.remaining \in Nat /\ walk.filled \in Nat /\ walk.notional \in Nat
  BY DEF Walks, WalkOn, WalkGoesOn
<1>2. /\ Len(walk.levels) \in Nat /\ Len(walk.levels) <= MaxLevels
      /\ level.price \in Nat /\ level.amount \in Nat
  <2>1. Len(walk.levels) \in 1 .. MaxLevels /\ MaxLevels \in Nat
    BY <1>1, SideType, ArbitrageAssumption
  <2>2. walk.at \in 1 .. Len(walk.levels)
    BY <1>1, <2>1
  <2> QED BY <1>1, <2>1, <2>2, SideType
<1>3. take \in Nat /\ take <= walk.remaining
  BY <1>1, <1>2 DEF Taken, AtMost
<1>4. walk' = [walk EXCEPT !.at = @ + 1, !.remaining = @ - take, !.filled = @ + take,
                           !.notional = @ + worth]
  BY DEF WalkOn
<1>5. worth \in Nat
  BY <1>2, <1>3, Product
<1> HIDE DEF take, level, worth
<1>6. /\ walk'.levels = walk.levels /\ walk'.at = walk.at + 1
      /\ walk'.remaining = walk.remaining - take
      /\ walk'.filled = walk.filled + take
      /\ walk'.notional = walk.notional + worth
  BY <1>4 DEF Walks
<1>7. /\ walk.at + 1 \in 1 .. MaxLevels + 1 /\ walk.remaining - take \in Nat
      /\ walk.filled + take \in Nat /\ walk.notional + worth \in Nat
  <2>1. MaxLevels \in Nat
    BY ArbitrageAssumption
  <2>2. walk.at + 1 \in 1 .. MaxLevels + 1
    BY <1>1, <1>2, <2>1
  <2>3. walk.remaining \in Nat /\ walk.filled \in Nat /\ walk.notional \in Nat
    BY <1>1 DEF Walks
  <2> DEFINE m == walk.remaining
             f == walk.filled
             n == walk.notional
  <2> HIDE DEF m, f, n
  <2>4. m - take \in Nat /\ f + take \in Nat /\ n + worth \in Nat
    BY <1>3, <1>5, <2>3 DEF m, f, n
  <2> QED BY <2>2, <2>4 DEF m, f, n
<1>8. walk' \in Walks
  BY <1>4, <1>7 DEF Walks
<1>9. walk'.filled + walk'.remaining = walk.filled + walk.remaining
  BY <1>1, <1>3, <1>6
<1>10. WithinLimit(level.price)
  BY DEF WalkOn, WalkGoesOn, level
<1> QED BY <1>1, <1>2, <1>3, <1>6, <1>8, <1>9, <1>10 DEF level, worth

LEMMA WalkOnKeeps == IInv /\ WalkOn => IInv'
<1> SUFFICES ASSUME IInv, WalkOn PROVE IInv'
  OBVIOUS
<1> USE DEF IInv
<1>1. /\ pc \in {"buying", "selling", "filling"} /\ walk \in Walks
      /\ UNCHANGED <<books, pc, left, pair, quantity, cost, found, pending, order, filled>>
  BY DEF WalkOn, WalkTyped
<1>2. PICK take \in Nat :
        /\ walk.at \in Nat \ {0} /\ walk.at <= Len(walk.levels)
        /\ walk.levels[walk.at].price \in Nat
        /\ WithinLimit(walk.levels[walk.at].price)
        /\ walk' \in Walks /\ walk'.levels = walk.levels
        /\ walk'.filled = walk.filled + take
        /\ walk'.filled + walk'.remaining = walk.filled + walk.remaining
        /\ walk'.notional = walk.notional + take * walk.levels[walk.at].price
  BY <1>1, WalkOnType
<1> DEFINE price == walk.levels[walk.at].price
<1>3. walk.filled \in Nat /\ walk.notional \in Nat /\ price \in Nat
  BY <1>1, <1>2 DEF Walks
<1>4. TypeOK'
  BY <1>1, <1>2 DEF TypeOK, Walks, LiquidPairs, Books
<1>5. WalkTyped'
  BY <1>1, <1>2 DEF WalkTyped
<1>6. Buying'
  <2> SUFFICES ASSUME pc = "buying" PROVE Buying'
    BY <1>1 DEF Buying
  <2> DEFINE best == books[pair[1]].asks[1].price
  <2>1. walk.levels = books[pair[1]].asks /\ walk.filled * best <= walk.notional
    BY DEF Buying
  <2>2. books[pair[1]] \in Books
    BY DEF WalkTyped, TypeOK, Pairs
  <2>3. best \in Nat /\ best <= price
    <3>1. books[pair[1]].asks \in AskSides /\ books[pair[1]].asks \in Sides
      BY <2>2, BookType
    <3>2. best <= price
      BY <1>2, <2>1, <3>1, FromTheBest
    <3>3. 1 \in 1 .. Len(books[pair[1]].asks)
      BY <3>1, SideType
    <3> QED BY <3>1, <3>2, <3>3, SideType
  <2> HIDE DEF best, price
  <2>4. /\ take * best <= take * price
        /\ (walk.filled + take) * best = walk.filled * best + take * best
        /\ take * best \in Nat /\ take * price \in Nat /\ walk.filled * best \in Nat
    BY <1>3, <2>3, ProductGrows, Distributes, Product
  <2>5. (walk.filled + take) * best <= walk.notional + take * price
    BY <1>3, <2>1, <2>4
  <2> QED BY <1>1, <1>2, <2>1, <2>5 DEF Buying, best, price
<1>7. Selling'
  <2> SUFFICES ASSUME pc = "selling" PROVE Selling'
    BY <1>1 DEF Selling
  <2> DEFINE best == books[pair[2]].bids[1].price
  <2>1. walk.levels = books[pair[2]].bids /\ walk.notional <= walk.filled * best
    BY DEF Selling
  <2>2. books[pair[2]] \in Books
    BY DEF WalkTyped, TypeOK, Pairs
  <2>3. best \in Nat /\ price <= best
    <3>1. books[pair[2]].bids \in BidSides /\ books[pair[2]].bids \in Sides
      BY <2>2, BookType
    <3>2. price <= best
      BY <1>2, <2>1, <3>1, FromTheBest
    <3>3. 1 \in 1 .. Len(books[pair[2]].bids)
      BY <3>1, SideType
    <3> QED BY <3>1, <3>2, <3>3, SideType
  <2> HIDE DEF best, price
  <2>4. /\ take * price <= take * best
        /\ (walk.filled + take) * best = walk.filled * best + take * best
        /\ take * best \in Nat /\ take * price \in Nat /\ walk.filled * best \in Nat
    BY <1>3, <2>3, ProductGrows, Distributes, Product
  <2>5. walk.notional + take * price <= (walk.filled + take) * best
    BY <1>3, <2>1, <2>4
  <2> QED BY <1>1, <1>2, <2>1, <2>5 DEF Selling, best, price
<1>8. Filling'
  <2> SUFFICES ASSUME pc = "filling" PROVE Filling'
    BY <1>1 DEF Filling
  <2>1. order # None /\ order \in found
    BY DEF WalkTyped, TypeOK
  <2>2. order.quantity \in Nat /\ order.cost \in Nat
    BY <2>1 DEF TypeOK, Opportunities
  <2>3. price * order.quantity <= order.cost
    BY <1>2, <2>1 DEF WithinLimit
  <2>4. walk.notional * order.quantity <= walk.filled * order.cost
    BY DEF Filling
  <2> HIDE DEF price
  <2>5. (take * price) * order.quantity <= take * order.cost
    <3>1. price * order.quantity \in Nat
      BY <1>3, <2>2, Product
    <3>2. take * (price * order.quantity) <= take * order.cost
      BY <2>2, <2>3, <3>1, ProductGrows
    <3>3. take * (price * order.quantity) = (take * price) * order.quantity
      BY <1>3, <2>2
    <3> QED BY <3>2, <3>3
  <2>6. /\ take * price \in Nat
        /\ (walk.notional + take * price) * order.quantity
             = walk.notional * order.quantity + (take * price) * order.quantity
        /\ (walk.filled + take) * order.cost = walk.filled * order.cost + take * order.cost
        /\ walk.notional * order.quantity \in Nat /\ walk.filled * order.cost \in Nat
        /\ (take * price) * order.quantity \in Nat /\ take * order.cost \in Nat
    BY <1>3, <2>2, Distributes, Product
  <2>7. (walk.notional + take * price) * order.quantity <= (walk.filled + take) * order.cost
    BY <2>4, <2>5, <2>6
  <2> QED BY <1>1, <1>2, <2>7 DEF Filling, price
<1>9. (NeverBothWays /\ NeverAboveQuote)'
  BY <1>1 DEF NeverBothWays, NeverAboveQuote
<1>11. Spread'
  <2>1. LiquidPairs' = LiquidPairs
    BY <1>1 DEF LiquidPairs, Liquid
  <2> QED BY <1>1, <2>1 DEF Spread
<1>10. Profitable'
  BY <1>1 DEF Profitable
<1> QED BY <1>4, <1>5, <1>6, <1>7, <1>8, <1>9, <1>10, <1>11

LEMMA ConsiderKeeps == ASSUME IInv, NEW p \in left, Consider(p) PROVE IInv'
<1> USE DEF IInv
<1>1. /\ pc = "scan" /\ pc' = "buying" /\ left' = left \ {p} /\ pair' = p
      /\ quantity' = Quantity(p)
      /\ walk' = NewWalk(books[p[1]].asks, Quantity(p))
      /\ UNCHANGED <<books, cost, found, pending, order, filled>>
  BY DEF Consider, TakerSide
<1>2. p \in LiquidPairs /\ p \in Pairs
  BY <1>1 DEF Spread, LiquidPairs
<1>3. Quantity(p) \in Nat \ {0}
  BY <1>2, LiquidQuantity
<1>4. books[p[1]] \in Books
  BY <1>2 DEF TypeOK, Pairs
<1> DEFINE asks == books[p[1]].asks
<1>5. asks \in Sides /\ asks[1].price \in Nat
  <2>1. asks \in Sides
    BY <1>4, BookType
  <2>2. 1 \in 1 .. Len(asks)
    BY <2>1, SideType
  <2> QED BY <2>1, <2>2, SideType
<1>6. /\ walk' \in Walks /\ walk'.levels = asks /\ walk'.filled = 0
      /\ walk'.remaining = Quantity(p) /\ walk'.notional = 0
  BY <1>1, <1>3, <1>5, NewWalkType
<1>7. TypeOK'
  BY <1>1, <1>2, <1>3, <1>6 DEF TypeOK, Walks
<1>8. WalkTyped'
  BY <1>1, <1>2, <1>3, <1>6 DEF WalkTyped
<1>9. Buying'
  <2>1. walk'.filled * asks[1].price <= walk'.notional
    BY <1>5, <1>6
  <2> QED BY <1>1, <1>6, <2>1 DEF Buying
<1>10. Selling' /\ Filling'
  BY <1>1 DEF Selling, Filling
<1>11. Spread'
  <2>1. LiquidPairs' = LiquidPairs
    BY <1>1 DEF LiquidPairs, Liquid
  <2> QED BY <1>1, <2>1 DEF Spread
<1>12. Profitable'
  BY <1>1 DEF Profitable
<1>13. NeverBothWays' /\ NeverAboveQuote'
  BY <1>1 DEF NeverBothWays, NeverAboveQuote
<1> QED BY <1>7, <1>8, <1>9, <1>10, <1>11, <1>12, <1>13

LEMMA BuyPricedKeeps == IInv /\ BuyPriced => IInv'
<1> SUFFICES ASSUME IInv, BuyPriced PROVE IInv'
  OBVIOUS
<1> USE DEF IInv
<1>1. /\ pc = "buying" /\ pc' = IF walk.remaining = 0 THEN "selling" ELSE "scan"
      /\ cost' = walk.notional
      /\ walk' = NewWalk(books[pair[2]].bids, quantity)
      /\ UNCHANGED <<books, left, pair, quantity, found, pending, order, filled>>
  BY DEF BuyPriced, WalkOver, TakerSide
<1>2. walk \in Walks /\ pair \in Pairs /\ quantity \in Nat /\ quantity > 0
  BY <1>1 DEF WalkTyped, TypeOK
<1>3. books[pair[1]] \in Books /\ books[pair[2]] \in Books
  BY <1>2 DEF TypeOK, Pairs
<1> DEFINE bids == books[pair[2]].bids
<1>4. bids \in Sides /\ bids[1].price \in Nat
  <2>1. bids \in Sides
    BY <1>3, BookType
  <2>2. 1 \in 1 .. Len(bids)
    BY <2>1, SideType
  <2> QED BY <2>1, <2>2, SideType
<1>5. /\ walk' \in Walks /\ walk'.levels = bids /\ walk'.filled = 0
      /\ walk'.remaining = quantity /\ walk'.notional = 0
  BY <1>1, <1>2, <1>4, NewWalkType
<1>6. TypeOK'
  BY <1>1, <1>2, <1>5 DEF TypeOK, Walks
<1>7. WalkTyped'
  BY <1>1, <1>2, <1>5 DEF WalkTyped
<1>8. Buying' /\ Filling'
  BY <1>1 DEF Buying, Filling
<1>9. Selling'
  <2> SUFFICES ASSUME walk.remaining = 0 PROVE Selling'
    BY <1>1 DEF Selling
  <2>1. walk.filled = quantity
    BY <1>1, <1>2 DEF WalkTyped, Walks
  <2>2. quantity * books[pair[1]].asks[1].price <= cost'
    BY <1>1, <2>1 DEF Buying
  <2>3. walk'.notional <= walk'.filled * bids[1].price
    BY <1>4, <1>5
  <2> QED BY <1>1, <1>5, <2>2, <2>3 DEF Selling
<1>10. Spread'
  <2>1. LiquidPairs' = LiquidPairs
    BY <1>1 DEF LiquidPairs, Liquid
  <2> QED BY <1>1, <2>1 DEF Spread
<1>11. Profitable'
  BY <1>1 DEF Profitable
<1>12. NeverBothWays' /\ NeverAboveQuote'
  BY <1>1 DEF NeverBothWays, NeverAboveQuote
<1> QED BY <1>6, <1>7, <1>8, <1>9, <1>10, <1>11, <1>12

\* What is emitted has a spread between its best prices.
LEMMA EmittedSpread ==
  ASSUME IInv, WalkOver("selling"), Emitted
  PROVE  /\ Priced \in Opportunities /\ Priced.quantity > 0
         /\ Clears(Priced.cost, Priced.proceeds)
         /\ books[pair[1]].asks[1].price < books[pair[2]].bids[1].price
<1> USE DEF IInv
<1>1. pc = "selling" /\ walk \in Walks /\ pair \in Pairs /\ quantity \in Nat /\ quantity > 0
  BY DEF WalkOver, WalkTyped, TypeOK
<1>2. /\ walk.remaining = 0 /\ cost < walk.notional /\ cost \in Nat
      /\ walk.notional \in Nat /\ Clears(cost, walk.notional)
  BY <1>1 DEF Emitted, TypeOK, Walks
<1>3. walk.filled = quantity
  BY <1>1, <1>2 DEF WalkTyped, Walks
<1>4. books[pair[1]] \in Books /\ books[pair[2]] \in Books
  BY <1>1 DEF TypeOK, Pairs
<1> DEFINE ask == books[pair[1]].asks[1].price
           bid == books[pair[2]].bids[1].price
<1>5. ask \in Nat /\ bid \in Nat
  <2>1. books[pair[1]].asks \in Sides /\ books[pair[2]].bids \in Sides
    BY <1>4, BookType
  <2>2. 1 \in 1 .. Len(books[pair[1]].asks) /\ 1 \in 1 .. Len(books[pair[2]].bids)
    BY <2>1, SideType
  <2> QED BY <2>1, <2>2, SideType
<1>6. quantity * ask <= cost /\ walk.notional <= quantity * bid
  BY <1>1, <1>3 DEF Selling
<1> HIDE DEF ask, bid
<1>7. ask < bid
  <2> SUFFICES ASSUME bid <= ask PROVE FALSE
    BY <1>5
  <2>1. /\ quantity * bid <= quantity * ask
        /\ quantity * bid \in Nat /\ quantity * ask \in Nat
    BY <1>1, <1>5, ProductGrows, Product
  <2> QED BY <1>2, <1>6, <2>1
<1>8. /\ Priced \in Opportunities /\ Priced.quantity > 0
      /\ Clears(Priced.cost, Priced.proceeds)
  BY <1>1, <1>2 DEF Priced, Opportunities
<1> QED BY <1>7, <1>8 DEF ask, bid

\* Two opportunities in the same books are not each other's opposite: books
\* are not crossed.
LEMMA NotOpposite ==
  ASSUME TypeOK, NEW p \in Pairs, NEW q \in Pairs,
         books[p[1]].asks[1].price < books[p[2]].bids[1].price,
         books[q[1]].asks[1].price < books[q[2]].bids[1].price
  PROVE  ~(p[1] = q[2] /\ p[2] = q[1])
<1>1. p[1] \in Venues /\ p[2] \in Venues
  BY DEF Pairs
<1>2. books[p[1]] \in Books /\ books[p[2]] \in Books
  BY <1>1 DEF TypeOK
<1>3. \A b \in Books : b.asks[1].price \in Nat /\ b.bids[1].price \in Nat
  <2> SUFFICES ASSUME NEW b \in Books PROVE b.asks[1].price \in Nat /\ b.bids[1].price \in Nat
    OBVIOUS
  <2>1. b.asks \in Sides /\ b.bids \in Sides
    BY BookType
  <2>2. 1 \in 1 .. Len(b.asks) /\ 1 \in 1 .. Len(b.bids)
    BY <2>1, SideType
  <2> QED BY <2>1, <2>2, SideType
<1>4. /\ books[p[1]].bids[1].price < books[p[1]].asks[1].price
      /\ books[p[2]].bids[1].price < books[p[2]].asks[1].price
  BY <1>2, BookType
<1>5. /\ books[p[1]].asks[1].price \in Nat /\ books[p[1]].bids[1].price \in Nat
      /\ books[p[2]].asks[1].price \in Nat /\ books[p[2]].bids[1].price \in Nat
  BY <1>2, <1>3
<1> QED BY <1>4, <1>5

LEMMA SellPricedKeeps == IInv /\ SellPriced => IInv'
<1> SUFFICES ASSUME IInv, SellPriced PROVE IInv'
  OBVIOUS
<1> USE DEF IInv
<1>1. /\ pc = "selling" /\ pc' = "scan" /\ WalkOver("selling")
      /\ found' = IF Emitted THEN found \cup {Priced} ELSE found
      /\ UNCHANGED <<books, left, pair, quantity, walk, cost, pending, order, filled>>
  BY DEF SellPriced, WalkOver
<1>2. /\ found \subseteq found' /\ found' \subseteq Opportunities
      /\ \A o \in found' : o \in Opportunities /\ o.quantity > 0 /\ Clears(o.cost, o.proceeds)
      /\ \A o \in found' : books[o.pair[1]].asks[1].price < books[o.pair[2]].bids[1].price
  <2>1. CASE Emitted
    <3>1. Priced.pair = pair
      BY DEF Priced
    <3> QED BY <1>1, <2>1, <3>1, EmittedSpread DEF TypeOK, Profitable, Spread
  <2>2. CASE ~Emitted
    BY <1>1, <2>2 DEF TypeOK, Profitable, Spread
  <2> QED BY <2>1, <2>2
<1>3. TypeOK'
  <2>1. filled = None \/ filled \in [order : found', quantity : Nat, cost : Nat]
    BY <1>2 DEF TypeOK
  <2> QED BY <1>1, <1>2, <2>1 DEF TypeOK
<1>4. WalkTyped'
  BY <1>1 DEF WalkTyped
<1>5. Buying' /\ Selling' /\ Filling'
  BY <1>1 DEF Buying, Selling, Filling
<1>6. Spread'
  <2>1. LiquidPairs' = LiquidPairs
    BY <1>1 DEF LiquidPairs, Liquid
  <2> QED BY <1>1, <1>2, <2>1 DEF Spread
<1>7. Profitable'
  BY <1>2 DEF Profitable
<1>8. NeverBothWays'
  <2> SUFFICES ASSUME NEW o1 \in found', NEW o2 \in found'
               PROVE  ~(o1.pair[1] = o2.pair[2] /\ o1.pair[2] = o2.pair[1])
    BY DEF NeverBothWays
  <2>1. o1.pair \in Pairs /\ o2.pair \in Pairs
    BY <1>2 DEF Opportunities
  <2> QED BY <1>2, <2>1, NotOpposite
<1>9. NeverAboveQuote'
  BY <1>1 DEF NeverAboveQuote
<1> QED BY <1>3, <1>4, <1>5, <1>6, <1>7, <1>8, <1>9

\* The engine's steps leave what was found as it is.
LEMMA TradeKeeps ==
  ASSUME IInv, UNCHANGED <<left, pair, quantity, cost, found>>,
         pc \in {"scan", "trade", "latency", "filling"},
         pc' \in {"trade", "latency", "filling"}
  PROVE  Buying' /\ Selling' /\ Spread' /\ Profitable' /\ NeverBothWays'
<1> USE DEF IInv
<1>1. Buying' /\ Selling' /\ Spread'
  BY DEF Buying, Selling, Spread
<1>2. Profitable'
  BY DEF Profitable
<1>3. NeverBothWays'
  BY DEF NeverBothWays
<1> QED BY <1>1, <1>2, <1>3

LEMMA PlaceKeeps == ASSUME IInv, NEW o \in pending, Place(o) PROVE IInv'
<1> USE DEF IInv
<1>1. /\ pc = "trade" /\ pc' = "latency" /\ pending' = pending \ {o} /\ order' = o
      /\ walk' = NewWalk(books[o.pair[1]].asks, o.quantity)
      /\ UNCHANGED <<books, left, pair, quantity, cost, found, filled>>
  BY DEF Place
<1>2. o \in found /\ o \in Opportunities /\ o # None
  BY NoneAssumption DEF TypeOK
<1>3. /\ o.pair \in Pairs /\ o.quantity \in Nat /\ o.cost \in Nat
      /\ books[o.pair[1]].asks \in Sides
  BY <1>2, BookType DEF TypeOK, Opportunities, Pairs
<1>4. walk' \in Walks /\ walk'.filled = 0 /\ walk'.notional = 0
  BY <1>1, <1>3, NewWalkType
<1>5. TypeOK'
  BY <1>1, <1>2, <1>4 DEF TypeOK, Walks
<1>6. WalkTyped'
  BY <1>1, <1>2, <1>4 DEF WalkTyped
<1>7. Filling'
  <2>1. walk'.notional * o.quantity <= walk'.filled * o.cost
    BY <1>3, <1>4
  <2> QED BY <1>1, <2>1 DEF Filling
<1>8. NeverAboveQuote'
  BY <1>1 DEF NeverAboveQuote
<1> QED BY <1>1, <1>5, <1>6, <1>7, <1>8, TradeKeeps

LEMMA MoveKeeps == ASSUME IInv, NEW v \in Venues, NEW b \in Opening, Move(v, b.asks) PROVE IInv'
<1> USE DEF IInv
<1>1. /\ pc = "latency" /\ books[v].bids[1].price < b.asks[1].price
      /\ books' = [books EXCEPT ![v].asks = b.asks]
      /\ UNCHANGED <<pc, left, pair, quantity, walk, cost, found, pending, order, filled>>
  BY DEF Move
<1>2. books' \in [Venues -> Books]
  <2>1. b.asks \in AskSides /\ books[v].bids \in BidSides /\ books[v] \in Books
    BY OpeningAssumption, BookType DEF TypeOK
  <2>2. [books[v] EXCEPT !.asks = b.asks] = [asks |-> b.asks, bids |-> books[v].bids]
    BY <2>1 DEF Books
  <2>3. [books[v] EXCEPT !.asks = b.asks] \in Books
    BY <1>1, <2>1, <2>2 DEF Books
  <2> QED BY <1>1, <2>3 DEF TypeOK
<1>3. TypeOK'
  BY <1>1, <1>2 DEF TypeOK
<1>4. WalkTyped' /\ Filling' /\ NeverAboveQuote'
  BY <1>1 DEF WalkTyped, Filling, NeverAboveQuote
<1> QED BY <1>1, <1>3, <1>4, TradeKeeps

LEMMA FillKeeps == IInv /\ Fill => IInv'
<1> SUFFICES ASSUME IInv, Fill PROVE IInv'
  OBVIOUS
<1> USE DEF IInv
<1>1. /\ pc = "filling" /\ pc' = "trade" /\ order' = None
      /\ filled' = [order |-> order, quantity |-> walk.filled, cost |-> walk.notional]
      /\ UNCHANGED <<books, left, pair, quantity, walk, cost, found, pending>>
  BY DEF Fill, WalkOver
<1>2. /\ walk \in Walks /\ order \in found
      /\ walk.filled \in Nat /\ walk.notional \in Nat
  BY <1>1 DEF WalkTyped, TypeOK, Walks
<1>3. TypeOK'
  BY <1>1, <1>2 DEF TypeOK
<1>4. WalkTyped' /\ Filling'
  BY <1>1 DEF WalkTyped, Filling
<1>5. NeverAboveQuote'
  <2>1. walk.notional * order.quantity <= walk.filled * order.cost
    BY <1>1 DEF Filling
  <2> QED BY <1>1, <2>1 DEF NeverAboveQuote
<1> QED BY <1>1, <1>3, <1>4, <1>5, TradeKeeps

LEMMA OtherKeeps ==
  ASSUME IInv,
         Scanned \/ (\E o \in pending : Decline(o)) \/ Rest \/ Marketable \/ Begin
  PROVE  IInv'
<1> USE DEF IInv
<1>1. CASE Scanned
  <2>1. TypeOK' /\ WalkTyped' /\ Filling' /\ NeverAboveQuote'
    BY <1>1 DEF Scanned, TypeOK, WalkTyped, Filling, NeverAboveQuote
  <2> QED BY <1>1, <2>1, TradeKeeps DEF Scanned
<1>2. CASE \E o \in pending : Decline(o)
  <2>1. TypeOK' /\ WalkTyped' /\ Filling' /\ NeverAboveQuote'
    BY <1>2 DEF Decline, TypeOK, WalkTyped, Filling, NeverAboveQuote
  <2> QED BY <1>2, <2>1, TradeKeeps DEF Decline
<1>3. CASE Rest
  <2>1. TypeOK' /\ WalkTyped' /\ Filling' /\ NeverAboveQuote'
    BY <1>3 DEF Rest, TypeOK, WalkTyped, Filling, NeverAboveQuote
  <2> QED BY <1>3, <2>1, TradeKeeps DEF Rest
<1>4. CASE Marketable
  <2>1. TypeOK' /\ WalkTyped' /\ Filling' /\ NeverAboveQuote'
    BY <1>4 DEF Marketable, TypeOK, WalkTyped, Filling, NeverAboveQuote
  <2> QED BY <1>4, <2>1, TradeKeeps DEF Marketable
<1>5. CASE Begin
  <2>1. /\ pc = "trade" /\ pending = {} /\ left' = LiquidPairs /\ found' = {}
        /\ filled' = None /\ pc' = "scan"
        /\ UNCHANGED <<books, pair, quantity, walk, cost, pending, order>>
    BY <1>5 DEF Begin
  <2>2. order = None /\ LiquidPairs \subseteq Pairs /\ LiquidPairs' = LiquidPairs
    BY <2>1 DEF WalkTyped, LiquidPairs, Liquid
  <2>3. TypeOK'
    BY <2>1, <2>2 DEF TypeOK
  <2>4. WalkTyped' /\ Buying' /\ Selling' /\ Filling' /\ Spread' /\ Profitable'
    BY <2>1, <2>2 DEF WalkTyped, Buying, Selling, Filling, Spread, Profitable
  <2>5. NeverBothWays' /\ NeverAboveQuote'
    BY <2>1 DEF NeverBothWays, NeverAboveQuote
  <2> QED BY <2>3, <2>4, <2>5
<1> QED BY <1>1, <1>2, <1>3, <1>4, <1>5

LEMMA StepKeeps == IInv /\ [Next]_vars => IInv'
<1> SUFFICES ASSUME IInv, [Next]_vars PROVE IInv'
  OBVIOUS
<1>1. CASE Scan
  <2>1. CASE \E p \in left : Consider(p)
    BY <2>1, ConsiderKeeps
  <2>2. CASE BuyPriced \/ SellPriced
    BY <2>2, BuyPricedKeeps, SellPricedKeeps
  <2>3. CASE Scanned
    BY <2>3, OtherKeeps
  <2> QED BY <1>1, <2>1, <2>2, <2>3 DEF Scan
<1>2. CASE WalkOn
  BY <1>2, WalkOnKeeps
<1>3. CASE Trade
  <2>1. CASE \E o \in pending : Place(o)
    BY <2>1, PlaceKeeps
  <2>2. CASE \E v \in Venues, b \in Opening : Move(v, b.asks)
    BY <2>2, MoveKeeps
  <2>3. CASE Fill
    BY <2>3, FillKeeps
  <2>4. CASE (\E o \in pending : Decline(o)) \/ Rest \/ Marketable \/ Begin
    BY <2>4, OtherKeeps
  <2> QED BY <1>3, <2>1, <2>2, <2>3, <2>4 DEF Trade
<1>4. CASE UNCHANGED vars
  <2>1. UNCHANGED <<books, pc, left, pair, quantity, walk, cost, found, pending, order, filled>>
    BY <1>4 DEF vars
  <2>2. LiquidPairs' = LiquidPairs
    BY <2>1 DEF LiquidPairs, Liquid
  <2>3. TypeOK' /\ WalkTyped' /\ Buying' /\ Selling' /\ Filling' /\ Spread'
    BY <2>1, <2>2 DEF IInv, TypeOK, WalkTyped, Buying, Selling, Filling, Spread
  <2>4. Profitable' /\ NeverBothWays' /\ NeverAboveQuote'
    BY <2>1 DEF IInv, Profitable, NeverBothWays, NeverAboveQuote
  <2> QED BY <2>3, <2>4 DEF IInv
<1> QED BY <1>1, <1>2, <1>3, <1>4 DEF Next

LEMMA Invariance == Spec => []IInv
BY InitEstablishes, StepKeeps, PTL DEF Spec

-----------------------------------------------------------------------------
(* What follows.                                                           *)

\* Every variable has its type, whatever the books, fees and thresholds.
THEOREM TypeCorrect == Spec => []TypeOK
<1>1. IInv => TypeOK
  BY DEF IInv
<1> QED BY <1>1, Invariance, PTL

\* Whatever became of the books, an order never pays more on average than its
\* opportunity was quoted (PaperExecutor._walk_book with the limit the engine
\* gives it).
THEOREM QuoteIsCeiling == Spec => []NeverAboveQuote
<1>1. IInv => NeverAboveQuote
  BY DEF IInv
<1> QED BY <1>1, Invariance, PTL

\* A scan never emits an opportunity and its opposite, for any number of
\* venues whose books are not crossed (CrossExchangeArbitrageStrategy).
THEOREM OneWayOnly == Spec => []NeverBothWays
<1>1. IInv => NeverBothWays
  BY DEF IInv
<1> QED BY <1>1, Invariance, PTL

\* What is filled entirely clears the NET thresholds at what it really cost
\* (_gate_candidate, then _walk_book in other books).
THEOREM WholeFillClears == Spec => []FilledStillPays
<1>1. ASSUME IInv PROVE FilledStillPays
  <2> SUFFICES ASSUME filled # None, filled.quantity = filled.order.quantity
               PROVE  Clears(filled.cost, filled.order.proceeds)
    BY DEF FilledStillPays, Clears
  <2> DEFINE o == filled.order
  <2>1. o \in found /\ filled.cost \in Nat /\ filled.quantity \in Nat
    BY <1>1 DEF IInv, TypeOK
  <2>2. /\ o.quantity \in Nat \ {0} /\ o.cost \in Nat /\ o.proceeds \in Nat
        /\ Clears(o.cost, o.proceeds)
    BY <1>1, <2>1 DEF IInv, TypeOK, Opportunities, Profitable
  <2>3. filled.cost * o.quantity <= o.quantity * o.cost
    BY <1>1 DEF IInv, NeverAboveQuote
  <2>4. filled.cost * o.quantity <= o.cost * o.quantity
    BY <2>1, <2>2, <2>3
  <2> HIDE DEF o
  <2>5. filled.cost <= o.cost
    BY <2>1, <2>2, <2>4, ProductReflects
  <2>6. Clears(filled.cost, o.proceeds)
    BY <2>1, <2>2, <2>5, NetAtLowerCost
  <2> QED BY <2>6 DEF o
<1> QED BY <1>1, Invariance, PTL
=============================================================================
