------------------------ MODULE ExposureLimits_proofs ------------------------
(***************************************************************************)
(* Theorems about ExposureLimits, for any symbols, prices, limits and      *)
(* number of opportunities.                                                *)
(***************************************************************************)
EXTENDS ExposureLimits, Sums, FiniteSetTheorems, TLAPS

-----------------------------------------------------------------------------
(* Sizes.                                                                  *)

LEMMA DivAtLeast ==
  ASSUME NEW n \in Nat, NEW d \in Nat \ {0}, NEW w \in Nat, d * w <= n
  PROVE  n \div d >= w
<1> DEFINE q == n \div d
<1>1. q \in Nat /\ n < d * (q + 1)
  OBVIOUS
<1> HIDE DEF q
<1>2. d * w < d * (q + 1)
  BY <1>1
<1>3. ~(q + 1 <= w)
  <2> SUFFICES ASSUME q + 1 <= w PROVE FALSE
    OBVIOUS
  <2>1. d * (q + 1) <= d * w
    BY <1>1
  <2> QED BY <1>1, <1>2, <2>1
<1> QED BY <1>1, <1>3 DEF q

\* A request that breaches no limit is allowed whole, whatever the portfolio:
\* the limits reject and never reduce (PositionLimitCalculator.evaluate).
THEOREM UnbreachedIsWhole ==
  ASSUME NEW o \in Orders, NEW snapshot \in Snapshots, ~Breached(o, snapshot)
  PROVE  Allowed(o, snapshot) = o.wanted /\ Size(o, snapshot) = o.wanted
<1> DEFINE e == snapshot.equity
           x == snapshot.exposure
           p == o.price
           w == o.wanted
           rest == Remaining(snapshot)
           notional == AtMost(Cap(snapshot), rest)
<1>1. e \in Nat /\ x \in Nat /\ p \in Nat \ {0} /\ w \in Nat \ {0}
  BY LimitsAssumption DEF Snapshots, Orders, Prices, Quantities
<1>2. /\ MaxNotional \in Nat /\ MaxPositionPct \in Nat /\ MaxExposurePct \in Nat
  BY LimitsAssumption
<1>3. MaxPositionPct * e \in Nat /\ MaxExposurePct * e \in Nat /\ w * p \in Nat \ {0}
  BY <1>1, <1>2
<1>4. rest \in Nat
  BY <1>1, <1>2, <1>3 DEF Remaining
<1>5. Cap(snapshot) \in Nat
  BY <1>2, <1>3 DEF Cap, ByPercent, AtMost
<1>6. notional \in Nat
  BY <1>4, <1>5 DEF AtMost
<1>7. Requested(o) = 100 * (w * p) /\ 100 * Requested(o) = 10000 * (w * p)
  BY <1>1 DEF Requested
<1>8. 10000 * (w * p) <= rest
  BY <1>3, <1>4, <1>7 DEF Breached
<1>9. 10000 * (w * p) <= Cap(snapshot)
  BY <1>2, <1>3, <1>7 DEF Breached, Cap, ByPercent, AtMost
<1>10. 10000 * (w * p) <= notional
  BY <1>8, <1>9 DEF AtMost
<1> HIDE DEF rest, notional
<1>11. (10000 * p) * w = 10000 * (w * p) /\ 10000 * p \in Nat \ {0}
  BY <1>1
<1>12. notional \div (10000 * p) >= w /\ notional \div (10000 * p) \in Nat
  BY <1>1, <1>6, <1>10, <1>11, DivAtLeast
<1>13. Allowed(o, snapshot) = w
  BY <1>1, <1>12 DEF Allowed, AtMost, notional, rest
<1> QED BY <1>1, <1>13 DEF Size

-----------------------------------------------------------------------------
(* What the steps do with the runs.                                        *)

\* A run and a snapshot have their fields, whatever the sums in them are.
RunShape(run) ==
  run = [pc |-> run.pc, symbol |-> run.symbol, left |-> run.left,
         snapshot |-> run.snapshot, order |-> run.order]

SnapshotShape(snapshot) ==
  snapshot = [equity |-> snapshot.equity, exposure |-> snapshot.exposure, open |-> snapshot.open,
              peak |-> snapshot.peak, highest |-> snapshot.highest]

Shape ==
  /\ runs = [r \in Runs |-> runs[r]]
  /\ \A r \in Runs : RunShape(runs[r]) /\ SnapshotShape(runs[r].snapshot)

Pcs == {"idle", "evaluating", "placing"}

\* Only the run `r` moves.
OnlyRun(r) ==
  /\ runs' = [q \in Runs |-> runs'[q]]
  /\ \A q \in Runs \ {r} : runs'[q] = runs[q]

\* The run `r` has gone on with this program counter and snapshot.
GoneOn(r, pcs, snapshot) ==
  /\ OnlyRun(r)
  /\ RunShape(runs'[r])
  /\ runs'[r].pc \in pcs
  /\ runs'[r].snapshot = snapshot

\* What updates make of a run, one field at a time.
LEMMA Updated ==
  ASSUME NEW run, RunShape(run), NEW value
  PROVE  /\ [run EXCEPT !.pc = value]
              = [pc |-> value, symbol |-> run.symbol, left |-> run.left,
                 snapshot |-> run.snapshot, order |-> run.order]
         /\ [run EXCEPT !.left = value]
              = [pc |-> run.pc, symbol |-> run.symbol, left |-> value,
                 snapshot |-> run.snapshot, order |-> run.order]
         /\ [run EXCEPT !.snapshot = value]
              = [pc |-> run.pc, symbol |-> run.symbol, left |-> run.left,
                 snapshot |-> value, order |-> run.order]
         /\ [run EXCEPT !.order = value]
              = [pc |-> run.pc, symbol |-> run.symbol, left |-> run.left,
                 snapshot |-> run.snapshot, order |-> value]
<1> DEFINE sym == run.symbol
           l == run.left
           snap == run.snapshot
           ord == run.order
           p == run.pc
<1>1. run = [pc |-> p, symbol |-> sym, left |-> l, snapshot |-> snap, order |-> ord]
  BY DEF RunShape
<1> HIDE DEF sym, l, snap, ord, p
<1>2. /\ [run EXCEPT !.pc = value]
           = [pc |-> value, symbol |-> sym, left |-> l, snapshot |-> snap, order |-> ord]
      /\ [run EXCEPT !.left = value]
           = [pc |-> p, symbol |-> sym, left |-> value, snapshot |-> snap, order |-> ord]
  BY <1>1
<1>3. /\ [run EXCEPT !.snapshot = value]
           = [pc |-> p, symbol |-> sym, left |-> l, snapshot |-> value, order |-> ord]
      /\ [run EXCEPT !.order = value]
           = [pc |-> p, symbol |-> sym, left |-> l, snapshot |-> snap, order |-> value]
  BY <1>1
<1> QED BY <1>2, <1>3 DEF sym, l, snap, ord, p

\* Three fields, the last of them the order or the snapshot.
LEMMA UpdatedThrice ==
  ASSUME NEW run, RunShape(run), NEW pc, NEW left, NEW value
  PROVE  /\ [run EXCEPT !.pc = pc, !.left = left, !.order = value]
              = [pc |-> pc, symbol |-> run.symbol, left |-> left,
                 snapshot |-> run.snapshot, order |-> value]
         /\ [run EXCEPT !.pc = pc, !.left = left, !.snapshot = value]
              = [pc |-> pc, symbol |-> run.symbol, left |-> left,
                 snapshot |-> value, order |-> run.order]
<1> DEFINE first == [run EXCEPT !.pc = pc]
           second == [first EXCEPT !.left = left]
<1>1. first = [pc |-> pc, symbol |-> run.symbol, left |-> run.left,
               snapshot |-> run.snapshot, order |-> run.order]
  BY Updated
<1> HIDE DEF first
<1>2. second = [pc |-> pc, symbol |-> run.symbol, left |-> left,
                snapshot |-> run.snapshot, order |-> run.order]
  BY <1>1, Updated DEF RunShape
<1> HIDE DEF second
<1>3. RunShape(second)
  BY <1>2 DEF RunShape
<1>4. /\ [second EXCEPT !.order = value]
           = [pc |-> second.pc, symbol |-> second.symbol, left |-> second.left,
              snapshot |-> second.snapshot, order |-> value]
      /\ [second EXCEPT !.snapshot = value]
           = [pc |-> second.pc, symbol |-> second.symbol, left |-> second.left,
              snapshot |-> value, order |-> second.order]
  BY <1>3, Updated
<1>5. /\ second.pc = pc /\ second.symbol = run.symbol /\ second.left = left
      /\ second.snapshot = run.snapshot /\ second.order = run.order
  BY <1>2
<1>6. /\ [second EXCEPT !.order = value]
           = [pc |-> pc, symbol |-> run.symbol, left |-> left,
              snapshot |-> run.snapshot, order |-> value]
      /\ [second EXCEPT !.snapshot = value]
           = [pc |-> pc, symbol |-> run.symbol, left |-> left,
              snapshot |-> value, order |-> run.order]
  BY <1>4, <1>5
<1> QED BY <1>6 DEF first, second

LEMMA ThroughGoesOn ==
  ASSUME Shape, NEW r \in Runs
  PROVE  /\ RunShape(Through(r)) /\ Through(r).pc \in {"evaluating", "idle"}
         /\ Through(r).snapshot = runs[r].snapshot
<1> DEFINE pc == IF runs[r].left > 1 THEN "evaluating" ELSE "idle"
           left == runs[r].left - 1
<1>1. Through(r) = [runs[r] EXCEPT !.pc = pc, !.left = left, !.order = NoOrder]
  BY DEF Through
<1>2. pc \in {"evaluating", "idle"}
  OBVIOUS
<1> HIDE DEF pc, left
<1>3. RunShape(runs[r])
  BY DEF Shape
<1>4. Through(r) = [pc |-> pc, symbol |-> runs[r].symbol, left |-> left,
                    snapshot |-> runs[r].snapshot, order |-> NoOrder]
  BY <1>1, <1>3, UpdatedThrice
<1> QED BY <1>2, <1>4 DEF RunShape

LEMMA BeginGoesOn ==
  ASSUME Shape, NEW r \in Runs, NEW symbol, NEW found, Begin(r, symbol, found)
  PROVE  GoneOn(r, {"evaluating"}, Snapshot) /\ SnapshotShape(Snapshot)
<1>1. SnapshotShape(Snapshot)
  BY DEF Snapshot, SnapshotShape
<1> DEFINE snapshot == Snapshot
           begun == [pc |-> "evaluating", symbol |-> symbol, left |-> found,
                     snapshot |-> snapshot, order |-> NoOrder]
<1>2. runs' = [runs EXCEPT ![r] = begun]
  BY DEF Begin
<1> HIDE DEF snapshot
<1>3. RunShape(begun) /\ begun.pc = "evaluating" /\ begun.snapshot = snapshot
  BY DEF RunShape
<1> HIDE DEF begun
<1>4. runs'[r] = begun /\ OnlyRun(r)
  BY <1>2 DEF OnlyRun, Shape
<1>5. GoneOn(r, {"evaluating"}, snapshot)
  BY <1>3, <1>4 DEF GoneOn
<1> QED BY <1>1, <1>5 DEF snapshot

LEMMA RejectGoesOn ==
  ASSUME Shape, NEW r \in Runs, Reject(r)
  PROVE  GoneOn(r, {"evaluating", "idle"}, runs[r].snapshot)
<1>1. runs'[r] = Through(r) /\ OnlyRun(r)
  BY DEF Reject, OnlyRun, Shape
<1> QED BY <1>1, ThroughGoesOn DEF GoneOn

LEMMA EvaluateGoesOn ==
  ASSUME Shape, NEW r \in Runs, NEW last, NEW o, Evaluate(r, last, o)
  PROVE  /\ runs[r].pc = "evaluating"
         /\ \/ GoneOn(r, {"evaluating", "idle"}, runs[r].snapshot)
            \/ /\ GoneOn(r, {"placing"}, runs[r].snapshot)
               /\ ~DrawnDown(runs[r].snapshot) /\ Approves(o, runs[r].snapshot)
<1>1. CASE Reject(r)
  BY <1>1, RejectGoesOn DEF Evaluate
<1>2. CASE ~Reject(r)
  <2> DEFINE order == [o EXCEPT !.quantity = Size(o, runs[r].snapshot)]
             after == [[runs[r] EXCEPT !.pc = "placing"] EXCEPT !.order = order]
  <2>1. /\ runs' = [runs EXCEPT ![r].pc = "placing", ![r].order = order]
        /\ ~DrawnDown(runs[r].snapshot) /\ Approves(o, runs[r].snapshot)
    BY <1>2 DEF Evaluate
  <2> HIDE DEF order
  <2>2. RunShape(runs[r])
    BY DEF Shape
  <2>3. after = [pc |-> "placing", symbol |-> runs[r].symbol, left |-> runs[r].left,
                 snapshot |-> runs[r].snapshot, order |-> order]
    <3> DEFINE first == [runs[r] EXCEPT !.pc = "placing"]
    <3>1. first = [pc |-> "placing", symbol |-> runs[r].symbol, left |-> runs[r].left,
                   snapshot |-> runs[r].snapshot, order |-> runs[r].order]
      BY <2>2, Updated
    <3> HIDE DEF first
    <3>2. [first EXCEPT !.order = order]
            = [pc |-> "placing", symbol |-> runs[r].symbol, left |-> runs[r].left,
               snapshot |-> runs[r].snapshot, order |-> order]
      BY <3>1, Updated DEF RunShape
    <3> QED BY <3>2 DEF first
  <2>4. runs'[r] = after /\ OnlyRun(r)
    BY <2>1 DEF OnlyRun, Shape
  <2> HIDE DEF after
  <2>5. GoneOn(r, {"placing"}, runs[r].snapshot)
    BY <2>3, <2>4 DEF GoneOn, RunShape
  <2> QED BY <2>1, <2>5 DEF Evaluate
<1> QED BY <1>1, <1>2

LEMMA FillGoesOn ==
  ASSUME Shape, NEW r \in Runs, NEW filled, NEW price, Fill(r, filled, price)
  PROVE  GoneOn(r, {"evaluating", "idle"}, Snapshot') /\ SnapshotShape(Snapshot')
<1> DEFINE after == Snapshot'
           next == [Through(r) EXCEPT !.snapshot = after]
<1>1. runs' = [runs EXCEPT ![r] = next]
  BY DEF Fill, SnapshotAfter
<1>2. SnapshotShape(after)
  BY DEF Snapshot, SnapshotShape
<1> HIDE DEF after
<1>3. RunShape(Through(r)) /\ Through(r).pc \in {"evaluating", "idle"}
  BY ThroughGoesOn
<1>4. next = [pc |-> Through(r).pc, symbol |-> Through(r).symbol, left |-> Through(r).left,
              snapshot |-> after, order |-> Through(r).order]
  BY <1>3, Updated
<1> HIDE DEF next
<1>5. runs'[r] = next /\ OnlyRun(r)
  BY <1>1 DEF OnlyRun, Shape
<1>6. GoneOn(r, {"evaluating", "idle"}, after)
  BY <1>3, <1>4, <1>5 DEF GoneOn, RunShape
<1> QED BY <1>2, <1>6 DEF after

-----------------------------------------------------------------------------
(* The shape and the drawdown.                                             *)

\* The peak is the highest equity there ever was, now and in every snapshot,
\* and what is being placed was approved on a snapshot within the limit.
DInv ==
  /\ Shape
  /\ peak = highest
  /\ \A r \in Runs :
       /\ runs[r].snapshot.peak = runs[r].snapshot.highest
       /\ runs[r].pc = "placing" => ~DrawnDown(runs[r].snapshot)

LEMMA InitIsWithin == Init => DInv
<1> SUFFICES ASSUME Init PROVE DInv
  OBVIOUS
<1>1. PICK symbol \in Symbols : runs = [r \in Runs |-> Idle(symbol)]
  BY DEF Init
<1>2. Shape
  BY <1>1 DEF Shape, RunShape, SnapshotShape, Idle, NoSnapshot
<1> QED BY <1>1, <1>2 DEF Init, DInv, Idle, NoSnapshot

\* A run that goes on with its snapshot, or one just taken, keeps the shape.
LEMMA GoneOnKeepsShape ==
  ASSUME Shape, NEW r \in Runs, NEW pcs, NEW snapshot, GoneOn(r, pcs, snapshot), SnapshotShape(snapshot)
  PROVE  Shape'
<1> SUFFICES ASSUME NEW q \in Runs
             PROVE  RunShape(runs'[q]) /\ SnapshotShape(runs'[q].snapshot)
  BY DEF Shape, GoneOn, OnlyRun
<1>1. CASE q = r
  BY <1>1 DEF GoneOn
<1>2. CASE q # r
  BY <1>2 DEF GoneOn, OnlyRun, Shape
<1> QED BY <1>1, <1>2

LEMMA UpdateKeepsPeak ==
  ASSUME UpdateDrawdown, peak = highest
  PROVE  peak' = highest'
  BY DEF UpdateDrawdown

LEMMA NewSnapshot == Snapshot.peak = peak /\ Snapshot.highest = highest
  BY DEF Snapshot

LEMMA RunKeepsWithin ==
  ASSUME DInv, NEW r \in Runs, Run(r)
  PROVE  DInv'
<1>0. Shape /\ SnapshotShape(runs[r].snapshot)
  BY DEF DInv, Shape
<1>1. CASE \E symbol \in Symbols, found \in 1 .. MaxFound : Begin(r, symbol, found)
  <2>1. PICK symbol \in Symbols, found \in 1 .. MaxFound : Begin(r, symbol, found)
    BY <1>1
  <2>2. GoneOn(r, {"evaluating"}, Snapshot) /\ SnapshotShape(Snapshot)
    BY <1>0, <2>1, BeginGoesOn
  <2>3. Shape'
    BY <1>0, <2>2, GoneOnKeepsShape
  <2>4. peak' = peak /\ highest' = highest
    BY <2>1 DEF Begin, equityVars
  <2> QED BY <2>2, <2>3, <2>4, NewSnapshot DEF DInv, GoneOn, OnlyRun
<1>2. CASE \E last \in Prices, price \in Prices, wanted \in Quantities :
             Evaluate(r, last, [price |-> price, wanted |-> wanted, quantity |-> 0])
  <2>1. PICK last, o : Evaluate(r, last, o)
    BY <1>2
  <2>2. \/ GoneOn(r, {"evaluating", "idle"}, runs[r].snapshot)
        \/ GoneOn(r, {"placing"}, runs[r].snapshot) /\ ~DrawnDown(runs[r].snapshot)
    BY <1>0, <2>1, EvaluateGoesOn
  <2>3. Shape'
    BY <1>0, <2>2, GoneOnKeepsShape
  <2>4. peak' = highest'
    BY <2>1, UpdateKeepsPeak DEF Evaluate, DInv
  <2> QED BY <2>2, <2>3, <2>4 DEF DInv, GoneOn, OnlyRun
<1>3. CASE \E filled \in 0 .. MaxQuantity, price \in Prices : Fill(r, filled, price)
  <2>1. PICK filled, price : Fill(r, filled, price)
    BY <1>3
  <2>2. GoneOn(r, {"evaluating", "idle"}, Snapshot') /\ SnapshotShape(Snapshot')
    BY <1>0, <2>1, FillGoesOn
  <2>3. Shape'
    BY <1>0, <2>2, GoneOnKeepsShape
  <2>4. peak' = highest'
    BY <2>1, UpdateKeepsPeak DEF Fill, DInv
  <2>5. Snapshot'.peak = peak' /\ Snapshot'.highest = highest'
    BY DEF Snapshot
  <2> QED BY <2>2, <2>3, <2>4, <2>5 DEF DInv, GoneOn, OnlyRun
<1> QED BY <1>1, <1>2, <1>3 DEF Run

LEMMA RestartKeepsWithin ==
  ASSUME DInv, Restart
  PROVE  DInv'
<1>1. runs' = [r \in Runs |-> Idle(runs[r].symbol)] /\ peak' = peak /\ highest' = highest
  BY DEF Restart, PeakReloaded
<1>2. Shape'
  BY <1>1 DEF Shape, RunShape, SnapshotShape, Idle, NoSnapshot
<1> QED BY <1>1, <1>2 DEF DInv, Idle, NoSnapshot

\* No order is placed from a portfolio that, when it was last looked at, was
\* max_drawdown_percent or more below the highest equity it ever had, in this
\* process or an earlier one that was shut down (_update_drawdown, load_state,
\* RiskEngine.evaluate).
THEOREM DrawdownIsObeyed == Spec => []DrawdownObeyed
<1>1. Init => DInv
  BY InitIsWithin
<1>2. DInv /\ [Next]_vars => DInv'
  <2> SUFFICES ASSUME DInv, [Next]_vars PROVE DInv'
    OBVIOUS
  <2>1. CASE \E r \in Runs : Run(r)
    BY <2>1, RunKeepsWithin
  <2>2. CASE Recover \/ UNCHANGED vars
    <3>1. peak' = peak /\ highest' = highest /\ runs' = runs
      BY <2>2 DEF Recover, vars, equityVars
    <3> QED BY <3>1 DEF DInv, Shape
  <2>3. CASE Restart
    BY <2>3, RestartKeepsWithin
  <2> QED BY <2>1, <2>2, <2>3 DEF Next
<1>3. DInv => DrawdownObeyed
  <2> SUFFICES ASSUME DInv, NEW r \in Runs, runs[r].pc = "placing"
               PROVE  ~DrawnDown([runs[r].snapshot EXCEPT !.peak = runs[r].snapshot.highest])
    BY DEF DrawdownObeyed
  <2>1. SnapshotShape(runs[r].snapshot) /\ runs[r].snapshot.peak = runs[r].snapshot.highest
    BY DEF DInv, Shape
  <2>2. [runs[r].snapshot EXCEPT !.peak = runs[r].snapshot.highest] = runs[r].snapshot
    BY <2>1 DEF SnapshotShape
  <2> QED BY <2>2 DEF DInv
<1> QED BY <1>1, <1>2, <1>3, PTL DEF Spec

-----------------------------------------------------------------------------
(* The open positions, when runs do not overlap.                           *)

Held(q) == {s \in Symbols : q[s] > 0}

\* What a run that is under way decides on is the number of positions there is.
OInv(r) ==
  /\ Shape
  /\ quantity \in [Symbols -> Nat]
  /\ Open <= MaxOpen
  /\ runs[r].pc # "idle" => runs[r].snapshot.open = Open
  /\ runs[r].pc = "placing" => runs[r].snapshot.open < MaxOpen

LEMMA HeldIsFinite ==
  ASSUME NEW q PROVE IsFiniteSet(Held(q)) /\ Cardinality(Held(q)) \in Nat
<1>1. Held(q) \subseteq Symbols /\ IsFiniteSet(Symbols)
  BY LimitsAssumption DEF Held
<1> QED BY <1>1, FS_Subset, FS_CardinalityType

LEMMA OpenIsHeld == Open = Cardinality(Held(quantity)) /\ Open \in Nat
  BY HeldIsFinite DEF Open, Held

\* A purchase opens one position at most.
LEMMA FillOpensOne ==
  ASSUME quantity \in [Symbols -> Nat], NEW r, NEW filled \in Nat, NEW price, Fill(r, filled, price)
  PROVE  quantity' \in [Symbols -> Nat] /\ Open' \in Nat /\ Open' <= Open + 1
<1> DEFINE symbol == runs[r].symbol
           more == Held(quantity) \cup {symbol}
<1>1. quantity' = [quantity EXCEPT ![symbol] = @ + filled]
  BY DEF Fill
<1> HIDE DEF symbol
<1>2. quantity' \in [Symbols -> Nat]
  <2>1. CASE symbol \in Symbols
    BY <1>1, <2>1
  <2>2. CASE symbol \notin Symbols
    BY <1>1, <2>2
  <2> QED BY <2>1, <2>2
<1>3. Held(quantity') \subseteq more
  BY <1>1 DEF Held
<1>4. IsFiniteSet(more) /\ Cardinality(more) <= Cardinality(Held(quantity)) + 1
  <2>1. IsFiniteSet(Held(quantity)) /\ Cardinality(Held(quantity)) \in Nat
    BY HeldIsFinite
  <2>2. Cardinality(more) = IF symbol \in Held(quantity) THEN Cardinality(Held(quantity))
                                                        ELSE Cardinality(Held(quantity)) + 1
    BY <2>1, FS_AddElement
  <2> QED BY <2>1, <2>2, FS_AddElement
<1>5. Cardinality(Held(quantity')) <= Cardinality(more) /\ Cardinality(more) \in Nat
  BY <1>3, <1>4, FS_Subset, FS_CardinalityType
<1>6. Open' = Cardinality(Held(quantity')) /\ Open' \in Nat
  BY HeldIsFinite DEF Open, Held
<1> HIDE DEF more
<1>7. Open = Cardinality(Held(quantity)) /\ Open \in Nat
  BY OpenIsHeld
<1> QED BY <1>2, <1>4, <1>5, <1>6, <1>7

LEMMA SameQuantity == quantity' = quantity => Open' = Open
  BY DEF Open

LEMMA RunKeepsOpen ==
  ASSUME NEW r \in Runs, OInv(r), Run(r)
  PROVE  OInv(r)'
<1>0. /\ Shape /\ quantity \in [Symbols -> Nat] /\ Open <= MaxOpen /\ Open \in Nat
      /\ MaxOpen \in Nat /\ SnapshotShape(runs[r].snapshot)
  BY OpenIsHeld, LimitsAssumption DEF OInv, Shape
<1>1. CASE \E symbol \in Symbols, found \in 1 .. MaxFound : Begin(r, symbol, found)
  <2>1. PICK symbol \in Symbols, found \in 1 .. MaxFound : Begin(r, symbol, found)
    BY <1>1
  <2>2. GoneOn(r, {"evaluating"}, Snapshot) /\ SnapshotShape(Snapshot)
    BY <1>0, <2>1, BeginGoesOn
  <2>3. Shape' /\ Snapshot.open = Open
    BY <1>0, <2>2, GoneOnKeepsShape DEF Snapshot
  <2>4. quantity' = quantity /\ Open' = Open
    BY <2>1, SameQuantity DEF Begin, equityVars, portfolio
  <2> QED BY <1>0, <2>2, <2>3, <2>4 DEF OInv, GoneOn
<1>2. CASE \E last \in Prices, price \in Prices, wanted \in Quantities :
             Evaluate(r, last, [price |-> price, wanted |-> wanted, quantity |-> 0])
  <2>1. PICK last, o : Evaluate(r, last, o)
    BY <1>2
  <2>2. /\ runs[r].pc = "evaluating"
        /\ \/ GoneOn(r, {"evaluating", "idle"}, runs[r].snapshot)
           \/ GoneOn(r, {"placing"}, runs[r].snapshot) /\ Approves(o, runs[r].snapshot)
    BY <1>0, <2>1, EvaluateGoesOn
  <2>3. Shape'
    BY <1>0, <2>2, GoneOnKeepsShape
  <2>4. quantity' = quantity /\ Open' = Open
    BY <2>1, SameQuantity DEF Evaluate, portfolio
  <2>5. runs[r].snapshot.open = Open
    BY <2>2 DEF OInv
  <2> QED BY <1>0, <2>2, <2>3, <2>4, <2>5 DEF OInv, GoneOn, Approves, Room
<1>3. CASE \E filled \in 0 .. MaxQuantity, price \in Prices : Fill(r, filled, price)
  <2>1. PICK filled \in 0 .. MaxQuantity, price \in Prices : Fill(r, filled, price)
    BY <1>3
  <2>2. GoneOn(r, {"evaluating", "idle"}, Snapshot') /\ SnapshotShape(Snapshot')
    BY <1>0, <2>1, FillGoesOn
  <2>3. Shape' /\ Snapshot'.open = Open'
    BY <1>0, <2>2, GoneOnKeepsShape DEF Snapshot
  <2>4. quantity' \in [Symbols -> Nat] /\ Open' \in Nat /\ Open' <= Open + 1
    <3>1. filled \in Nat
      BY LimitsAssumption
    <3> QED BY <1>0, <2>1, <3>1, FillOpensOne
  <2>5. Open < MaxOpen
    <3>1. runs[r].pc = "placing"
      BY <2>1 DEF Fill
    <3> QED BY <3>1 DEF OInv
  <2> QED BY <1>0, <2>2, <2>3, <2>4, <2>5 DEF OInv, GoneOn
<1> QED BY <1>1, <1>2, <1>3 DEF Run

\* With one run at a time, no more positions are open than may be, whatever was
\* filled in the same run before (the check of open_position_count, with the
\* snapshot that run_once refreshes after a fill).
THEOREM OpenStaysWithinLimit ==
  ASSUME NEW r, Runs = {r}
  PROVE  Spec => []OpenWithinLimit
<1>1. Init => OInv(r)
  <2> SUFFICES ASSUME Init PROVE OInv(r)
    OBVIOUS
  <2>1. Shape /\ runs[r].pc = "idle"
    <3>1. PICK symbol \in Symbols : runs = [q \in Runs |-> Idle(symbol)]
      BY DEF Init
    <3> QED BY <3>1 DEF Shape, RunShape, SnapshotShape, Idle, NoSnapshot
  <2>2. quantity = [s \in Symbols |-> 0]
    BY DEF Init
  <2>3. Held(quantity) = {}
    BY <2>2 DEF Held
  <2>4. Open <= MaxOpen
    BY <2>3, OpenIsHeld, FS_EmptySet, LimitsAssumption
  <2> QED BY <2>1, <2>2, <2>4 DEF OInv
<1>2. OInv(r) /\ [Next]_vars => OInv(r)'
  <2> SUFFICES ASSUME OInv(r), [Next]_vars PROVE OInv(r)'
    OBVIOUS
  <2>1. CASE \E q \in Runs : Run(q)
    BY <2>1, RunKeepsOpen
  <2>2. CASE Recover \/ UNCHANGED vars
    <3>1. quantity' = quantity /\ runs' = runs
      BY <2>2 DEF Recover, vars, equityVars, portfolio
    <3> QED BY <3>1, SameQuantity DEF OInv, Shape
  <2>3. CASE Restart
    <3>1. quantity' = quantity /\ runs' = [q \in Runs |-> Idle(runs[q].symbol)]
      BY <2>3 DEF Restart, portfolio
    <3>2. Shape' /\ runs'[r].pc = "idle"
      BY <3>1 DEF Shape, RunShape, SnapshotShape, Idle, NoSnapshot
    <3> QED BY <3>1, <3>2, SameQuantity DEF OInv
  <2> QED BY <2>1, <2>2, <2>3 DEF Next
<1>3. OInv(r) => OpenWithinLimit
  BY DEF OInv, OpenWithinLimit
<1> QED BY <1>1, <1>2, <1>3, PTL DEF Spec

-----------------------------------------------------------------------------
(* Types, and what is placed.                                              *)

RunType == [pc : Pcs, symbol : Symbols, left : 0 .. MaxFound, snapshot : Snapshots, order : Orders]

\* An order being placed breaches no limit of the snapshot it was approved on,
\* and is for the whole of what was asked.
Placed(run) ==
  run.pc = "placing" => ~Breached(run.order, run.snapshot) /\ run.order.quantity = run.order.wanted

\* A run that is under way has an opportunity left.
Under(run) == run.pc # "idle" => run.left >= 1

WInv ==
  /\ TypeOK
  /\ \A r \in Runs : Under(runs[r]) /\ Placed(runs[r])

LEMMA Numbers ==
  /\ MaxPrice \in Nat \ {0} /\ MaxQuantity \in Nat \ {0} /\ MaxFound \in Nat \ {0}
  /\ StartCash \in Nat /\ FeePct \in Nat
  /\ MaxNotional \in Nat \ {0} /\ MaxPositionPct \in Nat \ {0} /\ MaxExposurePct \in Nat \ {0}
  /\ Prices \subseteq Nat \ {0} /\ Quantities \subseteq Nat \ {0} /\ 0 .. MaxQuantity \subseteq Nat
  BY LimitsAssumption DEF Prices, Quantities

\* What the snapshot is made of.
LEMMA ExposureIsNatural ==
  ASSUME NEW c \in [Symbols -> Nat]
  PROVE  SumFunction(c) = SumFunctionOnSet(c, Symbols) /\ SumFunction(c) \in Nat
<1>1. DOMAIN c = Symbols /\ IsFiniteSet(Symbols) /\ \A s \in Symbols : c[s] \in Nat
  BY LimitsAssumption
<1> QED BY <1>1, SumOfNaturals DEF SumFunction

LEMMA EquityIsNatural ==
  ASSUME NEW m \in Nat, NEW q \in [Symbols -> Nat], NEW k \in [Symbols -> Prices]
  PROVE  m + SumFunction([s \in Symbols |-> 100 * q[s] * k[s]]) \in Nat
<1> DEFINE value == [s \in Symbols |-> 100 * q[s] * k[s]]
<1>1. \A s \in Symbols : 100 * q[s] * k[s] \in Nat
  <2> SUFFICES ASSUME NEW s \in Symbols PROVE 100 * q[s] * k[s] \in Nat
    OBVIOUS
  <2>1. q[s] \in Nat /\ k[s] \in Nat
    BY Numbers
  <2> QED BY <2>1
<1>2. value \in [Symbols -> Nat]
  BY <1>1
<1> HIDE DEF value
<1>3. SumFunction(value) \in Nat
  BY <1>2, ExposureIsNatural
<1> QED BY <1>3 DEF value

\* A purchase of f at p next to one of q at l, by their factors.
PaidWithin(f, p, q, l) ==
  /\ f * p \in Nat /\ q * l \in Nat /\ f * p <= q * l
  /\ Paid(f, p) = (100 + FeePct) * (f * p) /\ Paid(f, p) \in Nat
  /\ Paid(q, l) = (100 + FeePct) * (q * l) /\ Paid(q, l) \in Nat
  /\ Paid(f, p) <= Paid(q, l)

\* A fill pays no more than its order would.
LEMMA PaidAtMost ==
  ASSUME NEW f \in Nat, NEW p \in Nat, NEW q \in Nat, NEW l \in Nat, f <= q, p <= l
  PROVE  PaidWithin(f, p, q, l)
<1>1. f * p \in Nat /\ f * l \in Nat /\ q * l \in Nat
  OBVIOUS
<1>2. f * p <= f * l /\ f * l <= q * l
  <2>1. l - p \in Nat /\ f * (l - p) \in Nat /\ f * l = f * p + f * (l - p)
    OBVIOUS
  <2>2. q - f \in Nat /\ (q - f) * l \in Nat /\ q * l = f * l + (q - f) * l
    OBVIOUS
  <2> QED BY <1>1, <2>1, <2>2
<1>3. FeePct \in Nat
  BY Numbers
<1>4. /\ Paid(f, p) = (100 + FeePct) * (f * p)
      /\ Paid(q, l) = (100 + FeePct) * (q * l)
  BY <1>3 DEF Paid, Gross
<1> DEFINE a == f * p
           b == q * l
           c == 100 + FeePct
<1>5. a \in Nat /\ b \in Nat /\ a <= b /\ c \in Nat
  BY <1>1, <1>2, <1>3
<1> HIDE DEF a, b, c
<1>6. c * a \in Nat /\ c * b \in Nat /\ c * a <= c * b
  <2>1. b - a \in Nat /\ c * (b - a) \in Nat /\ c * b = c * a + c * (b - a)
    BY <1>5
  <2> QED BY <1>5, <2>1
<1>7. Paid(f, p) = c * a /\ Paid(q, l) = c * b
  BY <1>4 DEF a, b, c
<1>8. Paid(f, p) \in Nat /\ Paid(q, l) \in Nat /\ Paid(f, p) <= Paid(q, l)
  BY <1>6, <1>7
<1>9. f * p <= q * l
  BY <1>5 DEF a, b
<1> QED BY <1>1, <1>4, <1>8, <1>9, Zenon DEF PaidWithin

LEMMA ThroughIsTyped ==
  ASSUME WInv, NEW r \in Runs, runs[r].pc # "idle"
  PROVE  Through(r) \in RunType /\ Under(Through(r)) /\ Through(r).pc # "placing"
<1>1. runs[r] \in RunType /\ runs[r].left \in 1 .. MaxFound
  BY Numbers DEF WInv, TypeOK, RunType, Pcs, Under
<1>2. NoOrder \in Orders
  BY Numbers DEF NoOrder, Orders, Prices, Quantities
<1> DEFINE pc == IF runs[r].left > 1 THEN "evaluating" ELSE "idle"
           left == runs[r].left - 1
<1>3. Through(r) = [runs[r] EXCEPT !.pc = pc, !.left = left, !.order = NoOrder]
  BY DEF Through
<1>4. pc \in Pcs /\ left \in 0 .. MaxFound /\ (pc # "idle" => left >= 1) /\ pc # "placing"
  BY <1>1, Numbers DEF Pcs
<1> HIDE DEF pc, left
<1>5. RunShape(runs[r])
  BY <1>1 DEF RunType, RunShape
<1>6. Through(r) = [pc |-> pc, symbol |-> runs[r].symbol, left |-> left,
                    snapshot |-> runs[r].snapshot, order |-> NoOrder]
  BY <1>3, <1>5, UpdatedThrice, ZenonT(60)
<1> QED BY <1>1, <1>2, <1>4, <1>6 DEF RunType, Under

\* Only the run `r` moves, to a run that is fine.
LEMMA MovesFine ==
  ASSUME WInv, NEW r \in Runs, NEW after \in RunType, runs' = [runs EXCEPT ![r] = after],
         Under(after), Placed(after)
  PROVE  runs' \in [Runs -> RunType] /\ \A q \in Runs : Under(runs'[q]) /\ Placed(runs'[q])
<1>1. runs \in [Runs -> RunType]
  BY DEF WInv, TypeOK, RunType, Pcs
<1> HIDE DEF RunType
<1>2. runs' \in [Runs -> RunType] /\ runs'[r] = after /\ \A q \in Runs \ {r} : runs'[q] = runs[q]
  BY <1>1
<1> QED BY <1>2 DEF WInv

LEMMA PeakIsNatural ==
  ASSUME TypeOK, UpdateDrawdown, Equity' \in Nat
  PROVE  peak' \in Nat /\ highest' \in Nat
  BY DEF TypeOK, UpdateDrawdown, AtLeast

LEMMA EquityNow ==
  ASSUME TypeOK
  PROVE  Equity \in Nat /\ Exposure \in Nat /\ Snapshot \in Snapshots
<1>1. cash \in Nat
  BY Numbers DEF TypeOK
<1>2. Equity \in Nat
  BY <1>1, EquityIsNatural DEF TypeOK, Equity
<1>3. Exposure \in Nat
  BY ExposureIsNatural DEF TypeOK, Exposure
<1>4. Open \in Nat
  BY OpenIsHeld
<1> QED BY <1>2, <1>3, <1>4 DEF Snapshot, Snapshots, TypeOK

LEMMA EquityThen ==
  ASSUME cash' \in Nat, quantity' \in [Symbols -> Nat], cost' \in [Symbols -> Nat],
         mark' \in [Symbols -> Prices]
  PROVE  /\ Equity' \in Nat /\ Exposure' \in Nat
         /\ peak' \in Nat /\ highest' \in Nat => Snapshot' \in Snapshots
<1>1. Equity' \in Nat
  BY EquityIsNatural DEF Equity
<1>2. Exposure' \in Nat
  BY ExposureIsNatural DEF Exposure
<1>3. Open' \in Nat
  BY HeldIsFinite DEF Open, Held
<1> QED BY <1>1, <1>2, <1>3 DEF Snapshot, Snapshots

-----------------------------------------------------------------------------
(* The types and the placed orders are kept.                               *)

LEMMA InitIsWhole == Init => WInv
<1> SUFFICES ASSUME Init PROVE WInv
  OBVIOUS
<1>1. PICK symbol \in Symbols : runs = [r \in Runs |-> Idle(symbol)]
  BY DEF Init
<1>2. Idle(symbol) \in RunType /\ Idle(symbol).pc = "idle"
  <2>1. NoOrder \in Orders /\ NoSnapshot \in Snapshots
    BY Numbers DEF NoOrder, Orders, Prices, Quantities, NoSnapshot, Snapshots
  <2> QED BY <2>1, Numbers DEF Idle, RunType, Pcs
<1>3. /\ cash \in 0 .. StartCash /\ quantity \in [Symbols -> Nat] /\ cost \in [Symbols -> Nat]
      /\ mark \in [Symbols -> Prices] /\ peak \in Nat /\ highest \in Nat
      /\ paused \in BOOLEAN /\ drawdownOk \in BOOLEAN
  <2>1. 1 \in Prices /\ StartCash \in 0 .. StartCash
    BY Numbers DEF Prices
  <2>2. mark = [s \in Symbols |-> 1] /\ cash = StartCash /\ peak = StartCash /\ highest = StartCash
    BY DEF Init
  <2>3. mark \in [Symbols -> Prices]
    BY <2>1, <2>2
  <2>4. quantity \in [Symbols -> Nat] /\ cost \in [Symbols -> Nat]
    BY DEF Init
  <2>5. paused \in BOOLEAN /\ drawdownOk \in BOOLEAN
    BY DEF Init
  <2> QED BY <2>1, <2>2, <2>3, <2>4, <2>5, Numbers
<1> HIDE DEF Idle
<1> QED BY <1>1, <1>2, <1>3 DEF WInv, TypeOK, RunType, Pcs, Under, Placed

LEMMA BeginKeepsWhole ==
  ASSUME WInv, NEW r \in Runs, NEW symbol \in Symbols, NEW found \in 1 .. MaxFound,
         Begin(r, symbol, found)
  PROVE  WInv'
<1> DEFINE begun == [pc |-> "evaluating", symbol |-> symbol, left |-> found,
                     snapshot |-> Snapshot, order |-> NoOrder]
<1>1. Snapshot \in Snapshots
  BY EquityNow DEF WInv
<1>2. begun \in RunType /\ Under(begun) /\ Placed(begun)
  <2>1. NoOrder \in Orders
    BY Numbers DEF NoOrder, Orders, Prices, Quantities
  <2>2. found \in 0 .. MaxFound /\ found >= 1
    BY Numbers
  <2> HIDE DEF Snapshot
  <2> QED BY <1>1, <2>1, <2>2 DEF RunType, Pcs, Under, Placed
<1>3. runs' = [runs EXCEPT ![r] = begun]
  BY DEF Begin
<1> HIDE DEF begun
<1>4. runs' \in [Runs -> RunType] /\ \A q \in Runs : Under(runs'[q]) /\ Placed(runs'[q])
  BY <1>2, <1>3, MovesFine
<1>5. UNCHANGED <<equityVars, switchVars>>
  BY DEF Begin
<1> QED BY <1>4, <1>5 DEF WInv, TypeOK, RunType, Pcs, equityVars, portfolio, switchVars

\* What is asked of the limits is the price and the quantity asked for.
LEMMA SameRequest ==
  ASSUME NEW o \in Orders, NEW size, NEW snapshot
  PROVE  LET sized == [o EXCEPT !.quantity = size] IN
           /\ sized = [price |-> o.price, wanted |-> o.wanted, quantity |-> size]
           /\ Breached(sized, snapshot) <=> Breached(o, snapshot)
<1> DEFINE sized == [o EXCEPT !.quantity = size]
<1>1. sized = [price |-> o.price, wanted |-> o.wanted, quantity |-> size]
  BY DEF Orders
<1>2. sized.price = o.price /\ sized.wanted = o.wanted
  BY <1>1
<1>3. Requested(sized) = Requested(o)
  BY <1>2 DEF Requested
<1> HIDE DEF sized
<1>4. Breached(sized, snapshot) <=> Breached(o, snapshot)
  BY <1>3 DEF Breached
<1> QED BY <1>1, <1>4 DEF sized

LEMMA EvaluateKeepsWhole ==
  ASSUME WInv, NEW r \in Runs, NEW last \in Prices, NEW o \in Orders, Evaluate(r, last, o)
  PROVE  WInv'
<1>1. /\ mark' \in [Symbols -> Prices] /\ portfolio' = portfolio
      /\ cash' \in Nat /\ quantity' \in [Symbols -> Nat] /\ cost' \in [Symbols -> Nat]
  <2>1. mark' = [mark EXCEPT ![runs[r].symbol] = last] /\ portfolio' = portfolio
    BY DEF Evaluate
  <2>2. mark \in [Symbols -> Prices] /\ cash \in Nat
    BY Numbers DEF WInv, TypeOK
  <2> QED BY <2>1, <2>2 DEF WInv, TypeOK, portfolio
<1>2. peak' \in Nat /\ highest' \in Nat
  <2>1. UpdateDrawdown /\ TypeOK
    BY DEF Evaluate, WInv
  <2>2. Equity' \in Nat
    BY <1>1, EquityThen
  <2> QED BY <2>1, <2>2, PeakIsNatural
<1>3. paused' \in BOOLEAN /\ drawdownOk' \in BOOLEAN
  <2>1. paused' \in {paused, TRUE}
    BY DEF Evaluate
  <2>2. drawdownOk' = ~DrawnDown(runs[r].snapshot)
    BY DEF Evaluate
  <2> QED BY <2>1, <2>2 DEF WInv, TypeOK
<1>4. runs' \in [Runs -> RunType] /\ \A q \in Runs : Under(runs'[q]) /\ Placed(runs'[q])
  <2>1. CASE Reject(r)
    <3>1. Through(r) \in RunType /\ Under(Through(r)) /\ Through(r).pc # "placing"
      BY ThroughIsTyped DEF Evaluate
    <3>2. Placed(Through(r))
      BY <3>1 DEF Placed
    <3>3. runs' = [runs EXCEPT ![r] = Through(r)]
      BY <2>1 DEF Reject
    <3> HIDE DEF Through
    <3> QED BY <3>1, <3>2, <3>3, MovesFine
  <2>2. CASE ~Reject(r)
    <3> DEFINE snapshot == runs[r].snapshot
               sized == [o EXCEPT !.quantity = Size(o, snapshot)]
               first == [runs[r] EXCEPT !.pc = "placing"]
               after == [first EXCEPT !.order = sized]
    <3>1. runs' = [runs EXCEPT ![r].pc = "placing", ![r].order = sized] /\ Approves(o, snapshot)
      BY <2>2 DEF Evaluate
    <3>2. runs[r] \in RunType /\ snapshot \in Snapshots /\ runs[r].left >= 1
      BY DEF WInv, TypeOK, RunType, Pcs, Under, Evaluate
    <3>3. Size(o, snapshot) = o.wanted /\ ~Breached(o, snapshot)
      BY <3>1, <3>2, UnbreachedIsWhole DEF Approves
    <3>4. /\ sized = [price |-> o.price, wanted |-> o.wanted, quantity |-> o.wanted]
          /\ ~Breached(sized, snapshot)
      BY <3>3, SameRequest
    <3>5. sized \in Orders /\ sized.quantity = sized.wanted
      BY <3>4, Numbers DEF Orders, Quantities
    <3> HIDE DEF sized
    <3>6. runs' = [runs EXCEPT ![r] = after]
      BY <3>1, <3>2 DEF WInv, TypeOK
    <3>7. after = [pc |-> "placing", symbol |-> runs[r].symbol, left |-> runs[r].left,
                   snapshot |-> snapshot, order |-> sized]
      <4>1. first = [pc |-> "placing", symbol |-> runs[r].symbol, left |-> runs[r].left,
                     snapshot |-> runs[r].snapshot, order |-> runs[r].order]
        BY <3>2, Updated DEF RunShape, RunType
      <4> HIDE DEF first
      <4> QED BY <4>1, Updated DEF RunShape
    <3> HIDE DEF after
    <3>8. after \in RunType /\ Under(after) /\ Placed(after)
      BY <3>2, <3>4, <3>5, <3>7 DEF RunType, Pcs, Under, Placed
    <3> QED BY <3>6, <3>8, MovesFine
  <2> QED BY <2>1, <2>2
<1> QED BY <1>1, <1>2, <1>3, <1>4 DEF WInv, TypeOK, RunType, Pcs, portfolio

\* What a fill makes of the portfolio.
LEMMA FillPays ==
  ASSUME WInv, NEW r \in Runs, NEW filled \in 0 .. MaxQuantity, NEW price \in Prices,
         Fill(r, filled, price)
  PROVE  LET o == runs[r].order
             s == runs[r].symbol IN
         /\ filled * price \in Nat /\ o.quantity * o.price \in Nat
         /\ filled * price <= o.quantity * o.price
         /\ Paid(filled, price) = (100 + FeePct) * (filled * price) /\ Paid(filled, price) \in Nat
         /\ cash' \in 0 .. StartCash
         /\ quantity' \in [Symbols -> Nat]
         /\ cost' \in [Symbols -> Nat]
         /\ s \in Symbols /\ cost' = [cost EXCEPT ![s] = cost[s] + Paid(filled, price)]
<1> DEFINE o == runs[r].order
           s == runs[r].symbol
<1>1. /\ o \in Orders /\ s \in Symbols
      /\ cash \in 0 .. StartCash /\ quantity \in [Symbols -> Nat] /\ cost \in [Symbols -> Nat]
  BY DEF WInv, TypeOK
<1>2. /\ filled \in Nat /\ price \in Nat /\ o.quantity \in Nat /\ o.price \in Nat
      /\ filled <= o.quantity /\ price <= o.price
  BY <1>1, Numbers DEF Orders, Fill
<1>3. /\ filled * price \in Nat /\ o.quantity * o.price \in Nat
      /\ filled * price <= o.quantity * o.price
      /\ Paid(filled, price) = (100 + FeePct) * (filled * price) /\ Paid(filled, price) \in Nat
      /\ Paid(filled, price) <= Paid(o.quantity, o.price) /\ Paid(o.quantity, o.price) \in Nat
      /\ Paid(o.quantity, o.price) = (100 + FeePct) * (o.quantity * o.price)
  <2>1. PaidWithin(filled, price, o.quantity, o.price)
    <3> HIDE DEF o
    <3> QED BY <1>2, PaidAtMost
  <2> HIDE DEF o
  <2> QED BY <2>1, Zenon DEF PaidWithin
<1>4. Paid(filled, price) <= cash
  <2>1. CASE filled = 0
    <3>1. filled * price = 0 /\ Paid(filled, price) = 0
      BY <1>2, <1>3, <2>1, Numbers
    <3> QED BY <1>1, <3>1, Numbers
  <2>2. CASE filled > 0
    <3>1. Paid(o.quantity, o.price) <= cash
      BY <2>2 DEF Fill
    <3> QED BY <1>1, <1>3, <3>1, Numbers
  <2> QED BY <1>2, <2>1, <2>2
<1>5. /\ cash' = cash - Paid(filled, price)
      /\ quantity' = [quantity EXCEPT ![s] = quantity[s] + filled]
      /\ cost' = [cost EXCEPT ![s] = cost[s] + Paid(filled, price)]
  BY DEF Fill
<1> HIDE DEF s, o
<1>6. cash' \in 0 .. StartCash
  BY <1>1, <1>3, <1>4, <1>5, Numbers
<1>7. quantity' \in [Symbols -> Nat] /\ cost' \in [Symbols -> Nat]
  BY <1>1, <1>2, <1>3, <1>5
<1> QED BY <1>1, <1>3, <1>5, <1>6, <1>7 DEF s, o

LEMMA FillKeepsWhole ==
  ASSUME WInv, NEW r \in Runs, NEW filled \in 0 .. MaxQuantity, NEW price \in Prices,
         Fill(r, filled, price)
  PROVE  WInv'
<1>1. cash' \in 0 .. StartCash /\ quantity' \in [Symbols -> Nat] /\ cost' \in [Symbols -> Nat]
  BY FillPays
<1>2. mark' = mark /\ UNCHANGED switchVars /\ mark' \in [Symbols -> Prices] /\ cash' \in Nat
  BY <1>1, Numbers DEF Fill, WInv, TypeOK
<1>3. peak' \in Nat /\ highest' \in Nat /\ Snapshot' \in Snapshots
  <2>1. UpdateDrawdown /\ TypeOK
    BY DEF Fill, WInv
  <2> QED BY <1>1, <1>2, <2>1, EquityThen, PeakIsNatural
<1> DEFINE snapshot == Snapshot'
           after == [Through(r) EXCEPT !.snapshot = snapshot]
<1>4. runs' = [runs EXCEPT ![r] = after]
  BY DEF Fill, SnapshotAfter
<1>5. Through(r) \in RunType /\ Under(Through(r)) /\ Through(r).pc # "placing"
  BY ThroughIsTyped DEF Fill
<1>6. snapshot \in Snapshots
  BY <1>3
<1> HIDE DEF snapshot, Through
<1>7. after \in RunType /\ Under(after) /\ Placed(after)
  <2>1. after = [pc |-> Through(r).pc, symbol |-> Through(r).symbol, left |-> Through(r).left,
                 snapshot |-> snapshot, order |-> Through(r).order]
    BY <1>5, Updated DEF RunShape, RunType
  <2> HIDE DEF after
  <2> QED BY <1>5, <1>6, <2>1 DEF RunType, Under, Placed
<1> HIDE DEF after
<1>8. runs' \in [Runs -> RunType] /\ \A q \in Runs : Under(runs'[q]) /\ Placed(runs'[q])
  BY <1>4, <1>7, MovesFine
<1> QED BY <1>1, <1>2, <1>3, <1>8 DEF WInv, TypeOK, RunType, Pcs, switchVars

LEMMA RestartKeepsWhole ==
  ASSUME WInv, Restart
  PROVE  WInv'
<1>1. runs' = [r \in Runs |-> Idle(runs[r].symbol)]
  BY DEF Restart
<1>2. \A r \in Runs : Idle(runs[r].symbol) \in RunType /\ Idle(runs[r].symbol).pc = "idle"
  <2>1. NoOrder \in Orders /\ NoSnapshot \in Snapshots
    BY Numbers DEF NoOrder, Orders, Prices, Quantities, NoSnapshot, Snapshots
  <2>2. \A r \in Runs : runs[r].symbol \in Symbols
    BY DEF WInv, TypeOK
  <2> QED BY <2>1, <2>2, Numbers DEF Idle, RunType, Pcs
<1>3. UNCHANGED <<portfolio, mark, highest, peak>> /\ paused' = FALSE /\ drawdownOk' = FALSE
  BY DEF Restart, PeakReloaded
<1> HIDE DEF Idle
<1>4. runs' \in [Runs -> RunType] /\ \A q \in Runs : Under(runs'[q]) /\ Placed(runs'[q])
  BY <1>1, <1>2 DEF Under, Placed
<1> QED BY <1>3, <1>4 DEF WInv, TypeOK, RunType, Pcs, portfolio

LEMMA NextKeepsWhole == WInv /\ [Next]_vars => WInv'
<1> SUFFICES ASSUME WInv, [Next]_vars PROVE WInv'
  OBVIOUS
<1>1. ASSUME NEW r \in Runs, Run(r) PROVE WInv'
  <2>1. CASE \E symbol \in Symbols, found \in 1 .. MaxFound : Begin(r, symbol, found)
    BY <2>1, BeginKeepsWhole
  <2>2. CASE \E last \in Prices, price \in Prices, wanted \in Quantities :
               Evaluate(r, last, [price |-> price, wanted |-> wanted, quantity |-> 0])
    <3>1. PICK last \in Prices, price \in Prices, wanted \in Quantities :
                 Evaluate(r, last, [price |-> price, wanted |-> wanted, quantity |-> 0])
      BY <2>2
    <3>2. [price |-> price, wanted |-> wanted, quantity |-> 0] \in Orders
      BY Numbers DEF Orders
    <3> QED BY <3>1, <3>2, EvaluateKeepsWhole
  <2>3. CASE \E filled \in 0 .. MaxQuantity, price \in Prices : Fill(r, filled, price)
    BY <2>3, FillKeepsWhole
  <2> QED BY <1>1, <2>1, <2>2, <2>3 DEF Run
<1>2. CASE Recover \/ UNCHANGED vars
  <2>1. UNCHANGED <<equityVars, drawdownOk, runs>> /\ paused' \in {paused, FALSE}
    BY <1>2 DEF Recover, vars, switchVars
  <2> QED BY <2>1 DEF WInv, TypeOK, equityVars, portfolio
<1>3. CASE Restart
  BY <1>3, RestartKeepsWhole
<1> QED BY <1>1, <1>2, <1>3 DEF Next

\* Every variable has its type: the cash never falls below zero, as an order is
\* reserved for at its limit and a fill costs no more.
THEOREM TypeCorrect == Spec => []TypeOK
<1>1. WInv => TypeOK
  BY DEF WInv
<1> QED BY <1>1, InitIsWhole, NextKeepsWhole, PTL DEF Spec

\* An approval is for the whole of what was asked, whatever the runs that
\* overlap: the limits reject and never reduce, so that a size of zero, which
\* the engine takes for the size of the request, is never approved
\* (max_allowed_quantity, _execute_opportunity).
THEOREM ApprovalsAreWhole == Spec => []ApprovedWhole
<1>1. WInv => ApprovedWhole
  <2> SUFFICES ASSUME WInv, NEW r \in Runs, runs[r].pc = "placing"
               PROVE  /\ runs[r].order.quantity = runs[r].order.wanted
                      /\ Allowed(runs[r].order, runs[r].snapshot) = runs[r].order.wanted
    BY DEF ApprovedWhole
  <2>1. runs[r].order \in Orders /\ runs[r].snapshot \in Snapshots
    BY DEF WInv, TypeOK
  <2>2. ~Breached(runs[r].order, runs[r].snapshot) /\ runs[r].order.quantity = runs[r].order.wanted
    BY DEF WInv, Placed
  <2> QED BY <2>1, <2>2, UnbreachedIsWhole
<1> QED BY <1>1, InitIsWhole, NextKeepsWhole, PTL DEF Spec

-----------------------------------------------------------------------------
(* The exposure, when runs do not overlap.                                 *)

\* What a run that is under way decides on is the exposure there is.
EInv(r) ==
  /\ WInv
  /\ runs[r].pc # "idle" => runs[r].snapshot.exposure = Exposure

LEMMA SameCost == cost' = cost => Exposure' = Exposure
  BY DEF Exposure

\* A purchase adds what it paid to the exposure.
LEMMA FillAddsExposure ==
  ASSUME WInv, NEW r \in Runs, NEW filled \in 0 .. MaxQuantity, NEW price \in Prices,
         Fill(r, filled, price)
  PROVE  Exposure' = Exposure + Paid(filled, price)
<1> DEFINE s == runs[r].symbol
           paid == Paid(filled, price)
<1>1. /\ paid \in Nat /\ s \in Symbols /\ cost' \in [Symbols -> Nat]
      /\ cost' = [cost EXCEPT ![s] = cost[s] + paid] /\ cost \in [Symbols -> Nat]
  BY FillPays DEF WInv, TypeOK
<1> HIDE DEF s, paid
<1>2. \A t \in Symbols \ {s} : cost'[t] = cost[t]
  BY <1>1
<1>3. cost[s] \in Nat /\ cost'[s] = cost[s] + paid
  BY <1>1
<1>4. SumFunctionOnSet(cost', Symbols) = SumFunctionOnSet(cost, Symbols) - cost[s] + cost'[s]
  <2>1. IsFiniteSet(Symbols)
    BY LimitsAssumption
  <2>2. (\A t \in Symbols : cost[t] \in Int) /\ (\A t \in Symbols : cost'[t] \in Int)
    BY <1>1
  <2> DEFINE f == cost
             h == cost'
  <2>3. /\ s \in Symbols /\ \A t \in Symbols \ {s} : h[t] = f[t]
        /\ (\A t \in Symbols : f[t] \in Int) /\ (\A t \in Symbols : h[t] \in Int)
    BY <1>1, <1>2, <2>2
  <2> HIDE DEF f, h
  <2>4. SumFunctionOnSet(h, Symbols) = SumFunctionOnSet(f, Symbols) - f[s] + h[s]
    BY <2>1, <2>3, SumOfUpdate
  <2> QED BY <2>4 DEF f, h
<1>5. Exposure = SumFunctionOnSet(cost, Symbols) /\ Exposure \in Nat
  BY <1>1, ExposureIsNatural DEF Exposure
<1>6. Exposure' = SumFunctionOnSet(cost', Symbols)
  BY <1>1, ExposureIsNatural DEF Exposure
<1> QED BY <1>1, <1>3, <1>4, <1>5, <1>6 DEF paid

LEMMA RunKeepsExposure ==
  ASSUME NEW r \in Runs, EInv(r), Run(r)
  PROVE  runs'[r].pc # "idle" => runs'[r].snapshot.exposure = Exposure'
<1>0. WInv /\ Shape
  <2>1. WInv /\ runs \in [Runs -> RunType]
    BY DEF EInv, WInv, TypeOK, RunType, Pcs
  <2> QED BY <2>1 DEF Shape, RunShape, SnapshotShape, RunType, Snapshots
<1>1. CASE \E symbol \in Symbols, found \in 1 .. MaxFound : Begin(r, symbol, found)
  <2>1. PICK symbol \in Symbols, found \in 1 .. MaxFound : Begin(r, symbol, found)
    BY <1>1
  <2>2. GoneOn(r, {"evaluating"}, Snapshot) /\ Snapshot.exposure = Exposure
    BY <1>0, <2>1, BeginGoesOn DEF Snapshot
  <2>3. Exposure' = Exposure
    BY <2>1, SameCost DEF Begin, equityVars, portfolio
  <2> QED BY <2>2, <2>3 DEF GoneOn
<1>2. CASE \E last \in Prices, price \in Prices, wanted \in Quantities :
             Evaluate(r, last, [price |-> price, wanted |-> wanted, quantity |-> 0])
  <2>1. PICK last, o : Evaluate(r, last, o)
    BY <1>2
  <2>2. /\ runs[r].pc = "evaluating"
        /\ \/ GoneOn(r, {"evaluating", "idle"}, runs[r].snapshot)
           \/ GoneOn(r, {"placing"}, runs[r].snapshot)
    BY <1>0, <2>1, EvaluateGoesOn
  <2>3. Exposure' = Exposure
    BY <2>1, SameCost DEF Evaluate, portfolio
  <2> QED BY <2>2, <2>3 DEF GoneOn, EInv
<1>3. CASE \E filled \in 0 .. MaxQuantity, price \in Prices : Fill(r, filled, price)
  <2>1. PICK filled, price : Fill(r, filled, price)
    BY <1>3
  <2>2. GoneOn(r, {"evaluating", "idle"}, Snapshot')
    BY <1>0, <2>1, FillGoesOn
  <2>3. Snapshot'.exposure = Exposure'
    BY DEF Snapshot
  <2> QED BY <2>2, <2>3 DEF GoneOn
<1> QED BY <1>1, <1>2, <1>3 DEF Run

\* With one run at a time, a fill leaves no more exposure than the percentage of
\* the equity it was approved on, but for its own fee
\* (PositionLimitCalculator.evaluate, with the snapshot that run_once refreshes
\* after a fill).
THEOREM ExposureStaysWithin ==
  ASSUME NEW one, Runs = {one}
  PROVE  Spec => ExposureWithinLimit
<1>1. Init => EInv(one)
  <2> SUFFICES ASSUME Init PROVE EInv(one)
    OBVIOUS
  <2>1. PICK symbol \in Symbols : runs = [q \in Runs |-> Idle(symbol)]
    BY DEF Init
  <2>2. runs[one].pc = "idle"
    BY <2>1 DEF Idle
  <2> QED BY <2>2, InitIsWhole DEF EInv
<1>2. EInv(one) /\ [Next]_vars => EInv(one)'
  <2> SUFFICES ASSUME EInv(one), [Next]_vars PROVE EInv(one)'
    OBVIOUS
  <2>1. WInv'
    BY NextKeepsWhole DEF EInv
  <2>2. CASE \E q \in Runs : Run(q)
    BY <2>1, <2>2, RunKeepsExposure DEF EInv
  <2>3. CASE Recover \/ UNCHANGED vars
    <3>1. cost' = cost /\ runs' = runs
      BY <2>3 DEF Recover, vars, equityVars, portfolio
    <3> QED BY <2>1, <3>1, SameCost DEF EInv
  <2>4. CASE Restart
    <3>1. runs'[one].pc = "idle"
      BY <2>4 DEF Restart, Idle
    <3> QED BY <2>1, <3>1 DEF EInv
  <2> QED BY <2>2, <2>3, <2>4 DEF Next
<1>3. EInv(one) /\ [Next]_vars =>
        [\A r \in Runs : runs[r].pc = "placing" /\ cost # cost' =>
           100 * Exposure' <= MaxExposurePct * runs[r].snapshot.equity
                                + 100 * FeePct * runs[r].order.quantity * runs[r].order.price]_vars
  <2> SUFFICES ASSUME EInv(one), Next, runs[one].pc = "placing", cost # cost'
               PROVE  100 * Exposure' <= MaxExposurePct * runs[one].snapshot.equity
                                  + 100 * FeePct * runs[one].order.quantity * runs[one].order.price
    OBVIOUS
  <2>1. PICK filled \in 0 .. MaxQuantity, price \in Prices : Fill(one, filled, price)
    <3>1. ~Recover /\ ~Restart
      BY DEF Recover, Restart, equityVars, portfolio
    <3>2. Run(one)
      BY <3>1 DEF Next
    <3> QED BY <3>2 DEF Run, Begin, Evaluate, equityVars, portfolio
  <2> DEFINE o == runs[one].order
             e == MaxExposurePct * runs[one].snapshot.equity
             x == Exposure
             a == filled * price
             b == o.quantity * o.price
  <2>2. WInv /\ runs[one].snapshot.exposure = x
    BY DEF EInv
  <2>3. /\ a \in Nat /\ b \in Nat /\ a <= b
        /\ Exposure' = x + (100 + FeePct) * a
    BY <2>1, <2>2, FillPays, FillAddsExposure
  <2>4. /\ o \in Orders /\ e \in Nat /\ x \in Nat /\ o.quantity \in Nat \ {0} /\ o.price \in Nat \ {0}
        /\ o.wanted = o.quantity /\ ~Breached(o, runs[one].snapshot)
    <3>1. o \in Orders /\ runs[one].snapshot.equity \in Nat /\ runs[one].snapshot.exposure \in Nat
      BY <2>2 DEF WInv, TypeOK, Snapshots
    <3>2. o.wanted = o.quantity /\ ~Breached(o, runs[one].snapshot)
      BY <2>2 DEF WInv, Placed
    <3>3. o.wanted \in Nat \ {0} /\ o.price \in Nat \ {0}
      BY <3>1, Numbers DEF Orders
    <3> QED BY <2>2, <3>1, <3>2, <3>3, Numbers
  <2>5. 100 * (100 * b) <= e - 100 * x
    <3>1. Requested(o) = 100 * b /\ b >= 1
      <4> DEFINE q == o.quantity
                 p == o.price
      <4>1. Requested(o) = 100 * q * p
        BY <2>4 DEF Requested
      <4>2. q \in Nat \ {0} /\ p \in Nat \ {0}
        BY <2>4
      <4> HIDE DEF q, p
      <4>3. 100 * q * p = 100 * (q * p) /\ q * p >= 1
        BY <4>2
      <4> QED BY <4>1, <4>3 DEF q, p
    <3>2. Remaining(runs[one].snapshot) = IF e > 100 * x THEN e - 100 * x ELSE 0
      BY <2>2 DEF Remaining
    <3>3. ~(100 * Requested(o) > Remaining(runs[one].snapshot))
      BY <2>4 DEF Breached
    <3> HIDE DEF b, e, x
    <3> QED BY <2>3, <2>4, <3>1, <3>2, <3>3
  <2>6. FeePct \in Nat /\ FeePct * a \in Nat /\ FeePct * a <= FeePct * b
    <3>1. FeePct \in Nat /\ b - a \in Nat
      BY <2>3, Numbers
    <3> HIDE DEF a, b
    <3>2. FeePct * (b - a) \in Nat /\ FeePct * b = FeePct * a + FeePct * (b - a) /\ FeePct * a \in Nat
      BY <2>3, <3>1
    <3> QED BY <2>3, <3>1, <3>2
  <2>7. 100 * FeePct * o.quantity * o.price = 100 * (FeePct * b)
    BY <2>4, <2>6
  <2> HIDE DEF o, e, x, a, b
  <2>8. 100 * Exposure' <= e + 100 * (FeePct * b)
    <3>1. 100 * Exposure' = 100 * x + 10000 * a + 100 * (FeePct * a)
      BY <2>3, <2>4, <2>6
    <3>2. FeePct * b \in Nat
      BY <2>3, <2>6
    <3> QED BY <2>3, <2>4, <2>5, <2>6, <3>1, <3>2
  <2> QED BY <2>7, <2>8 DEF o, e
<1>4. Spec =>
        [][\A r \in Runs : runs[r].pc = "placing" /\ cost # cost' =>
           100 * Exposure' <= MaxExposurePct * runs[r].snapshot.equity
                                + 100 * FeePct * runs[r].order.quantity * runs[r].order.price]_vars
  BY <1>1, <1>2, <1>3, PTL DEF Spec
<1> QED BY <1>4, PTL DEF ExposureWithinLimit

=============================================================================
