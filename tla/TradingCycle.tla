---------------------------- MODULE TradingCycle ----------------------------
(***************************************************************************)
(* One run of the trading engine after another (run_once of                *)
(* bot/engine/orchestrator.py) over books that go on changing: the         *)
(* snapshots of all venues taken at its start, the opportunities the       *)
(* arbitrage strategy finds in them, and, for each in turn, the check of   *)
(* the risk engine, the book chosen for its execution and the latency of   *)
(* the executor.                                                           *)
(*                                                                         *)
(* The run and the feeds share an event loop.  The run suspends in the     *)
(* executor's latency and when the pausing of the kill switch is recorded; *)
(* books change, and grow older, then and between runs.  Prices and        *)
(* quantities are left out: which opportunities there are, and what else   *)
(* the risk engine has against them, is left open.                         *)
(***************************************************************************)
EXTENDS Integers, FiniteSets

CONSTANTS
  Venues,
  Symbols,
  MaxAge,    \* max_market_data_age_ms
  Oldest,    \* bound: ages are told apart up to here
  NoOrder

ASSUME CycleAssumption ==
  /\ MaxAge \in Nat /\ Oldest \in Nat /\ MaxAge < Oldest

Ages == 0 .. Oldest

Older(age) == IF age < Oldest THEN age + 1 ELSE age

Books == [synced : BOOLEAN, age : Ages]

\* An opportunity is the venue to buy at and the one to sell at.
Pairs == {p \in Venues \X Venues : p[1] # p[2]}

\* An order in its latency: its opportunity and the age of the book it holds.
Orders == [pair : Pairs, age : Ages]

VARIABLES
  books,       \* the local books of every venue and symbol
  paused,      \* the kill switch blocks new orders
  pc,          \* where the run is
  symbol,      \* the symbol of the run
  snapshots,   \* the ages of the valid books when the run began, by venue
  since,       \* the time since then
  left,        \* opportunities the run has not come to
  order        \* the order in its latency

runVars == <<pc, symbol, snapshots, since, left, order>>
cycleVars == <<books, paused, runVars>>

-----------------------------------------------------------------------------
(* What the market-data service says of the books.                         *)

\* Mutant: the age of a book is left to the strategy.
ValidUnaged(v, s) == books[v][s].synced

\* get_valid_order_book
Valid(v, s) == books[v][s].synced /\ books[v][s].age <= MaxAge

\* get_exchange_health and build_risk_context: one synchronized book that is
\* fresh is enough.
Healthy(v) == \E s \in Symbols : Valid(v, s)

-----------------------------------------------------------------------------
(* The feeds, while the run is suspended.                                  *)

Suspended == pc \in {"idle", "recording", "placing"}

Update(v, s) ==
  /\ Suspended
  /\ books' = [books EXCEPT ![v][s] = [synced |-> TRUE, age |-> 0]]
  /\ UNCHANGED <<paused, runVars>>

Desync(v, s) ==
  /\ Suspended
  /\ books' = [books EXCEPT ![v][s].synced = FALSE]
  /\ UNCHANGED <<paused, runVars>>

\* Time passes.  The age at the start of a run stays what it was.
Tick ==
  /\ Suspended
  /\ books' = [v \in Venues |-> [s \in Symbols |->
                 [books[v][s] EXCEPT !.age = Older(@)]]]
  /\ since' = IF pc = "idle" THEN since ELSE Older(since)
  /\ order' = IF order = NoOrder THEN NoOrder ELSE [order EXCEPT !.age = Older(@)]
  /\ UNCHANGED <<paused, pc, symbol, snapshots, left>>

\* An operator pauses or recovers.
Operator ==
  /\ Suspended
  /\ paused' = ~paused
  /\ UNCHANGED <<books, runVars>>

-----------------------------------------------------------------------------
(* The run.                                                                *)

ValidVenues(s) == {v \in Venues : Valid(v, s)}

\* The snapshots are taken and the strategy finds its opportunities in them.
\* Without two venues it finds none.
Begin(s) ==
  /\ pc = "idle"
  /\ ValidVenues(s) # {}
  /\ symbol' = s
  /\ snapshots' = [v \in ValidVenues(s) |-> books[v][s].age]
  /\ since' = 0
  /\ left' \in SUBSET {p \in Pairs : {p[1], p[2]} \subseteq ValidVenues(s)}
  /\ pc' = "evaluating"
  /\ UNCHANGED <<books, paused, order>>

\* No opportunity is left.
End ==
  /\ pc = "evaluating" /\ left = {}
  /\ pc' = "idle"
  /\ since' = 0
  /\ UNCHANGED <<books, paused, symbol, snapshots, left, order>>

Remaining(p) == left \ {p}

\* Rejected: by the kill switch, or by a check that is not about the books.
Reject(p) ==
  /\ pc = "evaluating" /\ p \in left
  /\ left' = Remaining(p)
  /\ UNCHANGED <<books, paused, pc, symbol, snapshots, since, order>>

\* Rejected because the venue to buy at is not healthy, which pauses trading.
RejectUnhealthy(p) ==
  /\ pc = "evaluating" /\ p \in left
  /\ ~paused /\ ~Healthy(p[1])
  /\ paused' = TRUE
  /\ left' = Remaining(p)
  /\ pc' = "recording"
  /\ UNCHANGED <<books, symbol, snapshots, since, order>>

Recorded ==
  /\ pc = "recording"
  /\ pc' = "evaluating"
  /\ UNCHANGED <<books, paused, symbol, snapshots, since, left, order>>

Approved(p) == ~paused /\ Healthy(p[1])

\* _resolve_execution_book: the valid book, else the snapshot's.  Its age is
\* that of the snapshot and the time since.
AgedSnapshot(v) == IF snapshots[v] + since < Oldest THEN snapshots[v] + since ELSE Oldest

ExecutionBook(v) ==
  IF Valid(v, symbol) THEN books[v][symbol].age ELSE AgedSnapshot(v)

\* Approved, and sent to the executor.
Place(p) ==
  /\ pc = "evaluating" /\ p \in left
  /\ Approved(p)
  /\ order' = [pair |-> p, age |-> ExecutionBook(p[1])]
  /\ left' = Remaining(p)
  /\ pc' = "placing"
  /\ UNCHANGED <<books, paused, symbol, snapshots, since>>

\* The latency is over and the order filled from the book it holds.
Fill ==
  /\ pc = "placing"
  /\ order' = NoOrder
  /\ pc' = "evaluating"
  /\ UNCHANGED <<books, paused, symbol, snapshots, since, left>>

-----------------------------------------------------------------------------

CycleInit ==
  /\ books = [v \in Venues |-> [s \in Symbols |-> [synced |-> FALSE, age |-> 0]]]
  /\ paused = FALSE
  /\ pc = "idle"
  /\ symbol \in Symbols
  /\ snapshots = [v \in {} |-> 0]
  /\ since = 0
  /\ left = {}
  /\ order = NoOrder

Run ==
  \/ \E s \in Symbols : Begin(s)
  \/ \E p \in Pairs : Reject(p) \/ RejectUnhealthy(p) \/ Place(p)
  \/ Recorded \/ Fill \/ End

CycleNext ==
  \/ \E v \in Venues, s \in Symbols : Update(v, s) \/ Desync(v, s)
  \/ Tick \/ Operator
  \/ Run

CycleSpec == CycleInit /\ [][CycleNext]_cycleVars

-----------------------------------------------------------------------------
(* Properties.                                                             *)

\* Every variable has its type.
CycleTypeOK ==
  /\ books \in [Venues -> [Symbols -> Books]]
  /\ paused \in BOOLEAN
  /\ pc \in {"idle", "evaluating", "recording", "placing"}
  /\ symbol \in Symbols
  /\ DOMAIN snapshots \subseteq Venues
  /\ \A v \in DOMAIN snapshots : snapshots[v] \in Ages
  /\ since \in Ages
  /\ left \subseteq Pairs
  /\ order \in Orders \cup {NoOrder}

\* Whatever happens between the opportunities of a run, no order holds a book
\* that was invalid when the run began: its age is at most MaxAge and the time
\* the run has taken.
AgeBounded == order # NoOrder => order.age <= MaxAge + since

\* An order is placed on a book of the venue it buys at that is valid by then
\* ("Skips new trades when market data is stale/unsynchronized", runner.py).
BuysOnValidBook ==
  [][order = NoOrder /\ order' # NoOrder => Valid(order'.pair[1], symbol)]_cycleVars

\* An order is placed only while the book of the venue it counts on selling at
\* is valid too.
SellsOnValidBook ==
  [][order = NoOrder /\ order' # NoOrder => Valid(order'.pair[2], symbol)]_cycleVars
=============================================================================
