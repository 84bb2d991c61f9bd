------------------------- MODULE PerformanceTracker -------------------------
(***************************************************************************)
(* What the paper session knows of itself (bot/paper/tracker.py): every    *)
(* opportunity with its fate, the trades, the totals, the statistics by    *)
(* pair of exchanges and by day, and how the runner feeds them             *)
(* (_ingest_cycle of bot/paper/runner.py) and the store keeps them         *)
(* (bot/paper/store.py).                                                   *)
(*                                                                         *)
(* A run of the engine fills orders one after another, and what it did     *)
(* reaches the tracker when it has ended, if it does; the portfolio has    *)
(* each fill at once.  Of the portfolio the equity, its drawdown and the   *)
(* fees are kept; a fill costs one unit of fees, and volume is treated     *)
(* as fees are.  The statistics by strategy and by hour are kept by the    *)
(* same statements as those by pair, which stand for all three.            *)
(***************************************************************************)
EXTENDS Integers, Sequences, FiniteSets, SequencesExt

CONSTANTS
  Tasks,             \* loop tasks; one, unless starts have raced (PaperSession)
  Pairs,             \* of exchanges, to buy at and to sell at
  StartingEquity,
  MaxEquity,         \* bound: the equity moves below it
  MaxTracked,        \* bound: opportunities tracked by a session and its run
  MaxFees,           \* bound: fees ever paid
  MaxDays,           \* bound: days of the session
  None

ASSUME TrackerAssumption ==
  /\ MaxEquity \in Nat \ {0}
  /\ StartingEquity \in 1 .. MaxEquity
  /\ MaxTracked \in Nat /\ MaxFees \in Nat /\ MaxDays \in Nat \ {0}

Equities == 1 .. MaxEquity

VARIABLES
  portfolio,  \* the equity, its peak and worst drawdown, and the fees paid
  runs,       \* of each loop: the results of the run under way, or None
  tracker,
  today,
  file        \* the session file: portfolio and tracker, or None

trackerVars == <<portfolio, runs, tracker, today, file>>

\* What becomes of an opportunity: rejected by the risk engine, or executed.
\* A fill is a gain or not by what its sale would bring.
Fills == {"gain", "even", "loss"}
Executions == {"failed", "resting"} \cup Fills
Outcomes == {"rejected"} \cup Executions

\* _estimate_realized: the proceeds of a sale at the quoted price, less the
\* cost of the fills.  The arbitrage strategy always quotes such a price.
EstimateRealized(outcome) ==
  CASE outcome = "gain" -> 1 [] outcome = "even" -> 0 [] outcome = "loss" -> -1

NoStats ==
  [opportunities |-> 0, approved |-> 0, executed |-> 0, failures |-> 0,
   trades |-> 0, wins |-> 0, net |-> 0]

\* `worst` is the maximum drawdown, `days` are sorted by date.
NewTracker ==
  [opportunities |-> <<>>, approved |-> 0, rejected |-> 0, executed |-> 0, failures |-> 0,
   fees |-> 0, pnls |-> <<>>, realized |-> 0, pairs |-> [p \in Pairs |-> NoStats],
   equity |-> StartingEquity, peak |-> StartingEquity, worst |-> 0, days |-> <<>>]

NewPortfolio == [equity |-> StartingEquity, fees |-> 0, peak |-> StartingEquity, worst |-> 0]

Larger(a, b) == IF a > b THEN a ELSE b

\* In percent.
Drawdown(peak, equity) == (100 * (peak - equity)) \div peak

\* _update_drawdown, whenever a mark or a fill has changed the equity.
Valued(p, equity) ==
  LET peak == Larger(p.peak, equity)
  IN  [p EXCEPT !.equity = equity, !.peak = peak,
                !.worst = Larger(@, Drawdown(peak, equity))]

-----------------------------------------------------------------------------
(* The life of an opportunity.  All three are called for one after the     *)
(* other, so that the opportunity in question is the last one.             *)

SetStatus(t, status) ==
  [t EXCEPT !.opportunities[Len(t.opportunities)].status = status]

RecordDetected(t, o) ==
  [t EXCEPT !.opportunities = Append(@, [pair |-> o.pair, status |-> "DETECTED"]),
            !.pairs[o.pair].opportunities = @ + 1]

RecordRisk(t, o) ==
  IF o.outcome = "rejected"
  THEN [SetStatus(t, "REJECTED") EXCEPT !.rejected = @ + 1]
  ELSE [SetStatus(t, "APPROVED") EXCEPT !.approved = @ + 1, !.pairs[o.pair].approved = @ + 1]

RegisterTrade(t, o, realized) ==
  [SetStatus(t, IF realized > 0 THEN "PROFITABLE" ELSE "UNPROFITABLE") EXCEPT
     !.pnls = Append(@, realized),
     !.realized = @ + realized,
     !.pairs[o.pair].trades = @ + 1,
     !.pairs[o.pair].net = @ + realized,
     !.pairs[o.pair].wins = IF realized > 0 THEN @ + 1 ELSE @]

RecordExecution(t, o) ==
  LET executed == [SetStatus(t, "EXECUTED") EXCEPT !.executed = @ + 1,
                                                   !.pairs[o.pair].executed = @ + 1]
  IN  CASE o.outcome = "failed" -> [executed EXCEPT !.failures = @ + 1,
                                                    !.pairs[o.pair].failures = @ + 1]
        [] o.outcome = "resting" -> executed
        [] o.outcome \in Fills -> RegisterTrade([executed EXCEPT !.fees = @ + 1], o,
                                                EstimateRealized(o.outcome))

Record(t, o) ==
  LET judged == RecordRisk(RecordDetected(t, o), o)
  IN  IF o.outcome = "rejected" THEN judged ELSE RecordExecution(judged, o)

-----------------------------------------------------------------------------
(* The portfolio's figures.                                                *)

\* Mutant: a day starts with what the last one started with.
StartOfLast(t, equity) == IF t.days = <<>> THEN StartingEquity ELSE Last(t.days).start

\* A day starts with what the last one ended with.
StartOfDay(t, equity) == IF t.days = <<>> THEN StartingEquity ELSE Last(t.days).end

\* _roll_daily; the trades of a day are those of the session so far.
RollDaily(t, equity, date) ==
  LET new == t.days = <<>> \/ Last(t.days).date # date
      start == IF new THEN StartOfDay(t, equity) ELSE Last(t.days).start
      day == [date |-> date, start |-> start, end |-> equity, net |-> equity - start,
              trades |-> Len(t.pnls)]
  IN  [t EXCEPT !.days = IF new THEN Append(@, day) ELSE Append(Front(@), day)]

\* Mutant: the fees are those of the executions that were recorded.
FeesRecorded(t, p) == t.fees

\* "Prefer portfolio accounting for fees/volume when available."
FeesKnown(t, p) == Larger(t.fees, p.fees)

\* Mutant: the tracker only knows the drawdowns it has seen.
WorstSeen(t, p, drawdown) == Larger(t.worst, drawdown)

\* The worse of what the tracker has seen and the portfolio has been through.
WorstKnown(t, p, drawdown) == Larger(Larger(t.worst, drawdown), p.worst)

\* sync_portfolio.  The portfolio realizes nothing, as nothing is sold.
SyncPortfolio(t, p, date) ==
  LET peak == Larger(t.peak, p.equity)
  IN  RollDaily([t EXCEPT !.equity = p.equity, !.fees = FeesKnown(t, p), !.peak = peak,
                          !.worst = WorstKnown(t, p, Drawdown(peak, p.equity))],
                p.equity, date)

-----------------------------------------------------------------------------
(* The runner and the store.                                               *)

Running(l) == runs[l] # None

BeginRun(l) ==
  /\ ~Running(l)
  /\ runs' = [runs EXCEPT ![l] = <<>>]
  /\ UNCHANGED <<portfolio, tracker, today, file>>

\* The next opportunity of a run: its market moves the marks and a fill changes
\* the portfolio, so that the equity may change twice.
Evaluate(l, pair, outcome) ==
  /\ Running(l) /\ Len(tracker.opportunities) + Len(runs[l]) < MaxTracked
  /\ outcome \in Fills => portfolio.fees < MaxFees
  /\ runs' = [runs EXCEPT ![l] = Append(@, [pair |-> pair, outcome |-> outcome])]
  /\ \E marked, equity \in Equities :
       portfolio' = [Valued(Valued(portfolio, marked), equity) EXCEPT
                       !.fees = @ + IF outcome \in Fills THEN 1 ELSE 0]
  /\ UNCHANGED <<tracker, today, file>>

Ingested(results) == SyncPortfolio(FoldLeft(Record, tracker, results), portfolio, today)

\* _ingest_cycle; every fifth cycle ends with a save.
EndRun(l) ==
  /\ Running(l)
  /\ runs' = [runs EXCEPT ![l] = None]
  /\ tracker' = Ingested(runs[l])
  /\ file' = [portfolio |-> portfolio, tracker |-> tracker'] \/ UNCHANGED file
  /\ UNCHANGED <<portfolio, today>>

\* The run raises or is cancelled, and its results with it.
LoseRun(l) ==
  /\ Running(l)
  /\ runs' = [runs EXCEPT ![l] = None]
  /\ UNCHANGED <<portfolio, tracker, today, file>>

\* start, stop and shutdown
SaveSession ==
  /\ \A l \in Tasks : ~Running(l)
  /\ file' = [portfolio |-> portfolio, tracker |-> tracker]
  /\ UNCHANGED <<portfolio, runs, tracker, today>>

\* reset, of a session whose loop has been stopped
Reset ==
  /\ \A l \in Tasks : ~Running(l)
  /\ portfolio' = NewPortfolio
  /\ tracker' = NewTracker
  /\ file' = [portfolio |-> NewPortfolio, tracker |-> NewTracker]
  /\ UNCHANGED <<runs, today>>

\* Mutant: the statistics by pair are not brought back.
ImportedNoPairs(saved) ==
  [opportunities |-> saved.opportunities, approved |-> saved.approved,
   rejected |-> saved.rejected, executed |-> saved.executed, failures |-> saved.failures,
   fees |-> saved.fees, pnls |-> saved.pnls, realized |-> saved.realized,
   pairs |-> NewTracker.pairs, equity |-> saved.equity, peak |-> saved.peak,
   worst |-> saved.worst, days |-> saved.days]

\* import_state, of the exact decimals that export_state wrote.
Imported(saved) ==
  [opportunities |-> saved.opportunities, approved |-> saved.approved,
   rejected |-> saved.rejected, executed |-> saved.executed, failures |-> saved.failures,
   fees |-> saved.fees, pnls |-> saved.pnls, realized |-> saved.realized,
   pairs |-> saved.pairs, equity |-> saved.equity, peak |-> saved.peak,
   worst |-> saved.worst, days |-> saved.days]

\* load
Reloaded(saved) == SyncPortfolio(Imported(saved.tracker), saved.portfolio, today)

\* The process dies and another one loads the session.
Restart ==
  /\ runs' = [l \in Tasks |-> None]
  /\ UNCHANGED <<today, file>>
  /\ IF file = None
     THEN portfolio' = NewPortfolio /\ tracker' = NewTracker
     ELSE portfolio' = file.portfolio /\ tracker' = Reloaded(file)

Midnight ==
  /\ today < MaxDays
  /\ today' = today + 1
  /\ UNCHANGED <<portfolio, runs, tracker, file>>

TrackerInit ==
  /\ portfolio = NewPortfolio
  /\ runs = [l \in Tasks |-> None]
  /\ tracker = NewTracker
  /\ today = 1
  /\ file = None

TrackerNext ==
  \/ \E l \in Tasks :
       \/ BeginRun(l) \/ EndRun(l) \/ LoseRun(l)
       \/ \E pair \in Pairs, outcome \in Outcomes : Evaluate(l, pair, outcome)
  \/ SaveSession \/ Reset \/ Restart \/ Midnight

TrackerSpec == TrackerInit /\ [][TrackerNext]_trackerVars

-----------------------------------------------------------------------------
(* Properties.                                                             *)

Statuses == {"DETECTED", "REJECTED", "APPROVED", "EXECUTED", "PROFITABLE", "UNPROFITABLE"}
Counts == 0 .. MaxTracked
Stats ==
  [opportunities : Counts, approved : Counts, executed : Counts, failures : Counts,
   trades : Counts, wins : Counts, net : -MaxTracked .. MaxTracked]
Days ==
  [date : 1 .. MaxDays, start : Equities, end : Equities, net : -MaxEquity .. MaxEquity,
   trades : Counts]

Portfolios == [equity : Equities, fees : 0 .. MaxFees, peak : Equities, worst : 0 .. 100]

Trackers ==
  [opportunities : Seq([pair : Pairs, status : Statuses]),
   approved : Counts, rejected : Counts, executed : Counts, failures : Counts,
   fees : 0 .. MaxFees + MaxTracked, pnls : Seq({-1, 0, 1}), realized : -MaxTracked .. MaxTracked,
   pairs : [Pairs -> Stats], equity : Equities, peak : Equities, worst : 0 .. 100,
   days : Seq(Days)]

\* The types of the state.
TrackerTypeOK ==
  /\ portfolio \in Portfolios
  /\ \A l \in Tasks : Running(l) => runs[l] \in Seq([pair : Pairs, outcome : Outcomes])
  /\ tracker \in Trackers
  /\ today \in 1 .. MaxDays
  /\ file # None => file.portfolio \in Portfolios /\ file.tracker \in Trackers

TradeStatuses == {"PROFITABLE", "UNPROFITABLE"}

Having(statuses) == {i \in DOMAIN tracker.opportunities : tracker.opportunities[i].status \in statuses}

Of(pair) == {i \in DOMAIN tracker.opportunities : tracker.opportunities[i].pair = pair}

SumOf(seq) == FoldLeft(LAMBDA a, b : a + b, 0, seq)

\* The totals, the statistics by pair and the list of trades tell of the same
\* opportunities, over runs that fail, saves and restarts: every opportunity
\* is approved or rejected, every approved one executed, every filled one a
\* trade, in its pair as in the totals (record_detected, record_risk,
\* record_execution, _register_trade, import_state).
TotalsAgree ==
  LET t == tracker IN
    /\ Len(t.opportunities) = t.approved + t.rejected
    /\ t.rejected = Cardinality(Having({"REJECTED"}))
    /\ t.executed = t.approved
    /\ t.executed = Len(t.pnls) + Cardinality(Having({"EXECUTED"}))
    /\ t.failures <= Cardinality(Having({"EXECUTED"}))
    /\ t.realized = SumOf(t.pnls)
    /\ \A p \in Pairs :
         /\ t.pairs[p].opportunities = Cardinality(Of(p))
         /\ t.pairs[p].executed = Cardinality(Of(p) \ Having({"REJECTED"}))
         /\ t.pairs[p].trades = Cardinality(Of(p) \cap Having(TradeStatuses))
         /\ t.pairs[p].wins = Cardinality(Of(p) \cap Having({"PROFITABLE"}))

\* The tracker never knows of more fees than the portfolio has paid, and of
\* exactly these once it has ingested a run, whatever runs were lost before
\* (record_execution and sync_portfolio both write them).
FeesAgree ==
  [][/\ tracker'.fees <= portfolio'.fees
     /\ Len(tracker'.opportunities) > Len(tracker.opportunities)
          => tracker'.fees = portfolio'.fees]_trackerVars

\* The tracker never reports a worse drawdown than the portfolio has been through,
\* and just the worst it has been through once it has ingested a run: falls that
\* recovered within a run, that lost runs left behind, and that came before a
\* restart count (_update_drawdown, sync_portfolio, load).
DrawdownsAgree ==
  [][/\ tracker'.worst <= portfolio'.worst
     /\ Len(tracker'.opportunities) > Len(tracker.opportunities)
          => tracker'.worst = portfolio'.worst]_trackerVars

\* The results of the days add up to the result of the session, with nights
\* in the middle of a run, days without a cycle, and restarts (_roll_daily).
DaysAddUp ==
  tracker.days # <<>> =>
    SumOf([i \in DOMAIN tracker.days |-> tracker.days[i].net]) = tracker.equity - StartingEquity

\* "New day: seed from current equity." (_roll_daily, tracker.py)
DaysStartAfresh ==
  [][Len(tracker'.days) > Len(tracker.days)
       => Last(tracker'.days).start = tracker'.equity]_trackerVars

\* The trades of the days add up to those of the session ("Persisted daily
\* rollup", bot/paper/models.py).
DaysCountTheirTrades ==
  tracker.days # <<>> =>
    SumOf([i \in DOMAIN tracker.days |-> tracker.days[i].trades]) <= Len(tracker.pnls)

\* What is reported as realized has been: the engine has only bought, so it
\* is nothing ("Never fabricates values", tracker.py).
RealizedIsReal == tracker.realized = 0
=============================================================================
