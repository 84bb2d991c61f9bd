----------------------------- MODULE RiskEngine -----------------------------
(***************************************************************************)
(* RiskEngine.evaluate (bot/risk/risk_engine.py) over the kill switch, the *)
(* runner that calls it, and the operator who calls the kill switch.       *)
(*                                                                         *)
(* The checks of evaluate are kept in their order.  Those that look at the *)
(* market and the portfolio (`market`: the probes that are good) also feed *)
(* the recovery conditions and pause the switch; those that look at one    *)
(* opportunity (`faults`: the checks it fails) only reject it.             *)
(*                                                                         *)
(* A cycle of the runner starts only while the switch lets orders through. *)
(* Its remaining opportunities are evaluated even when one of them, or the *)
(* operator between two of them, blocks the switch.                        *)
(***************************************************************************)
EXTENDS KillSwitch, Sequences

CONSTANTS
  Faults,      \* the sets of checks an opportunity may fail
  MaxTrades,   \* settings.max_trades_per_minute
  Window,      \* the minute, in ticks of the clock
  MaxTime,     \* bound: ticks in one run
  CycleSize    \* bound: opportunities in one cycle of the runner

EarlyChecks == {"leverage", "not_profitable"}
FeedProbes == {"exchange_healthy", "market_data_fresh"}
MiddleChecks == {"latency", "slippage", "liquidity", "price_move"}
LossProbes == {"daily_loss_ok", "drawdown_ok"}
PositionsCheck == {"open_positions"}
SizeChecks == {"position_size", "position_percent", "exposure"}

ASSUME RiskAssumption ==
  /\ Probes = FeedProbes \cup LossProbes
  /\ Faults \subseteq SUBSET (EarlyChecks \cup MiddleChecks \cup PositionsCheck
                                \cup SizeChecks)
  /\ MaxTrades \in Nat \ {0}
  /\ Window \in Nat \ {0}
  /\ MaxTime \in Nat
  /\ CycleSize \in Nat \ {0}

VARIABLES
  market,   \* the probes that are good now
  window,   \* _trade_timestamps
  now,      \* the monotonic clock
  left,     \* opportunities the running cycle still has to evaluate
  approved  \* the times of all approvals (history)

vars == <<switchVars, market, window, now, left, approved>>

-----------------------------------------------------------------------------
(* How far an opportunity gets.                                            *)

\* Mutant: a trade one whole window old is forgotten.
OldOrEqual(t) == t <= now - Window

Old(t) == t < now - Window

\* _prune_trade_window: old timestamps are popped from the front, up to the
\* first that is not old.
Popped ==
  CHOOSE k \in 0 .. Len(window) :
    /\ \A i \in 1 .. k : Old(window[i])
    /\ k < Len(window) => ~Old(window[k + 1])

Pruned == SubSeq(window, Popped + 1, Len(window))

FeedGood == FeedProbes \subseteq market

\* Mutant: the drawdown only warns.
DailyLossGood == "daily_loss_ok" \in market

LossesGood == LossProbes \subseteq market

PastEarly(faults) == ~Blocked /\ EarlyChecks \cap faults = {}
PastFeed(faults) == PastEarly(faults) /\ FeedGood
PastMiddle(faults) == PastFeed(faults) /\ MiddleChecks \cap faults = {}
PastLosses(faults) == PastMiddle(faults) /\ LossesGood
PastPositions(faults) == PastLosses(faults) /\ PositionsCheck \cap faults = {}
PastAll(faults) ==
  /\ PastPositions(faults)
  /\ Len(Pruned) < MaxTrades
  /\ SizeChecks \cap faults = {}

-----------------------------------------------------------------------------
(* evaluate: one action for each kind of decision.                         *)

MoreToEvaluate == left > 0

\* What every evaluation does first, and what it leaves alone.
Evaluating ==
  /\ MoreToEvaluate
  /\ left' = left - 1
  /\ UpdateConditions(market)
  /\ UNCHANGED <<failures, market, now>>

\* Rejected by the switch or by a check of the opportunity.
Reject(faults) ==
  /\ \/ ~PastEarly(faults)
     \/ PastFeed(faults) /\ ~PastMiddle(faults)
     \/ PastLosses(faults) /\ ~PastPositions(faults)
  /\ UNCHANGED <<state, lastEvent, window, approved>>

\* Rejected by a probe, which pauses the switch.
RejectAndPause(faults) ==
  /\ \/ PastEarly(faults) /\ ~PastFeed(faults)
     \/ PastMiddle(faults) /\ ~PastLosses(faults)
  /\ Pause
  /\ UNCHANGED <<window, approved>>

\* Rejected by the rate limit or a size limit: the window has been pruned.
RejectRateOrSize(faults) ==
  /\ PastPositions(faults) /\ ~PastAll(faults)
  /\ window' = Pruned
  /\ UNCHANGED <<state, lastEvent, approved>>

\* `nearLimit`: the loss or the drawdown is above its warning threshold.
Approve(faults, nearLimit) ==
  /\ PastAll(faults)
  /\ window' = Append(Pruned, now)
  /\ approved' = Append(approved, now)
  /\ IF nearLimit THEN Warn ELSE UNCHANGED <<state, lastEvent>>

Evaluate(faults) ==
  /\ Evaluating
  /\ \/ Reject(faults)
     \/ RejectAndPause(faults)
     \/ RejectRateOrSize(faults)
     \/ \E nearLimit \in BOOLEAN : Approve(faults, nearLimit)

-----------------------------------------------------------------------------
(* The runner, the operator, the market and the clock.                     *)

\* PaperRunner._run_cycle: nothing is evaluated while the switch blocks.
StartCycle ==
  /\ left = 0
  /\ ~Blocked
  /\ left' \in 1 .. CycleSize
  /\ UNCHANGED <<switchVars, market, window, now, approved>>

CallSwitch == SwitchCall /\ UNCHANGED <<market, window, now, left, approved>>

Drift ==
  /\ market' \in SUBSET Probes
  /\ UNCHANGED <<switchVars, window, now, left, approved>>

Tick ==
  /\ now < MaxTime
  /\ now' = now + 1
  /\ UNCHANGED <<switchVars, market, window, left, approved>>

Init ==
  /\ SwitchInit
  /\ market = Probes
  /\ window = <<>>
  /\ now = 0
  /\ left = 0
  /\ approved = <<>>

Next ==
  \/ \E faults \in Faults : Evaluate(faults)
  \/ StartCycle
  \/ CallSwitch
  \/ Drift
  \/ Tick

Spec == Init /\ [][Next]_vars

\* The runner's loop goes on, and the operator keeps asking for a recovery.
Fairness ==
  /\ WF_vars(StartCycle)
  /\ WF_vars(\E faults \in Faults : Evaluate(faults))
  /\ WF_vars(Recover /\ UNCHANGED <<market, window, now, left, approved>>)

FairSpec == Spec /\ Fairness

-----------------------------------------------------------------------------
(* Properties.                                                             *)

\* Every variable has its type.
TypeOK ==
  /\ SwitchTypeOK
  /\ market \in SUBSET Probes
  /\ window \in Seq(0 .. now)
  /\ now \in 0 .. MaxTime
  /\ left \in 0 .. CycleSize
  /\ approved \in Seq(0 .. now)

\* Orders flow again only after a recovery whose snapshot of the conditions
\* was all good, never as a side effect of a pause, a warning or an
\* evaluation ("Does not automatically resume", kill_switch.py).
NoSilentResume ==
  [][Blocked /\ ~Blocked' => conditions = Conditions /\ state' = "RUNNING"]_vars

\* What is approved is approved with every probe good at that very moment and
\* the switch open before and after: an operator's stop in the middle of a
\* cycle ends its approvals.
ApprovedInGoodMarket ==
  [][approved' # approved => market = Probes /\ ~Blocked /\ ~Blocked']_vars

\* More approvals than the limit allows never fall within one window, both
\* ends included, although old ones are dropped lazily and only by some of
\* the evaluations.
RateLimited ==
  \A i \in 1 .. Len(approved) - MaxTrades :
    approved[i + MaxTrades] > approved[i] + Window

\* A recovery is accepted only if the conditions hold, not only held when they
\* were last looked at: "Recovery requires configured conditions to be
\* satisfied" (kill_switch.py).
RecoveryIsHonest ==
  [][Blocked /\ ~Blocked' => market = Probes /\ failures < FailureLimit]_vars

\* Conditions satisfied for good and an operator who keeps calling recover end
\* every block (kill_switch.py, "Recovery requires configured conditions to be
\* satisfied and an explicit recover() call").
RecoversOnceGood == <>[](market = Probes) => []<>(~Blocked)
=============================================================================
