----------------------------- MODULE KillSwitch -----------------------------
(***************************************************************************)
(* The kill switch that stands between the risk engine and the executor    *)
(* (bot/risk/kill_switch.py), as the process wires it: its event handler   *)
(* appends to a list in memory and never suspends, so that each method is  *)
(* one atomic step.                                                        *)
(*                                                                         *)
(* A transition's reason is not kept.  It only decides whether repeating a *)
(* transition records one more event of the same type, and of the events   *)
(* only the type of the latest one is kept.                                *)
(***************************************************************************)
EXTENDS Integers

CONSTANTS
  Probes,        \* what evaluate measures: daily loss, drawdown, feed, venue
  FailureLimit,  \* settings.risk_consecutive_failure_limit
  MaxFailures    \* bound: execution failures counted in a row

ASSUME KillSwitchAssumption ==
  /\ "execution_stable" \notin Probes
  /\ FailureLimit \in Nat \ {0}
  /\ MaxFailures \in Nat

VARIABLES
  state,       \* KillSwitch._state
  conditions,  \* the conditions that _last_conditions says hold
  failures,    \* KillSwitch._consecutive_failures
  lastEvent    \* type of the latest RiskEvent

switchVars == <<state, conditions, failures, lastEvent>>

States == {"RUNNING", "WARNING", "PAUSED", "EMERGENCY_STOP"}
Conditions == Probes \cup {"execution_stable"}

Blocked == state \in {"PAUSED", "EMERGENCY_STOP"}

\* Entering PAUSED or EMERGENCY_STOP records an activation, leaving them for
\* another state a recovery; other transitions record nothing.
Transition(new) ==
  /\ state' = new
  /\ lastEvent' = IF new \in {"PAUSED", "EMERGENCY_STOP"} THEN "activated"
                  ELSE IF Blocked THEN "recovered" ELSE lastEvent

Warn == IF Blocked THEN UNCHANGED <<state, lastEvent>> ELSE Transition("WARNING")

Pause == IF state = "EMERGENCY_STOP" THEN UNCHANGED <<state, lastEvent>>
                                     ELSE Transition("PAUSED")

EmergencyStop == Transition("EMERGENCY_STOP") /\ UNCHANGED <<conditions, failures>>

ExecutionFailed ==
  /\ failures < MaxFailures
  /\ failures' = failures + 1
  /\ IF failures + 1 >= FailureLimit THEN Transition("EMERGENCY_STOP")
                                     ELSE UNCHANGED <<state, lastEvent>>
  /\ UNCHANGED conditions

ExecutionSucceeded == failures' = 0 /\ UNCHANGED <<state, conditions, lastEvent>>

\* Mutant: some condition is enough.
SomeConditionMet == conditions # {}

\* recovery_conditions_met: every condition of the snapshot holds; the empty
\* snapshot of a new process satisfies nothing.
RecoveryConditionsMet == conditions = Conditions

\* Mutant: the count of failures survives a recovery.
FailuresKept == failures

FailuresAfterRecovery == 0

\* A warning is cleared on request; a blocked switch recovers when the latest
\* snapshot of the conditions allows it.
ClearWarning ==
  /\ state = "WARNING"
  /\ Transition("RUNNING")
  /\ UNCHANGED <<conditions, failures>>

RecoverAccepted ==
  /\ Blocked
  /\ RecoveryConditionsMet
  /\ Transition("RUNNING")
  /\ failures' = FailuresAfterRecovery
  /\ UNCHANGED conditions

RecoverDenied ==
  /\ Blocked
  /\ ~RecoveryConditionsMet
  /\ UNCHANGED switchVars

Recover == ClearWarning \/ RecoverAccepted \/ RecoverDenied

\* update_conditions, with the conditions evaluate finds in `market`, the
\* probes that are good.
UpdateConditions(market) ==
  conditions' = market \cup (IF failures < FailureLimit THEN {"execution_stable"} ELSE {})

SwitchInit ==
  /\ state = "RUNNING"
  /\ conditions = {}
  /\ failures = 0
  /\ lastEvent = "none"

\* Calls that come from outside an evaluation.
SwitchCall ==
  \/ EmergencyStop
  \/ ExecutionFailed
  \/ ExecutionSucceeded
  \/ Recover

-----------------------------------------------------------------------------

SwitchTypeOK ==
  /\ state \in States
  /\ conditions \in SUBSET Conditions
  /\ failures \in 0 .. MaxFailures
  /\ lastEvent \in {"none", "activated", "recovered"}

\* The audit trail ends with an activation exactly while orders are blocked:
\* no transition into or out of a blocking state goes unrecorded.
AuditAgrees == Blocked <=> lastEvent = "activated"

\* The limit of consecutive failures keeps the switch in EMERGENCY_STOP: no
\* pause, warning or evaluation brings it out while the count stands.
FailuresStop == failures >= FailureLimit => state = "EMERGENCY_STOP"
=============================================================================
