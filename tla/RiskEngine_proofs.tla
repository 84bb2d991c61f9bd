------------------------ MODULE RiskEngine_proofs ------------------------
(***************************************************************************)
(* Proofs about RiskEngine and its kill switch.                            *)
(*                                                                         *)
(* IInv (types, audit trail, failure stop) is inductive as a conjunction.  *)
(* The rate limit needs to know how the pruned window and the history of   *)
(* approvals relate: the window is a suffix of the history, and what has   *)
(* left the window is old (WindowIsRecent).                                *)
(***************************************************************************)
EXTENDS RiskEngine, SequenceTheorems, WellFoundedInduction, TLAPS

IInv == TypeOK /\ AuditAgrees /\ FailuresStop

-----------------------------------------------------------------------------
(* Helpers of the model.                                                   *)

\* Pruning finds how much to pop: there is a first timestamp that is not old.
LEMMA PoppedExists ==
  ASSUME window \in Seq(Nat)
  PROVE  /\ Popped \in 0 .. Len(window)
         /\ \A i \in 1 .. Popped : Old(window[i])
<1> DEFINE T == {k \in Nat : k < Len(window) => ~Old(window[k + 1])}
<1>1. Len(window) \in Nat
  BY LenProperties
<1>2. Len(window) \in T
  BY <1>1
<1>3. PICK k \in T : \A j \in T : ~(<<j, k>> \in OpToRel(<, Nat))
  <2>1. T \subseteq Nat /\ T # {}
    BY <1>2
  <2> HIDE DEF T
  <2> QED  BY <2>1, WFMin, NatLessThanWellFounded
<1>4. \A j \in Nat : j < k => j \notin T
  BY <1>3 DEF OpToRel
<1>5. k \in 0 .. Len(window)
  BY <1>1, <1>2, <1>4
<1>6. \A i \in 1 .. k : Old(window[i])
  <2> TAKE i \in 1 .. k
  <2>1. i - 1 \in Nat /\ i - 1 < k
    BY <1>5
  <2>2. i - 1 \notin T
    BY <1>4, <2>1
  <2> QED  BY <2>1, <2>2
<1>7. k < Len(window) => ~Old(window[k + 1])
  BY <1>3
<1> HIDE DEF T
<1> QED  BY <1>5, <1>6, <1>7 DEF Popped

\* What pruning returns: the window without its first Popped elements.
LEMMA PrunedProperties ==
  ASSUME NEW S, S \subseteq Nat, window \in Seq(S)
  PROVE  /\ Pruned \in Seq(S)
         /\ Len(Pruned) = Len(window) - Popped
         /\ \A i \in 1 .. Len(Pruned) : Pruned[i] = window[i + Popped]
<1>1. window \in Seq(Nat)
  BY SeqMonotonic
<1>2. Popped \in 0 .. Len(window) /\ Len(window) \in Nat
  BY <1>1, PoppedExists, LenProperties
<1>3. /\ Popped + 1 \in 1 .. Len(window) + 1
      /\ Len(window) \in Popped .. Len(window)
  BY <1>2
<1>4. /\ SubSeq(window, Popped + 1, Len(window)) \in Seq(S)
      /\ Len(SubSeq(window, Popped + 1, Len(window)))
           = IF Popped + 1 <= Len(window) THEN Len(window) - (Popped + 1) + 1 ELSE 0
      /\ \A i \in 1 .. Len(window) - (Popped + 1) + 1 :
            SubSeq(window, Popped + 1, Len(window))[i] = window[Popped + 1 + i - 1]
  BY <1>2, <1>3, SubSeqProperties
<1>5. Len(Pruned) = Len(window) - Popped
  BY <1>2, <1>4 DEF Pruned
<1>6. \A i \in 1 .. Len(Pruned) : Pruned[i] = window[i + Popped]
  BY <1>2, <1>4, <1>5 DEF Pruned
<1> QED  BY <1>4, <1>5, <1>6 DEF Pruned

\* A transition keeps the audit trail and the types of what it changes.
LEMMA TransitionAudited ==
  ASSUME NEW new \in States, Transition(new), AuditAgrees, SwitchTypeOK
  PROVE  /\ state' = new
         /\ lastEvent' \in {"none", "activated", "recovered"}
         /\ AuditAgrees'
BY DEF Transition, AuditAgrees, Blocked, SwitchTypeOK, States

\* An evaluation may pause, may warn, and may leave the switch alone; in every
\* case a stopped switch stays stopped and a blocked one stays blocked.
LEMMA EvaluateOnSwitch ==
  ASSUME NEW faults, Evaluate(faults), IInv
  PROVE  /\ state' \in States
         /\ lastEvent' \in {"none", "activated", "recovered"}
         /\ AuditAgrees'
         /\ state = "EMERGENCY_STOP" => state' = "EMERGENCY_STOP"
         /\ Blocked => Blocked'
<1>1. AuditAgrees /\ SwitchTypeOK
  BY DEF IInv, TypeOK
<1>2. ASSUME UNCHANGED <<state, lastEvent>>
      PROVE  /\ state' \in States
             /\ lastEvent' \in {"none", "activated", "recovered"}
             /\ AuditAgrees'
             /\ state = "EMERGENCY_STOP" => state' = "EMERGENCY_STOP"
             /\ Blocked => Blocked'
  BY <1>1, <1>2 DEF AuditAgrees, SwitchTypeOK, Blocked
<1>3. CASE Reject(faults)
  BY <1>2, <1>3 DEF Reject
<1>4. CASE RejectAndPause(faults)
  <2>1. CASE state = "EMERGENCY_STOP"
    BY <1>2, <1>4, <2>1 DEF RejectAndPause, Pause
  <2>2. CASE state # "EMERGENCY_STOP"
    <3>1. Transition("PAUSED")
      BY <1>4, <2>2 DEF RejectAndPause, Pause
    <3> QED  BY <1>1, <2>2, <3>1, TransitionAudited DEF States, Blocked
  <2> QED  BY <2>1, <2>2
<1>5. CASE RejectRateOrSize(faults)
  BY <1>2, <1>5 DEF RejectRateOrSize
<1>6. ASSUME NEW nearLimit \in BOOLEAN, Approve(faults, nearLimit)
      PROVE  /\ state' \in States
             /\ lastEvent' \in {"none", "activated", "recovered"}
             /\ AuditAgrees'
             /\ state = "EMERGENCY_STOP" => state' = "EMERGENCY_STOP"
             /\ Blocked => Blocked'
  <2>1. ~Blocked
    BY <1>6 DEF Approve, PastAll, PastPositions, PastLosses, PastMiddle, PastFeed,
                PastEarly
  <2>2. CASE UNCHANGED <<state, lastEvent>>
    BY <1>2, <2>2
  <2>3. CASE Transition("WARNING")
    BY <1>1, <2>1, <2>3, TransitionAudited DEF States, Blocked
  <2> QED  BY <1>6, <2>1, <2>2, <2>3 DEF Approve, Warn
<1> QED  BY <1>3, <1>4, <1>5, <1>6 DEF Evaluate

-----------------------------------------------------------------------------
(* IInv is inductive.                                                      *)

LEMMA InitIInv == Init => IInv
<1> SUFFICES ASSUME Init PROVE IInv
  OBVIOUS
<1>1. TypeOK
  BY RiskAssumption, KillSwitchAssumption
     DEF Init, SwitchInit, TypeOK, SwitchTypeOK, States, Conditions
<1> QED  BY <1>1, KillSwitchAssumption
         DEF Init, SwitchInit, IInv, AuditAgrees, FailuresStop, Blocked

LEMMA EvaluateIInv ==
  ASSUME IInv, NEW faults, Evaluate(faults)
  PROVE  IInv'
<1>1. /\ state' \in States
      /\ lastEvent' \in {"none", "activated", "recovered"}
      /\ AuditAgrees'
      /\ state = "EMERGENCY_STOP" => state' = "EMERGENCY_STOP"
  BY EvaluateOnSwitch
<1>2. /\ MoreToEvaluate /\ left' = left - 1
      /\ UpdateConditions(market)
      /\ failures' = failures /\ market' = market /\ now' = now
  BY DEF Evaluate, Evaluating
<1>3. window \in Seq(0 .. now) /\ approved \in Seq(0 .. now) /\ now \in Nat
  BY DEF IInv, TypeOK
<1>4. window' \in Seq(0 .. now') /\ approved' \in Seq(0 .. now')
  <2>1. Pruned \in Seq(0 .. now)
    BY <1>3, PrunedProperties
  <2>2. CASE UNCHANGED <<window, approved>>
    BY <1>2, <1>3, <2>2
  <2>3. CASE window' = Pruned /\ approved' = approved
    BY <1>2, <1>3, <2>1, <2>3
  <2>4. CASE window' = Append(Pruned, now) /\ approved' = Append(approved, now)
    BY <1>2, <1>3, <2>1, <2>4
  <2> QED  BY <2>2, <2>3, <2>4
           DEF Evaluate, Reject, RejectAndPause, RejectRateOrSize, Approve
<1>5. conditions' \in SUBSET Conditions
  BY <1>2 DEF UpdateConditions, Conditions, IInv, TypeOK
<1>6. left' \in 0 .. CycleSize
  BY <1>2, RiskAssumption DEF MoreToEvaluate, IInv, TypeOK
<1>7. TypeOK'
  BY <1>1, <1>2, <1>4, <1>5, <1>6 DEF IInv, TypeOK, SwitchTypeOK
<1>8. FailuresStop'
  BY <1>1, <1>2 DEF IInv, FailuresStop
<1> QED  BY <1>1, <1>7, <1>8 DEF IInv

LEMMA SwitchCallIInv ==
  ASSUME IInv, CallSwitch
  PROVE  IInv'
<1>1. AuditAgrees /\ SwitchTypeOK /\ FailuresStop
  BY DEF IInv, TypeOK
<1>2. ASSUME SwitchTypeOK', AuditAgrees', FailuresStop' PROVE IInv'
  BY <1>2 DEF IInv, TypeOK, CallSwitch
<1>3. CASE EmergencyStop
  BY <1>1, <1>2, <1>3, TransitionAudited
     DEF EmergencyStop, SwitchTypeOK, FailuresStop, States
<1>4. CASE ExecutionFailed
  <2>1. failures' = failures + 1 /\ failures < MaxFailures /\ conditions' = conditions
    BY <1>4 DEF ExecutionFailed
  <2>2. failures' \in 0 .. MaxFailures
    BY <1>1, <2>1, KillSwitchAssumption DEF SwitchTypeOK
  <2>3. CASE failures + 1 >= FailureLimit
    <3>1. Transition("EMERGENCY_STOP")
      BY <1>4, <2>3 DEF ExecutionFailed
    <3> QED  BY <1>1, <1>2, <2>1, <2>2, <3>1, TransitionAudited
             DEF SwitchTypeOK, FailuresStop, States
  <2>4. CASE ~(failures + 1 >= FailureLimit)
    <3>1. UNCHANGED <<state, lastEvent>>
      BY <1>4, <2>4 DEF ExecutionFailed
    <3> QED  BY <1>1, <1>2, <2>1, <2>2, <2>4, <3>1
             DEF SwitchTypeOK, FailuresStop, AuditAgrees, Blocked
  <2> QED  BY <2>3, <2>4
<1>5. CASE ExecutionSucceeded
  BY <1>1, <1>2, <1>5, KillSwitchAssumption
     DEF ExecutionSucceeded, SwitchTypeOK, FailuresStop, AuditAgrees, Blocked
<1>6. CASE ClearWarning
  <2>1. failures < FailureLimit
    BY <1>1, <1>6, KillSwitchAssumption DEF ClearWarning, FailuresStop, SwitchTypeOK
  <2> QED  BY <1>1, <1>2, <1>6, <2>1, TransitionAudited, KillSwitchAssumption
           DEF ClearWarning, SwitchTypeOK, FailuresStop, States
<1>7. CASE RecoverAccepted
  BY <1>1, <1>2, <1>7, TransitionAudited, KillSwitchAssumption
     DEF RecoverAccepted, FailuresAfterRecovery, SwitchTypeOK, FailuresStop, States
<1>8. CASE RecoverDenied
  BY <1>1, <1>2, <1>8
     DEF RecoverDenied, switchVars, SwitchTypeOK, FailuresStop, AuditAgrees, Blocked
<1> QED  BY <1>3, <1>4, <1>5, <1>6, <1>7, <1>8 DEF CallSwitch, SwitchCall, Recover

LEMMA NextIInv == IInv /\ [Next]_vars => IInv'
<1> SUFFICES ASSUME IInv, [Next]_vars PROVE IInv'
  OBVIOUS
<1>1. ASSUME NEW faults \in Faults, Evaluate(faults) PROVE IInv'
  BY <1>1, EvaluateIInv
<1>2. CASE StartCycle
  BY <1>2 DEF StartCycle, IInv, TypeOK, SwitchTypeOK, AuditAgrees, FailuresStop, Blocked,
              switchVars
<1>3. CASE CallSwitch
  BY <1>3, SwitchCallIInv
<1>4. CASE Drift
  BY <1>4 DEF Drift, IInv, TypeOK, SwitchTypeOK, AuditAgrees, FailuresStop, Blocked,
              switchVars
<1>5. CASE Tick
  <2>1. now \in Nat /\ now' = now + 1 /\ now' \in 0 .. MaxTime
    BY <1>5, RiskAssumption DEF Tick, IInv, TypeOK
  <2>2. 0 .. now \subseteq 0 .. now'
    BY <2>1
  <2>3. window' \in Seq(0 .. now') /\ approved' \in Seq(0 .. now')
    BY <1>5, <2>2, SeqMonotonic DEF Tick, IInv, TypeOK
  <2> QED  BY <1>5, <2>1, <2>3
           DEF Tick, IInv, TypeOK, SwitchTypeOK, AuditAgrees, FailuresStop, Blocked,
               switchVars
<1>6. CASE UNCHANGED vars
  BY <1>6 DEF vars, switchVars, IInv, TypeOK, SwitchTypeOK, AuditAgrees, FailuresStop,
              Blocked
<1> QED  BY <1>1, <1>2, <1>3, <1>4, <1>5, <1>6 DEF Next

LEMMA Inductive == Spec => []IInv
  BY InitIInv, NextIInv, PTL DEF Spec

\* Type correctness of evaluate, the switch and the trade window.
THEOREM TypeCorrect == Spec => []TypeOK
<1>1. IInv => TypeOK
  BY DEF IInv
<1> QED  BY <1>1, Inductive, PTL

\* The audit trail ends with an activation exactly while orders are blocked,
\* whatever sequence of calls the switch receives (KillSwitch._transition).
THEOREM AuditComplete == Spec => []AuditAgrees
<1>1. IInv => AuditAgrees
  BY DEF IInv
<1> QED  BY <1>1, Inductive, PTL

\* While the limit of consecutive failures stands reached, the switch is in
\* EMERGENCY_STOP (KillSwitch.record_execution_failure).
THEOREM FailuresKeepStopped == Spec => []FailuresStop
<1>1. IInv => FailuresStop
  BY DEF IInv
<1> QED  BY <1>1, Inductive, PTL

-----------------------------------------------------------------------------
(* What a step may not do.                                                 *)

\* A blocked switch opens again only by a recovery, and only on a snapshot in
\* which every condition holds ("Does not automatically resume").
THEOREM ResumesOnlyByRecovery == Spec => NoSilentResume
<1>1. ASSUME IInv, [Next]_vars, Blocked, ~Blocked'
      PROVE  conditions = Conditions /\ state' = "RUNNING"
  <2>1. ASSUME NEW faults \in Faults, Evaluate(faults) PROVE FALSE
    BY <1>1, <2>1, EvaluateOnSwitch
  <2>2. CASE StartCycle \/ Drift \/ Tick \/ UNCHANGED vars
    BY <1>1, <2>2 DEF StartCycle, Drift, Tick, vars, switchVars, Blocked
  <2>3. CASE CallSwitch
    BY <1>1, <2>3
       DEF CallSwitch, SwitchCall, EmergencyStop, ExecutionFailed, ExecutionSucceeded,
           Recover, ClearWarning, RecoverAccepted, RecoverDenied, RecoveryConditionsMet,
           Transition, Blocked, switchVars
  <2> QED  BY <1>1, <2>1, <2>2, <2>3 DEF Next
<1>2. IInv /\ [Next]_vars
        => [Blocked /\ ~Blocked' => conditions = Conditions /\ state' = "RUNNING"]_vars
  BY <1>1
<1> QED  BY <1>2, Inductive, PTL DEF Spec, NoSilentResume

\* An approval is given with every probe good at that moment, and the switch is
\* open before and after it, also when the operator stops in mid-cycle.
THEOREM ApprovalsAreSafe == Spec => ApprovedInGoodMarket
<1>1. ASSUME IInv, [Next]_vars, approved' # approved
      PROVE  market = Probes /\ ~Blocked /\ ~Blocked'
  <2>1. PICK faults \in Faults, nearLimit \in BOOLEAN : Approve(faults, nearLimit)
    BY <1>1 DEF Next, Evaluate, Reject, RejectAndPause, RejectRateOrSize, StartCycle,
                CallSwitch, Drift, Tick, vars
  <2>2. ~Blocked /\ FeedGood /\ LossesGood
    BY <2>1 DEF Approve, PastAll, PastPositions, PastLosses, PastMiddle, PastFeed,
                PastEarly
  <2>3. market = Probes
    BY <1>1, <2>2, RiskAssumption DEF FeedGood, LossesGood, IInv, TypeOK
  <2>4. ~Blocked'
    BY <2>1, <2>2 DEF Approve, Warn, Transition, Blocked
  <2> QED  BY <2>2, <2>3, <2>4
<1>2. IInv /\ [Next]_vars
        => [approved' # approved => market = Probes /\ ~Blocked /\ ~Blocked']_vars
  BY <1>1
<1> QED  BY <1>2, Inductive, PTL DEF Spec, ApprovedInGoodMarket

-----------------------------------------------------------------------------
(* The rate limit.                                                         *)

\* How many approvals have left the window.
Gone == Len(approved) - Len(window)

\* The window holds the latest approvals, and those that have left it are old.
WindowIsRecent ==
  /\ Gone \in Nat
  /\ \A i \in 1 .. Len(window) : window[i] = approved[Gone + i]
  /\ \A i \in 1 .. Gone : Old(approved[i])

RateInv == WindowIsRecent /\ RateLimited

\* Pruning keeps WindowIsRecent, whether an approval follows or not.
LEMMA PrunedIsRecent ==
  ASSUME TypeOK, WindowIsRecent
  PROVE  /\ Pruned \in Seq(0 .. now)
         /\ Len(Pruned) \in Nat
         /\ Len(approved) - Len(Pruned) \in Nat
         /\ \A i \in 1 .. Len(Pruned) :
              Pruned[i] = approved[Len(approved) - Len(Pruned) + i]
         /\ \A i \in 1 .. Len(approved) - Len(Pruned) : Old(approved[i])
<1>1. window \in Seq(0 .. now) /\ window \in Seq(Nat) /\ Len(window) \in Nat
  BY SeqMonotonic, LenProperties DEF TypeOK
<1>2. approved \in Seq(0 .. now) /\ Len(approved) \in Nat
  BY LenProperties DEF TypeOK
<1>3. /\ Popped \in 0 .. Len(window)
      /\ \A i \in 1 .. Popped : Old(window[i])
  BY <1>1, PoppedExists
<1>4. /\ Pruned \in Seq(0 .. now)
      /\ Len(Pruned) = Len(window) - Popped
      /\ \A i \in 1 .. Len(Pruned) : Pruned[i] = window[i + Popped]
  <2>1. 0 .. now \subseteq Nat
    OBVIOUS
  <2> QED  BY <1>1, <2>1, PrunedProperties
<1>5. Len(approved) - Len(Pruned) = Gone + Popped
  BY <1>1, <1>2, <1>3, <1>4 DEF Gone
<1>6. Gone \in Nat
  BY DEF WindowIsRecent
<1>7. ASSUME NEW i \in 1 .. Len(Pruned)
      PROVE  Pruned[i] = approved[Len(approved) - Len(Pruned) + i]
  <2>1. i + Popped \in 1 .. Len(window)
    BY <1>1, <1>3, <1>4
  <2>2. window[i + Popped] = approved[Gone + (i + Popped)]
    BY <2>1 DEF WindowIsRecent
  <2>3. Gone + (i + Popped) = Len(approved) - Len(Pruned) + i
    BY <1>3, <1>5, <1>6
  <2> QED  BY <1>4, <2>2, <2>3
<1>8. ASSUME NEW i \in 1 .. Len(approved) - Len(Pruned)
      PROVE  Old(approved[i])
  <2>1. CASE i <= Gone
    BY <1>6, <2>1 DEF WindowIsRecent
  <2>2. CASE i > Gone
    <3>1. i - Gone \in 1 .. Popped /\ i - Gone \in 1 .. Len(window)
      BY <1>1, <1>3, <1>5, <1>6, <2>2
    <3>2. Old(window[i - Gone])
      BY <1>3, <3>1
    <3>3. window[i - Gone] = approved[Gone + (i - Gone)]
      BY <3>1 DEF WindowIsRecent
    <3>4. Gone + (i - Gone) = i
      BY <1>6
    <3> QED  BY <3>2, <3>3, <3>4
  <2> QED  BY <1>6, <2>1, <2>2
<1> QED  BY <1>1, <1>2, <1>3, <1>4, <1>5, <1>6, <1>7, <1>8

LEMMA InitRateInv == Init => RateInv
<1> SUFFICES ASSUME Init PROVE RateInv
  OBVIOUS
<1>1. Len(window) = 0 /\ Len(approved) = 0
  BY DEF Init
<1> QED  BY <1>1, RiskAssumption DEF RateInv, WindowIsRecent, RateLimited, Gone

\* A window replaced by its pruned form.
LEMMA PruneRateInv ==
  ASSUME TypeOK, RateInv, window' = Pruned, approved' = approved, now' = now
  PROVE  RateInv'
<1>1. WindowIsRecent'
  BY PrunedIsRecent DEF RateInv, WindowIsRecent, Gone, Old
<1> QED  BY <1>1 DEF RateInv, RateLimited

\* An approval with room in the pruned window: the approval MaxTrades before it
\* has left the window.
LEMMA ApproveRateInv ==
  ASSUME TypeOK, RateInv, Len(Pruned) < MaxTrades, window' = Append(Pruned, now),
         approved' = Append(approved, now), now' = now
  PROVE  RateInv'
<1> DEFINE n == Len(approved)
           p == Len(Pruned)
<1>1. /\ Pruned \in Seq(0 .. now) /\ p \in Nat /\ n - p \in Nat
      /\ \A i \in 1 .. p : Pruned[i] = approved[n - p + i]
      /\ \A i \in 1 .. n - p : Old(approved[i])
  BY PrunedIsRecent DEF RateInv
<1>2. approved \in Seq(0 .. now) /\ n \in Nat /\ now \in Nat
  BY LenProperties DEF TypeOK
<1>3. /\ Len(window') = p + 1
      /\ \A i \in 1 .. p : window'[i] = Pruned[i]
      /\ window'[p + 1] = now
  BY <1>1
<1>4. /\ Len(approved') = n + 1
      /\ \A i \in 1 .. n : approved'[i] = approved[i]
      /\ approved'[n + 1] = now
      /\ \A i \in 1 .. n : approved[i] \in 0 .. now
  BY <1>2, ElementOfSeq
<1>5. Gone' = n - p
  BY <1>1, <1>2, <1>3, <1>4 DEF Gone
<1> HIDE DEF n, p
<1>6. ASSUME NEW i \in 1 .. Len(window')
      PROVE  window'[i] = approved'[Gone' + i]
  <2>1. CASE i = p + 1
    <3>1. Gone' + i = n + 1
      BY <1>1, <1>2, <1>5, <2>1
    <3> QED  BY <1>3, <1>4, <2>1, <3>1
  <2>2. CASE i # p + 1
    <3>1. i \in 1 .. p /\ n - p + i \in 1 .. n
      BY <1>1, <1>2, <1>3, <2>2
    <3> QED  BY <1>1, <1>3, <1>4, <1>5, <3>1
  <2> QED  BY <2>1, <2>2
<1>7. ASSUME NEW i \in 1 .. Gone'
      PROVE  Old(approved[i])'
  <2>1. i \in 1 .. n
    BY <1>1, <1>2, <1>5
  <2>2. Old(approved[i]) /\ approved'[i] = approved[i]
    BY <1>1, <1>4, <1>5, <2>1
  <2> QED  BY <2>2 DEF Old
<1>8. WindowIsRecent'
  BY <1>1, <1>5, <1>6, <1>7 DEF WindowIsRecent
<1>9. ASSUME NEW i \in 1 .. Len(approved') - MaxTrades
      PROVE  approved'[i + MaxTrades] > approved'[i] + Window
  <2>0. MaxTrades \in Nat \ {0} /\ Window \in Nat
    BY RiskAssumption
  <2>1. i \in 1 .. n
    BY <1>2, <1>4, <2>0
  <2>2. CASE i + MaxTrades = n + 1
    <3>1. i \in 1 .. n - p
      BY <1>1, <1>2, <2>0, <2>2 DEF p
    <3>2. approved[i] < now - Window
      BY <1>1, <3>1 DEF Old
    <3>3. approved[i] \in Nat /\ approved'[i] = approved[i] /\ approved'[i + MaxTrades] = now
      BY <1>2, <1>4, <2>1, <2>2
    <3> QED  BY <1>2, <2>0, <3>2, <3>3
  <2>3. CASE i + MaxTrades # n + 1
    <3>1. i \in 1 .. n - MaxTrades /\ i + MaxTrades \in 1 .. n
      BY <1>2, <1>4, <2>0, <2>3
    <3>2. approved[i + MaxTrades] > approved[i] + Window
      BY <3>1 DEF RateInv, RateLimited, n
    <3> QED  BY <1>4, <2>1, <3>1, <3>2
  <2> QED  BY <2>2, <2>3
<1> QED  BY <1>8, <1>9 DEF RateInv, RateLimited

LEMMA NextRateInv == IInv /\ RateInv /\ [Next]_vars => RateInv'
<1> SUFFICES ASSUME IInv, RateInv, [Next]_vars PROVE RateInv'
  OBVIOUS
<1>0. TypeOK
  BY DEF IInv
<1>1. CASE UNCHANGED <<window, approved, now>>
  BY <1>1 DEF RateInv, WindowIsRecent, RateLimited, Gone, Old
<1>2. CASE Tick
  <2>1. window' = window /\ approved' = approved /\ now' = now + 1
    BY <1>2 DEF Tick
  <2>2. now \in Nat /\ Window \in Nat
    BY RiskAssumption DEF IInv, TypeOK
  <2>3. Len(approved) \in Nat /\ Len(window) \in Nat /\ Gone \in Nat
    BY LenProperties DEF IInv, TypeOK, RateInv, WindowIsRecent
  <2>4. ASSUME NEW i \in 1 .. Gone PROVE Old(approved[i])'
    <3>1. i \in 1 .. Len(approved)
      BY <2>3 DEF Gone
    <3>2. approved[i] \in 0 .. now
      BY <3>1, ElementOfSeq DEF IInv, TypeOK
    <3>3. Old(approved[i])
      BY DEF RateInv, WindowIsRecent
    <3> QED  BY <2>1, <2>2, <3>2, <3>3 DEF Old
  <2> QED  BY <2>1, <2>4 DEF RateInv, WindowIsRecent, RateLimited, Gone
<1>3. ASSUME NEW faults \in Faults, Evaluate(faults) PROVE RateInv'
  <2>1. now' = now
    BY <1>3 DEF Evaluate, Evaluating
  <2>2. CASE Reject(faults) \/ RejectAndPause(faults)
    BY <1>1, <2>1, <2>2 DEF Reject, RejectAndPause
  <2>3. CASE RejectRateOrSize(faults)
    BY <1>0, <2>1, <2>3, PruneRateInv DEF RejectRateOrSize
  <2>4. ASSUME NEW nearLimit \in BOOLEAN, Approve(faults, nearLimit) PROVE RateInv'
    BY <1>0, <2>1, <2>4, ApproveRateInv DEF Approve, PastAll
  <2> QED  BY <1>3, <2>2, <2>3, <2>4 DEF Evaluate
<1>4. CASE StartCycle \/ CallSwitch \/ Drift \/ UNCHANGED vars
  BY <1>1, <1>4 DEF StartCycle, CallSwitch, Drift, vars
<1> QED  BY <1>2, <1>3, <1>4 DEF Next

\* No more than max_trades_per_minute approvals fall within any one window,
\* for every limit, window, sequence of calls and pace of the clock.
THEOREM RateIsLimited == Spec => []RateLimited
<1>1. RateInv => RateLimited
  BY DEF RateInv
<1> QED  BY <1>1, InitRateInv, NextRateInv, Inductive, PTL DEF Spec
=============================================================================
