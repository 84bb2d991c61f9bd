--------------------------- MODULE Trading_proofs ---------------------------
(***************************************************************************)
(* Theorems about a run of the engine (TradingCycle) and about the orders  *)
(* an exchange client places, cancels and asks for (ExchangeClient).  The  *)
(* specifications do not depend on each other; each has an inductive       *)
(* invariant of its own.                                                   *)
(***************************************************************************)
EXTENDS TradingCycle, ExchangeClient, FiniteSetTheorems, TLAPS

-----------------------------------------------------------------------------
(* The run: TradingCycle.                                                  *)

-----------------------------------------------------------------------------
(* The invariant.                                                          *)

\* The snapshots were valid when they were taken, and what is left to do was
\* found in them.
SnapshotsWereValid ==
  /\ \A v \in DOMAIN snapshots : snapshots[v] <= MaxAge
  /\ pc # "idle" => \A p \in left : p[1] \in DOMAIN snapshots

\* An order is in its latency just while the run waits for it.
OrderWhilePlacing == order # NoOrder => pc = "placing"

CycleInv == CycleTypeOK /\ SnapshotsWereValid /\ OrderWhilePlacing /\ AgeBounded

-----------------------------------------------------------------------------

\* A step of time adds one at most, and stays in the bound.
LEMMA OlderByOne ==
  ASSUME NEW age \in Ages
  PROVE  Older(age) \in Ages /\ age <= Older(age) /\ Older(age) <= age + 1
    /\ (age < Oldest => Older(age) = age + 1)
    /\ (Older(age) = age => age = Oldest)
  BY CycleAssumption DEF Older, Ages

\* The book an order is given is valid, or was when the run began.
LEMMA ExecutionBookBounded ==
  ASSUME CycleInv, NEW v \in Venues, v \in DOMAIN snapshots
  PROVE  ExecutionBook(v) \in Ages /\ ExecutionBook(v) <= MaxAge + since
<1>1. books[v][symbol] \in Books /\ snapshots[v] \in Ages /\ snapshots[v] <= MaxAge /\ since \in Ages
  BY DEF CycleInv, CycleTypeOK, SnapshotsWereValid
<1>2. AgedSnapshot(v) \in Ages /\ AgedSnapshot(v) <= MaxAge + since
  BY <1>1, CycleAssumption DEF AgedSnapshot, Ages
<1>3. CASE Valid(v, symbol)
  BY <1>1, <1>3, CycleAssumption DEF ExecutionBook, Valid, Books, Ages
<1>4. CASE ~Valid(v, symbol)
  BY <1>2, <1>4 DEF ExecutionBook
<1> QED BY <1>3, <1>4

LEMMA CycleInitEstablishes == CycleInit => CycleInv
<1> SUFFICES ASSUME CycleInit PROVE CycleInv
  OBVIOUS
<1>1. CycleTypeOK
  <2>1. [synced |-> FALSE, age |-> 0] \in Books /\ 0 \in Ages
    BY CycleAssumption DEF Books, Ages
  <2>2. snapshots = [v \in {} |-> 0]
    BY DEF CycleInit
  <2>3. DOMAIN snapshots = {}
    BY <2>2
  <2> QED BY <2>1, <2>3 DEF CycleInit, CycleTypeOK
<1>2. SnapshotsWereValid /\ OrderWhilePlacing /\ AgeBounded
  BY DEF CycleInit, SnapshotsWereValid, OrderWhilePlacing, AgeBounded
<1> QED BY <1>1, <1>2 DEF CycleInv

-----------------------------------------------------------------------------
(* One lemma per kind of step.                                             *)

LEMMA UpdateKeeps ==
  ASSUME CycleInv, NEW v \in Venues, NEW s \in Symbols, Update(v, s) \/ Desync(v, s)
  PROVE  CycleInv'
<1>1. books' \in [Venues -> [Symbols -> Books]]
  <2>1. books \in [Venues -> [Symbols -> Books]] /\ books[v][s] \in Books
    BY DEF CycleInv, CycleTypeOK
  <2>2. [synced |-> TRUE, age |-> 0] \in Books
    BY CycleAssumption DEF Books, Ages
  <2>3. [books[v][s] EXCEPT !.synced = FALSE] \in Books
    BY <2>1 DEF Books
  <2>4. \A book \in Books :
          [books EXCEPT ![v][s] = book] \in [Venues -> [Symbols -> Books]]
    BY <2>1
  <2>5. \/ books' = [books EXCEPT ![v][s] = [synced |-> TRUE, age |-> 0]]
        \/ books' = [books EXCEPT ![v][s] = [books[v][s] EXCEPT !.synced = FALSE]]
    BY <2>1 DEF Update, Desync
  <2> QED BY <2>2, <2>3, <2>4, <2>5
<1>2. UNCHANGED <<paused, pc, symbol, snapshots, since, left, order>>
  BY DEF Update, Desync, runVars
<1> QED
  BY <1>1, <1>2 DEF CycleInv, CycleTypeOK, SnapshotsWereValid, OrderWhilePlacing, AgeBounded

LEMMA TickKeeps ==
  ASSUME CycleInv, Tick
  PROVE  CycleInv'
<1>1. books' \in [Venues -> [Symbols -> Books]]
  <2> SUFFICES ASSUME NEW v \in Venues, NEW s \in Symbols
               PROVE  [books[v][s] EXCEPT !.age = Older(@)] \in Books
    BY DEF Tick
  <2>1. books[v][s] \in Books
    BY DEF CycleInv, CycleTypeOK
  <2> QED BY <2>1, OlderByOne DEF Books
<1>2. since' \in Ages
  BY OlderByOne DEF Tick, CycleInv, CycleTypeOK
<1>3. UNCHANGED <<paused, pc, symbol, snapshots, left>>
  BY DEF Tick
<1>4. CASE order = NoOrder
  <2>1. order' = NoOrder
    BY <1>4 DEF Tick
  <2> QED
    BY <1>1, <1>2, <1>3, <2>1 DEF CycleInv, CycleTypeOK, SnapshotsWereValid, OrderWhilePlacing, AgeBounded
<1>5. CASE order # NoOrder
  <2>1. order \in Orders /\ order.age \in Ages /\ order.age <= MaxAge + since /\ since \in Ages
    BY <1>5 DEF CycleInv, CycleTypeOK, AgeBounded, Orders
  <2>2. order' = [order EXCEPT !.age = Older(@)] /\ since' = Older(since)
    BY <1>5 DEF Tick, CycleInv, OrderWhilePlacing
  <2>3. order' \in Orders /\ order'.age = Older(order.age)
    BY <2>1, <2>2, OlderByOne DEF Orders
  <2>4. order'.age <= MaxAge + since'
    <3>1. order'.age \in Ages /\ order'.age <= order.age + 1
      BY <2>1, <2>3, OlderByOne
    <3>2. since' \in Ages /\ (since' = since + 1 \/ since' = Oldest)
      BY <2>1, <2>2, OlderByOne, CycleAssumption DEF Older, Ages
    <3> QED BY <2>1, <3>1, <3>2, CycleAssumption DEF Ages
  <2>5. AgeBounded' /\ OrderWhilePlacing'
    BY <1>3, <1>5, <2>4 DEF AgeBounded, OrderWhilePlacing, CycleInv
  <2> QED
    BY <1>1, <1>2, <1>3, <2>3, <2>5 DEF CycleInv, CycleTypeOK, SnapshotsWereValid
<1> QED BY <1>4, <1>5

LEMMA OperatorKeeps ==
  ASSUME CycleInv, Operator
  PROVE  CycleInv'
  BY DEF Operator, runVars, CycleInv, CycleTypeOK, SnapshotsWereValid, OrderWhilePlacing, AgeBounded

LEMMA BeginRunKeeps ==
  ASSUME CycleInv, NEW s \in Symbols, Begin(s)
  PROVE  CycleInv'
<1>1. order = NoOrder /\ order' = NoOrder
  BY DEF Begin, CycleInv, OrderWhilePlacing
<1>2. \A v \in ValidVenues(s) : books[v][s].age \in Ages /\ books[v][s].age <= MaxAge
  BY DEF CycleInv, CycleTypeOK, Books, ValidVenues, Valid
<1>3. /\ DOMAIN snapshots' = ValidVenues(s) /\ ValidVenues(s) \subseteq Venues
      /\ \A v \in ValidVenues(s) : snapshots'[v] = books[v][s].age
  BY DEF Begin, ValidVenues
<1>4. left' \subseteq Pairs /\ \A p \in left' : p[1] \in DOMAIN snapshots'
  BY <1>3 DEF Begin
<1>5. CycleTypeOK'
  BY <1>1, <1>2, <1>3, <1>4, CycleAssumption DEF Begin, CycleInv, CycleTypeOK, Ages
<1>6. SnapshotsWereValid'
  BY <1>2, <1>3, <1>4 DEF SnapshotsWereValid
<1> QED BY <1>1, <1>5, <1>6 DEF CycleInv, OrderWhilePlacing, AgeBounded

LEMMA RejectKeeps ==
  ASSUME CycleInv, NEW p \in Pairs, Reject(p) \/ RejectUnhealthy(p)
  PROVE  CycleInv'
<1>1. left' \subseteq left /\ pc # "idle" /\ pc # "placing" /\ pc' \in {"evaluating", "recording"}
  BY DEF Reject, RejectUnhealthy, Remaining
<1>2. order = NoOrder /\ UNCHANGED <<books, symbol, snapshots, since, order>> /\ paused' \in BOOLEAN
  BY <1>1 DEF Reject, RejectUnhealthy, CycleInv, OrderWhilePlacing, CycleTypeOK
<1> QED
  BY <1>1, <1>2 DEF CycleInv, CycleTypeOK, SnapshotsWereValid, OrderWhilePlacing, AgeBounded

LEMMA PlaceKeeps ==
  ASSUME CycleInv, NEW p \in Pairs, Place(p)
  PROVE  CycleInv'
<1>1. p[1] \in Venues /\ p[1] \in DOMAIN snapshots
  BY DEF Place, CycleInv, SnapshotsWereValid, Pairs
<1>2. ExecutionBook(p[1]) \in Ages /\ ExecutionBook(p[1]) <= MaxAge + since
  BY <1>1, ExecutionBookBounded
<1>3. order' = [pair |-> p, age |-> ExecutionBook(p[1])] /\ pc' = "placing" /\ left' \subseteq left
      /\ pc # "idle" /\ UNCHANGED <<books, paused, symbol, snapshots, since>>
  BY DEF Place, Remaining
<1>4. order' \in Orders /\ AgeBounded'
  BY <1>2, <1>3 DEF Orders, AgeBounded
<1> QED
  BY <1>3, <1>4 DEF CycleInv, CycleTypeOK, SnapshotsWereValid, OrderWhilePlacing

LEMMA ReturnKeeps ==
  ASSUME CycleInv, Recorded \/ Fill \/ End
  PROVE  CycleInv'
<1>1. order' = NoOrder
  BY DEF Recorded, Fill, End, CycleInv, OrderWhilePlacing
<1>2. /\ since' \in Ages /\ pc' \in {"idle", "evaluating"} /\ pc # "idle"
      /\ UNCHANGED <<books, paused, symbol, snapshots, left>>
  BY CycleAssumption DEF Recorded, Fill, End, CycleInv, CycleTypeOK, Ages
<1> QED
  BY <1>1, <1>2 DEF CycleInv, CycleTypeOK, SnapshotsWereValid, OrderWhilePlacing, AgeBounded

LEMMA CycleStepKeeps == CycleInv /\ [CycleNext]_cycleVars => CycleInv'
<1> SUFFICES ASSUME CycleInv, [CycleNext]_cycleVars PROVE CycleInv'
  OBVIOUS
<1>1. CASE UNCHANGED cycleVars
  BY <1>1 DEF cycleVars, runVars, CycleInv, CycleTypeOK, SnapshotsWereValid, OrderWhilePlacing, AgeBounded
<1>2. CASE \E v \in Venues, s \in Symbols : Update(v, s) \/ Desync(v, s)
  BY <1>2, UpdateKeeps
<1>3. CASE Tick
  BY <1>3, TickKeeps
<1>4. CASE Operator
  BY <1>4, OperatorKeeps
<1>5. CASE \E s \in Symbols : Begin(s)
  BY <1>5, BeginRunKeeps
<1>6. CASE \E p \in Pairs : Reject(p) \/ RejectUnhealthy(p)
  BY <1>6, RejectKeeps
<1>7. CASE \E p \in Pairs : Place(p)
  BY <1>7, PlaceKeeps
<1>8. CASE Recorded \/ Fill \/ End
  BY <1>8, ReturnKeeps
<1> QED BY <1>1, <1>2, <1>3, <1>4, <1>5, <1>6, <1>7, <1>8 DEF CycleNext, Run

LEMMA CycleInvariance == CycleSpec => []CycleInv
  BY CycleInitEstablishes, CycleStepKeeps, PTL DEF CycleSpec

-----------------------------------------------------------------------------
(* Theorems.                                                               *)

\* Every variable of the run and the books has its type (run_once).
THEOREM CycleTypeCorrect == CycleSpec => []CycleTypeOK
<1>1. CycleInv => CycleTypeOK
  BY DEF CycleInv
<1> QED BY <1>1, CycleInvariance, PTL

\* No order holds a book older than the limit and the time its run has taken,
\* in whatever order books change, opportunities are rejected and orders wait
\* (_resolve_execution_book).
THEOREM OrdersAgeBounded == CycleSpec => []AgeBounded
<1>1. CycleInv => AgeBounded
  BY DEF CycleInv
<1> QED BY <1>1, CycleInvariance, PTL

-----------------------------------------------------------------------------
(* The orders: ExchangeClient.                                             *)

CallType ==
  [op : Operations, pc : {"idle", "sending", "answering", "backoff"},
   attempt : 1 .. MaxAttempts, id : Nat \cup {MadeUp}, answer : VenueOrders \cup {None}]

ResultType == Reports \cup Failures

-----------------------------------------------------------------------------
(* The invariant.  What a call was answered, and what was reported of an   *)
(* order, stay true because an order only ever goes on from there.         *)

\* An order goes on being of its request, loses no fill, and changes no more
\* once it is not open.
After(old, new) ==
  /\ new.request = old.request
  /\ old.filled <= new.filled
  /\ old.status # "open" => new = old

\* The orders os have become ns.
Evolve(os, ns) == \A i \in DOMAIN os : i \in DOMAIN ns /\ After(os[i], ns[i])

OpenUnfilled(os) == \A i \in DOMAIN os : os[i].status = "open" => os[i].filled < Amount

\* A call about an order is about one of its request, an answer was true
\* when it was given, and one attempt at least is left in a backoff.
CallIsTrue(os, r, c) ==
  /\ c.op # "place" /\ c.pc # "idle" /\ c.id # MadeUp =>
       c.id \in DOMAIN os /\ os[c.id].request = r
  /\ c.pc = "answering" =>
       /\ c.id \in DOMAIN os /\ c.answer \in VenueOrders
       /\ c.answer.request = r /\ After(c.answer, os[c.id])
  /\ c.pc = "backoff" => c.attempt < MaxAttempts

ReportIsTrue(os, r, told) ==
  /\ told.about \in DOMAIN os /\ told.id \in {told.about, MadeUp}
  /\ os[told.about].request = r /\ told.filled <= os[told.about].filled
  /\ told.status \in {"FILLED", "PARTIALLY_FILLED"} => os[told.about].status = "closed"
  /\ told.status = "CANCELLED" => os[told.about].status = "canceled"
  /\ told.status = "REJECTED" => os[told.about].status = "rejected"

\* Of a result, if it names an order.
ResultIsTrue(os, r, result) ==
  result # None /\ "id" \in DOMAIN result /\ result.about # 0 => ReportIsTrue(os, r, result)

OrdersSound == orders \in Seq(VenueOrders) /\ OpenUnfilled(orders)
CallsTrue == calls \in [Requests -> CallType] /\ \A r \in Requests : CallIsTrue(orders, r, calls[r])
ResultsTrue ==
  /\ results \in [Requests -> ResultType \cup {None}]
  /\ \A r \in Requests : ResultIsTrue(orders, r, results[r])

IInv == OrdersSound /\ CallsTrue /\ ResultsTrue

-----------------------------------------------------------------------------
(* What stays true when orders go on.                                      *)

LEMMA AnswerStaysTrue ==
  ASSUME NEW os \in Seq(VenueOrders), NEW ns \in Seq(VenueOrders), Evolve(os, ns),
         NEW r \in Requests, NEW c \in CallType, CallIsTrue(os, r, c)
  PROVE  CallIsTrue(ns, r, c)
<1>1. CASE c.id \in DOMAIN os
  <2>1. c.id \in DOMAIN ns /\ After(os[c.id], ns[c.id])
    BY <1>1 DEF Evolve
  <2>2. os[c.id] \in VenueOrders /\ ns[c.id] \in VenueOrders
    BY <1>1, <2>1
  <2>3. ASSUME c.answer \in VenueOrders, After(c.answer, os[c.id]) PROVE After(c.answer, ns[c.id])
    BY <2>1, <2>2, <2>3 DEF After, VenueOrders
  <2> QED BY <2>1, <2>3 DEF CallIsTrue, After
<1>2. CASE c.id \notin DOMAIN os
  BY <1>2 DEF CallIsTrue
<1> QED BY <1>1, <1>2

LEMMA ReportStaysTrue ==
  ASSUME NEW os \in Seq(VenueOrders), NEW ns \in Seq(VenueOrders), Evolve(os, ns),
         NEW r \in Requests, NEW result \in ResultType \cup {None}, ResultIsTrue(os, r, result)
  PROVE  ResultIsTrue(ns, r, result)
<1> SUFFICES ASSUME result # None, "id" \in DOMAIN result, result.about # 0
             PROVE  ReportIsTrue(ns, r, result)
  BY DEF ResultIsTrue
<1>1. ReportIsTrue(os, r, result)
  BY DEF ResultIsTrue
<1>2. result \in Reports
  BY DEF ResultType, Reports, Failures
<1>3. /\ result.about \in DOMAIN os /\ result.about \in DOMAIN ns
      /\ After(os[result.about], ns[result.about])
      /\ os[result.about] \in VenueOrders /\ ns[result.about] \in VenueOrders
  BY <1>1 DEF ReportIsTrue, Evolve
<1> QED BY <1>1, <1>2, <1>3, ClientAssumption DEF Reports, ReportIsTrue, After, VenueOrders

\* What the adapter makes of a true answer is true, whatever it leaves out.
LEMMA OutcomeIsTrue ==
  ASSUME NEW os \in Seq(VenueOrders), NEW r \in Requests, NEW op \in Operations,
         NEW id \in DOMAIN os, NEW placed \in VenueOrders, NEW raw \in Payloads(id, placed),
         placed.request = r, After(placed, os[id])
  PROVE  /\ Outcome(op, id, raw) \in ResultType
         /\ ResultIsTrue(os, r, Outcome(op, id, raw))
<1>1. os[id] \in VenueOrders /\ id \in 0 .. Len(os) /\ id \in Nat
  OBVIOUS
<1>2. CASE op = "place" /\ Status(raw) = "REJECTED"
  <2>1. Outcome(op, id, raw) = [error |-> "execution", cause |-> "rejected"]
    BY <1>2 DEF Outcome
  <2>2. "id" \notin DOMAIN Outcome(op, id, raw)
    BY <2>1
  <2> QED BY <2>1, <2>2 DEF ResultType, Reports, Failures, ResultIsTrue
<1>3. CASE ~(op = "place" /\ Status(raw) = "REJECTED")
  <2> DEFINE told == [about |-> id, id |-> IF raw.id = None THEN MadeUp ELSE raw.id,
                      status |-> Status(raw), filled |-> FilledOf(raw)]
  <2>1. Outcome(op, id, raw) = told
    BY <1>3 DEF Outcome, Returned
  <2>2. raw.id \in {id, None} /\ raw.filled \in {placed.filled, None}
        /\ raw.status \in Names[placed.status] \cup {"untold"}
    BY DEF Payloads
  <2>3. placed.filled \in 0 .. Amount /\ placed.status \in VenueStatuses
    BY DEF VenueOrders
  <2>4. told.id \in {id, MadeUp}
    BY <2>2
  <2>5. FilledOf(raw) \in 0 .. Amount /\ FilledOf(raw) <= placed.filled
    BY <2>2, <2>3, ClientAssumption DEF FilledOf
  <2>6. /\ Status(raw) \in Statuses
        /\ Status(raw) \in {"FILLED", "PARTIALLY_FILLED"} => placed.status = "closed"
        /\ Status(raw) = "CANCELLED" => placed.status = "canceled"
        /\ Status(raw) = "REJECTED" => placed.status = "rejected"
    <3> DEFINE partly == Partly(raw)
    <3>1. Status(raw) =
            CASE raw.status \in {"closed", "filled"} /\ partly -> "PARTIALLY_FILLED"
              [] raw.status = "closed" /\ ~partly -> "FILLED"
              [] raw.status = "open" -> "SUBMITTED"
              [] raw.status = "canceled" -> "CANCELLED"
              [] raw.status = "rejected" -> "REJECTED"
              [] OTHER -> "PENDING"
      BY DEF Status, StatusNamed
    <3>2. CASE placed.status = "open"
      <4>1. raw.status \in {"open", "pending", "untold"}
        BY <2>2, <3>2 DEF Names
      <4> HIDE DEF partly
      <4> QED BY <3>1, <4>1 DEF Statuses
    <3>3. CASE placed.status = "closed"
      <4>1. raw.status \in {"closed", "filled", "untold"}
        BY <2>2, <3>3 DEF Names
      <4> HIDE DEF partly
      <4> QED BY <3>1, <3>3, <4>1 DEF Statuses
    <3>4. CASE placed.status = "canceled"
      <4>1. raw.status \in {"canceled", "untold"}
        BY <2>2, <3>4 DEF Names
      <4> HIDE DEF partly
      <4> QED BY <3>1, <3>4, <4>1 DEF Statuses
    <3>5. CASE placed.status = "rejected"
      <4>1. raw.status \in {"rejected", "untold"}
        BY <2>2, <3>5 DEF Names
      <4> HIDE DEF partly
      <4> QED BY <3>1, <3>5, <4>1 DEF Statuses
    <3> QED BY <2>3, <3>2, <3>3, <3>4, <3>5 DEF VenueStatuses
  <2>7. After(placed, os[id])
    OBVIOUS
  <2>8. told.about = id /\ told.status = Status(raw) /\ told.filled = FilledOf(raw)
        /\ told = [about |-> told.about, id |-> told.id, status |-> told.status, filled |-> told.filled]
    OBVIOUS
  <2> HIDE DEF told
  <2>9. told \in ResultType
    BY <1>1, <2>4, <2>5, <2>6, <2>8 DEF ResultType, Reports
  <2>10. ReportIsTrue(os, r, told)
    BY <1>1, <2>3, <2>4, <2>5, <2>6, <2>7, <2>8, ClientAssumption DEF ReportIsTrue, After, VenueOrders
  <2> QED BY <2>1, <2>9, <2>10 DEF ResultIsTrue
<1> QED BY <1>2, <1>3

-----------------------------------------------------------------------------
(* Steps of the client that leave the orders alone.                        *)

\* A call for r changes, and with it what it returned.
LEMMA CallChanges ==
  ASSUME IInv, UNCHANGED orders,
         NEW r \in Requests, NEW c \in CallType, CallIsTrue(orders, r, c),
         calls' = [calls EXCEPT ![r] = c],
         \/ UNCHANGED results
         \/ \E s \in ResultType :
              results' = [results EXCEPT ![r] = s] /\ ResultIsTrue(orders, r, s)
  PROVE  IInv'
<1>1. OrdersSound'
  BY DEF IInv, OrdersSound, OpenUnfilled
<1>2. CallsTrue'
  BY DEF IInv, CallsTrue
<1>3. CASE UNCHANGED results
  BY <1>1, <1>2, <1>3 DEF IInv, ResultsTrue
<1>4. CASE \E s \in ResultType :
             results' = [results EXCEPT ![r] = s] /\ ResultIsTrue(orders, r, s)
  <2>1. ResultsTrue'
    BY <1>4 DEF IInv, ResultsTrue
  <2> QED BY <1>1, <1>2, <2>1 DEF IInv
<1> QED BY <1>3, <1>4

LEMMA NoCallIsTrue ==
  ASSUME NEW os, NEW r \in Requests
  PROVE  NoCall \in CallType /\ CallIsTrue(os, r, NoCall)
  BY ClientAssumption DEF NoCall, CallType, CallIsTrue, Operations

LEMMA BeginKeeps ==
  ASSUME IInv, NEW r \in Requests,
         PlaceOrder(r) \/ \E op \in Operations : CancelOrFetch(r, op)
  PROVE  IInv'
<1>1. CASE PlaceOrder(r)
  <2>1. Calling("place", 0) \in CallType /\ CallIsTrue(orders, r, Calling("place", 0))
    BY ClientAssumption DEF Calling, CallType, CallIsTrue, Operations
  <2> QED BY <1>1, <2>1, CallChanges DEF PlaceOrder, BeginCall
<1>2. CASE \E op \in Operations : CancelOrFetch(r, op)
  <2>1. PICK op \in Operations : CancelOrFetch(r, op)
    BY <1>2
  <2>2. ReportIsTrue(orders, r, results[r])
    BY <2>1 DEF CancelOrFetch, Known, IInv, ResultsTrue, ResultIsTrue
  <2>3. /\ results[r].id \in Nat \cup {MadeUp}
        /\ results[r].id # MadeUp =>
             results[r].id \in DOMAIN orders /\ orders[results[r].id].request = r
    BY <2>2 DEF ReportIsTrue, IInv, OrdersSound
  <2> DEFINE c == Calling(op, results[r].id)
  <2>4. c \in CallType /\ CallIsTrue(orders, r, c)
    BY <2>3, ClientAssumption DEF Calling, CallType, CallIsTrue
  <2>5. calls' = [calls EXCEPT ![r] = c] /\ UNCHANGED <<orders, results>>
    BY <2>1 DEF CancelOrFetch, BeginCall
  <2> HIDE DEF c
  <2> QED BY <2>4, <2>5, CallChanges
<1> QED BY <1>1, <1>2

LEMMA DryRunKeeps ==
  ASSUME IInv, NEW r \in Requests, DryRun(r)
  PROVE  IInv'
<1>1. Untracked \in ResultType /\ ResultIsTrue(orders, r, Untracked)
  BY ClientAssumption DEF Untracked, ResultType, Reports, ResultIsTrue, Statuses, IInv, OrdersSound
<1>2. results' = [results EXCEPT ![r] = Untracked] /\ UNCHANGED <<orders, calls>>
  BY DEF DryRun
<1>3. ResultsTrue'
  BY <1>1, <1>2 DEF IInv, ResultsTrue
<1> QED BY <1>2, <1>3 DEF IInv, OrdersSound, OpenUnfilled, CallsTrue

\* An attempt fails, and is repeated or not.
LEMMA FailsKeeps ==
  ASSUME IInv, UNCHANGED orders,
         NEW r \in Requests, calls[r].pc # "idle", NEW error \in Errors, Fails(r, error)
  PROVE  IInv'
<1>1. calls[r] \in CallType /\ CallIsTrue(orders, r, calls[r])
  BY DEF IInv, CallsTrue
<1>2. CASE Retryable(error) /\ MayRepeat(calls[r].attempt)
  <2> DEFINE c == [calls[r] EXCEPT !.pc = "backoff", !.answer = None]
  <2>1. c \in CallType /\ CallIsTrue(orders, r, c)
    BY <1>1, <1>2 DEF CallType, CallIsTrue, MayRepeat
  <2>2. calls' = [calls EXCEPT ![r] = c] /\ UNCHANGED results
    BY <1>2 DEF Fails, IInv, CallsTrue
  <2> HIDE DEF c
  <2> QED BY <2>1, <2>2, CallChanges
<1>3. CASE ~(Retryable(error) /\ MayRepeat(calls[r].attempt))
  <2>1. calls' = [calls EXCEPT ![r] = NoCall]
    BY <1>3 DEF Fails, Raise, Return
  <2>2. UNCHANGED results \/ results' = [results EXCEPT ![r] = Raised(error)]
    BY <1>3 DEF Fails, Raise, Return
  <2>3. Raised(error) \in ResultType /\ ResultIsTrue(orders, r, Raised(error))
    BY DEF Raised, Errors, ResultType, Failures, ResultIsTrue
  <2> QED BY <2>1, <2>2, <2>3, NoCallIsTrue, CallChanges
<1> QED BY <1>2, <1>3

LEMMA RetryKeeps ==
  ASSUME IInv, NEW r \in Requests, Retry(r)
  PROVE  IInv'
<1> DEFINE c == [calls[r] EXCEPT !.pc = "sending", !.attempt = AttemptAfter(@)]
<1>1. c \in CallType /\ CallIsTrue(orders, r, c)
  BY ClientAssumption DEF IInv, CallsTrue, CallType, CallIsTrue, Retry, AttemptAfter
<1>2. calls' = [calls EXCEPT ![r] = c] /\ UNCHANGED <<orders, results>>
  BY DEF Retry, IInv, CallsTrue
<1> HIDE DEF c
<1> QED BY <1>1, <1>2, CallChanges

LEMMA HearKeeps ==
  ASSUME IInv, NEW r \in Requests, Hear(r)
  PROVE  IInv'
<1>1. CASE Answered(r)
  <2>1. /\ calls[r].op \in Operations /\ calls[r].id \in DOMAIN orders
        /\ calls[r].answer \in VenueOrders /\ calls[r].answer.request = r
        /\ After(calls[r].answer, orders[calls[r].id])
    BY <1>1 DEF Answered, IInv, CallsTrue, CallIsTrue, CallType
  <2>0. PICK raw \in Payloads(calls[r].id, calls[r].answer) :
          Return(r, Outcome(calls[r].op, calls[r].id, raw))
    BY <1>1 DEF Answered
  <2> DEFINE s == Outcome(calls[r].op, calls[r].id, raw)
  <2>2. s \in ResultType /\ ResultIsTrue(orders, r, s)
    BY <2>1, OutcomeIsTrue DEF IInv, OrdersSound
  <2>3. /\ results' = [results EXCEPT ![r] = s] /\ calls' = [calls EXCEPT ![r] = NoCall]
        /\ UNCHANGED orders
    BY <1>1, <2>0 DEF Answered, Return
  <2> HIDE DEF s
  <2> QED BY <2>2, <2>3, NoCallIsTrue, CallChanges
<1>2. CASE AnswerLost(r)
  BY <1>2, FailsKeeps DEF AnswerLost, Errors
<1> QED BY <1>1, <1>2 DEF Hear

-----------------------------------------------------------------------------
(* Steps of the exchange.                                                  *)

\* One order goes on, and no call hears of it.
LEMMA OrderGoesOn ==
  ASSUME IInv, NEW i \in DOMAIN orders, NEW placed \in VenueOrders,
         orders[i].status = "open", placed.request = orders[i].request,
         orders[i].filled <= placed.filled,
         placed.status = "open" => placed.filled < Amount
  PROVE  LET ns == [orders EXCEPT ![i] = placed]
         IN  /\ ns \in Seq(VenueOrders) /\ Evolve(orders, ns) /\ DOMAIN ns = DOMAIN orders
             /\ OpenUnfilled(ns) /\ ns[i] = placed
<1> DEFINE ns == [orders EXCEPT ![i] = placed]
<1>1. orders \in Seq(VenueOrders)
  BY DEF IInv, OrdersSound
<1>2. ns \in Seq(VenueOrders) /\ DOMAIN ns = DOMAIN orders /\ ns[i] = placed
      /\ \A j \in DOMAIN orders : j # i => ns[j] = orders[j]
  BY <1>1
<1>3. \A j \in DOMAIN orders : orders[j] \in VenueOrders
  BY <1>1
<1>4. Evolve(orders, ns)
  BY <1>2, <1>3 DEF Evolve, After, VenueOrders
<1>5. OpenUnfilled(ns)
  BY <1>2 DEF IInv, OrdersSound, OpenUnfilled
<1> QED BY <1>2, <1>4, <1>5

\* Whatever the exchange does to its orders, what was answered and reported
\* stays true.
LEMMA OthersStayTrue ==
  ASSUME IInv, orders' \in Seq(VenueOrders), Evolve(orders, orders')
  PROVE  /\ \A r \in Requests : CallIsTrue(orders', r, calls[r])
         /\ results \in [Requests -> ResultType \cup {None}]
         /\ \A r \in Requests : ResultIsTrue(orders', r, results[r])
<1>1. orders \in Seq(VenueOrders) /\ calls \in [Requests -> CallType]
      /\ results \in [Requests -> ResultType \cup {None}]
  BY DEF IInv, OrdersSound, CallsTrue, ResultsTrue
<1>2. \A r \in Requests : CallIsTrue(orders', r, calls[r])
  <2> TAKE r \in Requests
  <2>1. calls[r] \in CallType /\ CallIsTrue(orders, r, calls[r])
    BY <1>1 DEF IInv, CallsTrue
  <2> QED BY <1>1, <2>1, AnswerStaysTrue
<1>4. \A r \in Requests : ResultIsTrue(orders', r, results[r])
  <2> TAKE r \in Requests
  <2>1. results[r] \in ResultType \cup {None} /\ ResultIsTrue(orders, r, results[r])
    BY <1>1 DEF IInv, ResultsTrue
  <2> QED BY <1>1, <2>1, ReportStaysTrue
<1> QED BY <1>1, <1>2, <1>4

LEMMA TradeKeeps ==
  ASSUME IInv, NEW i \in DOMAIN orders,
         Trade(i) \/ \E status \in VenueStatuses : Close(i, status)
  PROVE  IInv'
<1>1. orders[i] \in VenueOrders /\ orders[i].status = "open" /\ orders[i].filled < Amount
  BY DEF IInv, OrdersSound, OpenUnfilled, Trade, Close
<1>2. UNCHANGED <<calls, results>>
  BY DEF Trade, Close
<1>3. \E placed \in VenueOrders :
        /\ placed.request = orders[i].request /\ orders[i].filled <= placed.filled
        /\ placed.status = "open" => placed.filled < Amount
        /\ orders' = [orders EXCEPT ![i] = placed]
  <2>1. CASE Trade(i)
    <3> DEFINE placed == [orders[i] EXCEPT !.filled = @ + 1,
                           !.status = IF orders[i].filled + 1 = Amount THEN "closed" ELSE "open"]
    <3>1. placed \in VenueOrders /\ placed.request = orders[i].request
          /\ orders[i].filled <= placed.filled /\ (placed.status = "open" => placed.filled < Amount)
      <4>1. /\ orders[i].request \in Requests /\ orders[i].filled \in Nat
            /\ orders[i].filled + 1 \in 0 .. Amount
        BY <1>1, ClientAssumption DEF VenueOrders
      <4>2. placed.request = orders[i].request /\ placed.filled = orders[i].filled + 1
            /\ placed.status = IF orders[i].filled + 1 = Amount THEN "closed" ELSE "open"
        BY <1>1 DEF VenueOrders
      <4>3. placed \in VenueOrders
        BY <1>1, <4>1, <4>2 DEF VenueOrders, VenueStatuses
      <4> QED BY <4>1, <4>2, <4>3, ClientAssumption
    <3>2. orders' = [orders EXCEPT ![i] = placed]
      BY <2>1 DEF Trade, IInv, OrdersSound
    <3> HIDE DEF placed
    <3> QED BY <3>1, <3>2
  <2>2. CASE \E status \in VenueStatuses : Close(i, status)
    <3>1. PICK status \in VenueStatuses : Close(i, status)
      BY <2>2
    <3> DEFINE placed == [orders[i] EXCEPT !.status = status]
    <3>2. placed \in VenueOrders /\ placed.request = orders[i].request
          /\ orders[i].filled <= placed.filled /\ placed.status # "open"
      BY <1>1, <3>1, ClientAssumption DEF VenueOrders, Close
    <3>3. orders' = [orders EXCEPT ![i] = placed]
      BY <3>1 DEF Close, IInv, OrdersSound
    <3> HIDE DEF placed
    <3> QED BY <3>2, <3>3
  <2> QED BY <2>1, <2>2
<1>4. orders' \in Seq(VenueOrders) /\ Evolve(orders, orders') /\ OpenUnfilled(orders')
  <2>1. PICK placed \in VenueOrders :
          /\ placed.request = orders[i].request /\ orders[i].filled <= placed.filled
          /\ placed.status = "open" => placed.filled < Amount
          /\ orders' = [orders EXCEPT ![i] = placed]
    BY <1>3
  <2> DEFINE ns == [orders EXCEPT ![i] = placed]
  <2>2. ns \in Seq(VenueOrders) /\ Evolve(orders, ns) /\ OpenUnfilled(ns)
    BY <1>1, <2>1, OrderGoesOn
  <2>3. orders' = ns
    BY <2>1
  <2> HIDE DEF ns
  <2> QED BY <2>2, <2>3
<1> QED
  BY <1>2, <1>4, OthersStayTrue DEF IInv, OrdersSound, CallsTrue, ResultsTrue, OpenUnfilled

\* A call is answered with an order that is there.
LEMMA AnswersKeeps ==
  ASSUME IInv, UNCHANGED results,
         orders' \in Seq(VenueOrders), Evolve(orders, orders'),
         OpenUnfilled(orders'),
         NEW r \in Requests, calls[r].pc = "sending",
         NEW id \in DOMAIN orders', orders'[id].request = r,
         Answers(r, id, orders'[id])
  PROVE  IInv'
<1> DEFINE c == [calls[r] EXCEPT !.pc = "answering", !.id = id, !.answer = orders'[id]]
<1>1. orders'[id] \in VenueOrders /\ id \in Nat
  OBVIOUS
<1>2. c \in CallType /\ CallIsTrue(orders', r, c)
  <2>1. calls[r] \in CallType
    BY DEF IInv, CallsTrue
  <2>2. c \in CallType /\ c.pc = "answering" /\ c.id = id /\ c.answer = orders'[id]
    BY <1>1, <2>1 DEF CallType
  <2>3. After(orders'[id], orders'[id])
    BY <1>1, ClientAssumption DEF After, VenueOrders
  <2> QED BY <1>1, <2>2, <2>3 DEF CallIsTrue
<1>3. calls' = [calls EXCEPT ![r] = c]
  BY DEF Answers, IInv, CallsTrue
<1> HIDE DEF c
<1>4. CallsTrue'
  BY <1>2, <1>3, OthersStayTrue DEF IInv, CallsTrue
<1>5. ResultsTrue' /\ OrdersSound'
  BY OthersStayTrue DEF ResultsTrue, OrdersSound, OpenUnfilled
<1> QED BY <1>4, <1>5 DEF IInv

LEMMA AcceptKeeps ==
  ASSUME IInv, NEW r \in Requests, Accept(r)
  PROVE  IInv'
<1>1. PICK status \in VenueStatuses, filled \in 0 .. Amount :
        /\ status = "open" => filled < Amount
        /\ orders' = Append(orders, [request |-> r, status |-> status, filled |-> filled])
        /\ Answers(r, Len(orders) + 1, [request |-> r, status |-> status, filled |-> filled])
  BY DEF Accept
<1> DEFINE placed == [request |-> r, status |-> status, filled |-> filled]
           id == Len(orders) + 1
<1>2. placed \in VenueOrders /\ orders \in Seq(VenueOrders)
  BY DEF VenueOrders, IInv, OrdersSound
<1>3. /\ orders' \in Seq(VenueOrders) /\ id \in DOMAIN orders' /\ orders'[id] = placed
      /\ DOMAIN orders' = DOMAIN orders \cup {id} /\ id \notin DOMAIN orders
      /\ \A i \in DOMAIN orders : orders'[i] = orders[i]
  BY <1>1, <1>2
<1>4. Evolve(orders, orders')
  <2>1. \A i \in DOMAIN orders : orders[i] \in VenueOrders
    BY <1>2
  <2> QED BY <1>3, <2>1 DEF Evolve, After, VenueOrders
<1>5. OpenUnfilled(orders')
  BY <1>1, <1>3 DEF OpenUnfilled, IInv, OrdersSound
<1>7. Answers(r, id, orders'[id]) /\ orders'[id].request = r
  BY <1>1, <1>3
<1>8. calls[r].pc = "sending" /\ UNCHANGED results
  BY DEF Accept, Sent
<1> HIDE DEF placed, id
<1> QED BY <1>3, <1>4, <1>5, <1>7, <1>8, AnswersKeeps

LEMMA CancelThereKeeps ==
  ASSUME IInv, NEW r \in Requests, CancelThere(r)
  PROVE  IInv'
<1> DEFINE id == calls[r].id
           placed == [orders[id] EXCEPT !.status = "canceled"]
<1>1. id \in DOMAIN orders /\ orders[id].request = r /\ orders[id].status = "open"
  BY DEF CancelThere, Sent, IInv, CallsTrue, CallIsTrue
<1>2. orders[id] \in VenueOrders
  BY <1>1 DEF IInv, OrdersSound
<1>3. placed \in VenueOrders /\ placed.request = orders[id].request
      /\ orders[id].filled <= placed.filled /\ placed.status # "open"
  BY <1>2, ClientAssumption DEF VenueOrders, VenueStatuses
<1>4. orders' = [orders EXCEPT ![id] = placed]
  BY DEF CancelThere, IInv, OrdersSound
<1>5. Answers(r, id, orders'[id]) /\ calls[r].pc = "sending" /\ UNCHANGED results
  BY DEF CancelThere, Sent
<1> HIDE DEF id, placed
<1>6. /\ orders' \in Seq(VenueOrders) /\ Evolve(orders, orders') /\ DOMAIN orders' = DOMAIN orders
      /\ OpenUnfilled(orders') /\ orders'[id] = placed
  BY <1>1, <1>3, <1>4, OrderGoesOn
<1> QED BY <1>1, <1>3, <1>5, <1>6, AnswersKeeps

LEMMA FetchThereKeeps ==
  ASSUME IInv, NEW r \in Requests, FetchThere(r)
  PROVE  IInv'
<1>1. calls[r].id \in DOMAIN orders /\ orders[calls[r].id].request = r
  BY DEF FetchThere, Sent, IInv, CallsTrue, CallIsTrue
<1>2. orders' = orders /\ UNCHANGED results /\ calls[r].pc = "sending"
      /\ Answers(r, calls[r].id, orders'[calls[r].id])
  BY DEF FetchThere, Sent
<1>3. orders \in Seq(VenueOrders) /\ OpenUnfilled(orders)
  BY DEF IInv, OrdersSound
<1>4. Evolve(orders, orders)
  <2>1. \A i \in DOMAIN orders : orders[i] \in VenueOrders
    BY <1>3
  <2> QED BY <2>1, ClientAssumption DEF Evolve, After, VenueOrders
<1> QED BY <1>1, <1>2, <1>3, <1>4, AnswersKeeps

LEMMA ReachKeeps ==
  ASSUME IInv, NEW r \in Requests, Reach(r)
  PROVE  IInv'
<1>1. CASE Refuse(r)
  BY <1>1, FailsKeeps DEF Refuse
<1> QED BY <1>1, AcceptKeeps, CancelThereKeeps, FetchThereKeeps DEF Reach

-----------------------------------------------------------------------------

LEMMA InitEstablishes == Init => IInv
<1> SUFFICES ASSUME Init PROVE IInv
  OBVIOUS
<1>1. orders = <<>> /\ DOMAIN orders = {}
  BY DEF Init
<1>2. OrdersSound
  BY <1>1 DEF OrdersSound, OpenUnfilled
<1>3. CallsTrue
  BY NoCallIsTrue DEF Init, CallsTrue
<1>4. ResultsTrue
  BY DEF Init, ResultsTrue, ResultIsTrue
<1> QED BY <1>1, <1>2, <1>3, <1>4 DEF IInv

LEMMA StepKeeps == IInv /\ [Next]_vars => IInv'
<1> SUFFICES ASSUME IInv, [Next]_vars PROVE IInv'
  OBVIOUS
<1>1. CASE UNCHANGED vars
  BY <1>1 DEF vars, IInv, OrdersSound, OpenUnfilled, CallsTrue, ResultsTrue
<1>2. ASSUME NEW r \in Requests, PlaceOrder(r) \/ \E op \in Operations : CancelOrFetch(r, op)
      PROVE  IInv'
  BY <1>2, BeginKeeps
<1>3. ASSUME NEW r \in Requests, DryRun(r) PROVE IInv'
  BY <1>3, DryRunKeeps
<1>4. ASSUME NEW r \in Requests, Reach(r) PROVE IInv'
  BY <1>4, ReachKeeps
<1>5. ASSUME NEW r \in Requests, Hear(r) PROVE IInv'
  BY <1>5, HearKeeps
<1>6. ASSUME NEW r \in Requests, Retry(r) PROVE IInv'
  BY <1>6, RetryKeeps
<1>7. ASSUME NEW i \in DOMAIN orders, Trade(i) \/ \E status \in VenueStatuses : Close(i, status)
      PROVE  IInv'
  BY <1>7, TradeKeeps
<1> QED BY <1>1, <1>2, <1>3, <1>4, <1>5, <1>6, <1>7 DEF Next

LEMMA Invariance == Spec => []IInv
  BY InitEstablishes, StepKeeps, PTL DEF Spec

-----------------------------------------------------------------------------
(* Theorems.                                                               *)

\* Every variable has its type: no call is tried more than MaxAttempts times,
\* and no order is filled beyond its amount (with_retries, _normalize_order).
THEOREM TypeCorrect == Spec => []TypeOK
<1>1. IInv => TypeOK
  BY DEF IInv, TypeOK, OrdersSound, CallsTrue, CallType, ResultsTrue, ResultType
<1> QED BY <1>1, Invariance, PTL

\* What was reported of an order stays true whatever is lost and repeated, and
\* whatever becomes of the order (place_order, cancel_order, fetch_order).
THEOREM ReportsStayTrue == Spec => []ReportsHold
<1>1. IInv => ReportsHold
  <2> SUFFICES ASSUME IInv, NEW r \in Trading, Known(r) PROVE ReportIsTrue(orders, r, results[r])
    BY DEF ReportsHold, ReportIsTrue
  <2>1. r \in Requests
    BY ClientAssumption
  <2> QED BY <2>1 DEF IInv, ResultsTrue, ResultIsTrue, Known
<1> QED BY <1>1, Invariance, PTL

-----------------------------------------------------------------------------
(* How often a request is at the exchange.  An attempt leaves one order    *)
(* there at most, and the attempts are counted.                            *)

Times(r) == Cardinality(OrdersOf(r))

CountOf(r) ==
  /\ IsFiniteSet(OrdersOf(r)) /\ Times(r) <= MaxAttempts
  /\ r \notin Trading => OrdersOf(r) = {} /\ calls[r].pc = "idle"
  /\ calls[r].pc = "idle" /\ results[r] = None => OrdersOf(r) = {}
  /\ calls[r].op # "place" /\ calls[r].pc # "idle" => results[r] # None
  /\ calls[r].op = "place" /\ calls[r].pc = "sending" => Times(r) < calls[r].attempt
  /\ calls[r].op = "place" /\ calls[r].pc \in {"answering", "backoff"} => Times(r) <= calls[r].attempt

Counted == \A r \in Requests : CountOf(r)

\* A request whose orders, call and result stay is counted as before.
LEMMA UncalledStaysCounted ==
  ASSUME NEW r \in Requests, CountOf(r), OrdersOf(r)' = OrdersOf(r),
         calls'[r] = calls[r], results'[r] = results[r]
  PROVE  CountOf(r)'
  BY DEF CountOf, Times

\* A step of the client about one request, and none of the exchange.
LEMMA ClientStepCounts ==
  ASSUME IInv, Counted, NEW r \in Requests, NEW c, NEW s, UNCHANGED orders,
         calls' = [calls EXCEPT ![r] = c], results' = [results EXCEPT ![r] = s], CountOf(r)'
  PROVE  Counted'
<1> SUFFICES ASSUME NEW q \in Requests, q # r PROVE CountOf(q)'
  BY DEF Counted
<1>1. calls'[q] = calls[q] /\ results'[q] = results[q] /\ OrdersOf(q)' = OrdersOf(q)
  BY DEF IInv, CallsTrue, ResultsTrue, OrdersOf
<1> QED BY <1>1, UncalledStaysCounted DEF Counted

\* The client begins, repeats and ends calls: the orders stay.
LEMMA BeginCounts ==
  ASSUME IInv, Counted, NEW r \in Requests,
         PlaceOrder(r) \/ (\E op \in Operations : CancelOrFetch(r, op)) \/ DryRun(r)
  PROVE  Counted'
<1>1. CountOf(r) /\ OrdersOf(r)' = OrdersOf(r)
  BY DEF Counted, OrdersOf, PlaceOrder, CancelOrFetch, DryRun
<1>2. calls \in [Requests -> CallType] /\ results \in [Requests -> ResultType \cup {None}]
  BY DEF IInv, CallsTrue, ResultsTrue
<1>3. CASE PlaceOrder(r)
  <2> DEFINE c == Calling("place", 0)
  <2>1. c.op = "place" /\ c.pc = "sending" /\ c.attempt = 1
    BY DEF Calling
  <2>2. /\ calls' = [calls EXCEPT ![r] = c] /\ results' = [results EXCEPT ![r] = results[r]]
        /\ UNCHANGED orders /\ r \in Trading /\ OrdersOf(r) = {}
    BY <1>1, <1>2, <1>3 DEF PlaceOrder, BeginCall, CountOf
  <2> HIDE DEF c
  <2>3. calls'[r] = c /\ OrdersOf(r)' = {} /\ Times(r)' = 0 /\ IsFiniteSet(OrdersOf(r)')
    BY <1>1, <1>2, <2>2, FS_EmptySet DEF Times
  <2>4. CountOf(r)'
    BY <2>1, <2>2, <2>3, ClientAssumption DEF CountOf
  <2> QED BY <2>2, <2>4, ClientStepCounts
<1>4. CASE \E op \in Operations : CancelOrFetch(r, op)
  <2>1. PICK op \in {"cancel", "fetch"} : CancelOrFetch(r, op)
    BY <1>4 DEF CancelOrFetch
  <2> DEFINE c == Calling(op, results[r].id)
  <2>2. c.op = op /\ c.pc = "sending"
    BY DEF Calling
  <2>3. results[r].about \in OrdersOf(r) /\ results[r] # None
    BY <2>1 DEF CancelOrFetch, Known, IInv, ResultsTrue, ResultIsTrue, ReportIsTrue, OrdersOf
  <2>4. /\ calls' = [calls EXCEPT ![r] = c] /\ results' = [results EXCEPT ![r] = results[r]]
        /\ UNCHANGED orders
    BY <1>2, <2>1 DEF CancelOrFetch, BeginCall
  <2> HIDE DEF c
  <2>5. calls'[r] = c /\ results'[r] = results[r] /\ Times(r)' = Times(r)
    BY <1>1, <1>2, <2>4 DEF Times
  <2>6. CountOf(r)'
    BY <1>1, <2>2, <2>3, <2>5 DEF CountOf
  <2> QED BY <2>4, <2>6, ClientStepCounts
<1>5. CASE DryRun(r)
  <2>1. /\ calls' = [calls EXCEPT ![r] = calls[r]] /\ results' = [results EXCEPT ![r] = Untracked]
        /\ UNCHANGED orders /\ r \notin Trading
    BY <1>2, <1>5 DEF DryRun
  <2>2. calls'[r] = calls[r] /\ Times(r)' = Times(r)
    BY <1>1, <1>2, <2>1 DEF Times
  <2>3. CountOf(r)'
    BY <1>1, <2>1, <2>2 DEF CountOf
  <2> QED BY <2>1, <2>3, ClientStepCounts
<1> QED BY <1>3, <1>4, <1>5

LEMMA FailsCounts ==
  ASSUME IInv, Counted, UNCHANGED orders,
         NEW r \in Requests, calls[r].pc # "idle", NEW error \in Errors, Fails(r, error)
  PROVE  Counted'
<1>1. CountOf(r) /\ OrdersOf(r)' = OrdersOf(r) /\ Times(r)' = Times(r)
  BY DEF Counted, OrdersOf, Times
<1>2. /\ calls \in [Requests -> CallType] /\ results \in [Requests -> ResultType \cup {None}]
      /\ calls[r].pc \in {"sending", "answering", "backoff"}
  BY DEF IInv, CallsTrue, ResultsTrue, CallType
<1>3. OrdersOf(r) \subseteq DOMAIN orders /\ Times(r) \in Nat
  BY <1>1, FS_CardinalityType DEF CountOf, Times, OrdersOf
<1>4. CASE Retryable(error) /\ MayRepeat(calls[r].attempt)
  <2> DEFINE c == [calls[r] EXCEPT !.pc = "backoff", !.answer = None]
  <2>1. c.op = calls[r].op /\ c.pc = "backoff" /\ c.attempt = calls[r].attempt
        /\ calls[r].attempt \in Nat
    BY <1>2 DEF CallType
  <2>2. calls' = [calls EXCEPT ![r] = c] /\ results' = [results EXCEPT ![r] = results[r]]
    BY <1>2, <1>4 DEF Fails
  <2> HIDE DEF c
  <2>3. calls'[r] = c /\ results'[r] = results[r]
    BY <1>2, <2>2
  <2>4. CountOf(r)'
    BY <1>1, <1>2, <1>3, <2>1, <2>3 DEF CountOf
  <2> QED BY <2>2, <2>4, ClientStepCounts
<1>5. CASE ~(Retryable(error) /\ MayRepeat(calls[r].attempt))
  <2>1. calls' = [calls EXCEPT ![r] = NoCall]
    BY <1>5 DEF Fails, Raise, Return
  <2>2. \E s : s # None /\ results' = [results EXCEPT ![r] = s]
    <3>1. CASE calls[r].op = "place"
      <4>1. Raised(error) \in Failures
        BY DEF Raised, Failures, Errors
      <4> QED BY <1>5, <3>1, <4>1, NoneAssumption DEF Fails, Raise, Return
    <3>2. CASE calls[r].op # "place"
      <4>1. results[r] # None
        BY <1>1, <3>2 DEF CountOf
      <4>2. results' = [results EXCEPT ![r] = results[r]]
        BY <1>2, <1>5, <3>2 DEF Fails, Raise
      <4> QED BY <4>1, <4>2
    <3> QED BY <3>1, <3>2
  <2>3. PICK s : s # None /\ results' = [results EXCEPT ![r] = s]
    BY <2>2
  <2>4. calls'[r] = NoCall /\ results'[r] = s /\ NoCall.pc = "idle"
    BY <1>2, <2>1, <2>3 DEF NoCall
  <2>5. CountOf(r)'
    BY <1>1, <2>3, <2>4 DEF CountOf
  <2> QED BY <2>1, <2>3, <2>5, ClientStepCounts
<1> QED BY <1>4, <1>5

LEMMA RetryCounts ==
  ASSUME IInv, Counted, NEW r \in Requests, Retry(r)
  PROVE  Counted'
<1>1. CountOf(r) /\ OrdersOf(r)' = OrdersOf(r) /\ Times(r)' = Times(r)
  BY DEF Counted, OrdersOf, Times, Retry
<1>2. calls \in [Requests -> CallType] /\ results \in [Requests -> ResultType \cup {None}]
  BY DEF IInv, CallsTrue, ResultsTrue
<1>3. Times(r) \in Nat
  BY <1>1, FS_CardinalityType DEF CountOf, Times
<1> DEFINE c == [calls[r] EXCEPT !.pc = "sending", !.attempt = AttemptAfter(@)]
<1>4. c.op = calls[r].op /\ c.pc = "sending" /\ c.attempt = calls[r].attempt + 1
      /\ calls[r].attempt \in Nat /\ calls[r].pc = "backoff"
  BY <1>2, ClientAssumption DEF CallType, AttemptAfter, Retry
<1>5. /\ calls' = [calls EXCEPT ![r] = c] /\ results' = [results EXCEPT ![r] = results[r]]
      /\ UNCHANGED orders
  BY <1>2 DEF Retry
<1> HIDE DEF c
<1>6. calls'[r] = c /\ results'[r] = results[r]
  BY <1>2, <1>5
<1>7. CountOf(r)'
  BY <1>1, <1>3, <1>4, <1>6 DEF CountOf
<1> QED BY <1>5, <1>7, ClientStepCounts

LEMMA HearCounts ==
  ASSUME IInv, Counted, NEW r \in Requests, Hear(r)
  PROVE  Counted'
<1>1. CASE Answered(r)
  <2>1. /\ calls \in [Requests -> CallType] /\ results \in [Requests -> ResultType \cup {None}]
        /\ orders \in Seq(VenueOrders)
    BY DEF IInv, CallsTrue, ResultsTrue, OrdersSound
  <2>2. PICK raw \in Payloads(calls[r].id, calls[r].answer) :
          Return(r, Outcome(calls[r].op, calls[r].id, raw))
    BY <1>1 DEF Answered
  <2>3. /\ calls[r].op \in Operations /\ calls[r].id \in DOMAIN orders
        /\ calls[r].answer \in VenueOrders /\ calls[r].answer.request = r
        /\ After(calls[r].answer, orders[calls[r].id])
    BY <1>1 DEF Answered, IInv, CallsTrue, CallIsTrue, CallType
  <2> DEFINE s == Outcome(calls[r].op, calls[r].id, raw)
  <2>4. s # None
    BY <2>1, <2>2, <2>3, OutcomeIsTrue, NoneAssumption DEF ResultType
  <2>5. /\ results' = [results EXCEPT ![r] = s] /\ calls' = [calls EXCEPT ![r] = NoCall]
        /\ UNCHANGED orders
    BY <1>1, <2>2 DEF Answered, Return
  <2> HIDE DEF s
  <2>6. calls'[r] = NoCall /\ results'[r] = s /\ NoCall.pc = "idle"
    BY <2>1, <2>5 DEF NoCall
  <2>7. CountOf(r) /\ OrdersOf(r)' = OrdersOf(r) /\ Times(r)' = Times(r) /\ calls[r].pc # "idle"
    BY <1>1 DEF Counted, OrdersOf, Times, Answered
  <2>8. CountOf(r)'
    BY <2>4, <2>6, <2>7 DEF CountOf
  <2> QED BY <2>5, <2>8, ClientStepCounts
<1>2. CASE AnswerLost(r)
  BY <1>2, FailsCounts DEF AnswerLost, Errors
<1> QED BY <1>1, <1>2 DEF Hear

\* The exchange accepts one order more, for an attempt not yet counted in.
LEMMA AcceptCounts ==
  ASSUME IInv, Counted, NEW r \in Requests, Accept(r)
  PROVE  Counted'
<1>1. PICK status \in VenueStatuses, filled \in 0 .. Amount :
        /\ orders' = Append(orders, [request |-> r, status |-> status, filled |-> filled])
        /\ Answers(r, Len(orders) + 1, [request |-> r, status |-> status, filled |-> filled])
  BY DEF Accept
<1> DEFINE placed == [request |-> r, status |-> status, filled |-> filled]
           id == Len(orders) + 1
<1>2. /\ calls \in [Requests -> CallType] /\ results \in [Requests -> ResultType \cup {None}]
      /\ orders \in Seq(VenueOrders) /\ placed \in VenueOrders
  BY DEF IInv, CallsTrue, ResultsTrue, OrdersSound, VenueOrders
<1>3. /\ DOMAIN orders' = DOMAIN orders \cup {id} /\ id \notin DOMAIN orders
      /\ orders'[id].request = r /\ \A i \in DOMAIN orders : orders'[i] = orders[i]
  BY <1>1, <1>2
<1>4. calls[r].op = "place" /\ calls[r].pc = "sending" /\ UNCHANGED results
  BY DEF Accept, Sent
<1>5. /\ calls'[r].op = "place" /\ calls'[r].pc = "answering"
      /\ calls'[r].attempt = calls[r].attempt /\ calls[r].attempt \in 1 .. MaxAttempts
      /\ \A q \in Requests : q # r => calls'[q] = calls[q]
  BY <1>1, <1>2, <1>4 DEF Answers, CallType
<1>6. OrdersOf(r)' = OrdersOf(r) \cup {id} /\ id \notin OrdersOf(r)
  BY <1>3 DEF OrdersOf
<1>7. \A q \in Requests : q # r => OrdersOf(q)' = OrdersOf(q)
  BY <1>3 DEF OrdersOf
<1> HIDE DEF placed, id
<1>8. CountOf(r)'
  <2>1. CountOf(r) /\ Times(r) < calls[r].attempt /\ r \in Trading
    BY <1>4 DEF Counted, CountOf
  <2>2. IsFiniteSet(OrdersOf(r)') /\ Times(r)' = Times(r) + 1 /\ Times(r) \in Nat
    BY <1>6, <2>1, FS_AddElement, FS_CardinalityType DEF CountOf, Times
  <2> QED BY <1>5, <2>1, <2>2, ClientAssumption DEF CountOf
<1>9. ASSUME NEW q \in Requests, q # r PROVE CountOf(q)'
  BY <1>4, <1>5, <1>7, <1>9, UncalledStaysCounted DEF Counted
<1> QED BY <1>8, <1>9 DEF Counted

\* Whatever else the exchange does, an order stays of the request it is of.
LEMMA SameOrdersCount ==
  ASSUME IInv, Counted, UNCHANGED results, DOMAIN orders' = DOMAIN orders,
         \A i \in DOMAIN orders : orders'[i].request = orders[i].request,
         \A r \in Requests :
           \/ calls'[r] = calls[r]
           \/ /\ calls[r].op # "place" /\ calls[r].pc = "sending"
              /\ calls'[r].op = calls[r].op /\ calls'[r].pc = "answering"
  PROVE  Counted'
<1> SUFFICES ASSUME NEW r \in Requests PROVE CountOf(r)'
  BY DEF Counted
<1>1. CountOf(r) /\ OrdersOf(r)' = OrdersOf(r) /\ Times(r)' = Times(r) /\ results'[r] = results[r]
  BY DEF Counted, OrdersOf, Times
<1> QED BY <1>1 DEF CountOf

LEMMA ExchangeCounts ==
  ASSUME IInv, Counted,
         \/ \E i \in DOMAIN orders : Trade(i) \/ \E status \in VenueStatuses : Close(i, status)
         \/ \E r \in Requests : CancelThere(r) \/ FetchThere(r)
  PROVE  Counted'
<1>1. orders \in Seq(VenueOrders) /\ calls \in [Requests -> CallType]
  BY DEF IInv, OrdersSound, CallsTrue
<1>2. \A i \in DOMAIN orders : orders[i] \in VenueOrders
  BY <1>1
<1>3. CASE \E i \in DOMAIN orders : Trade(i) \/ \E status \in VenueStatuses : Close(i, status)
  <2>1. PICK i \in DOMAIN orders : Trade(i) \/ \E status \in VenueStatuses : Close(i, status)
    BY <1>3
  <2>2. UNCHANGED <<calls, results>>
    BY <2>1 DEF Trade, Close
  <2>3. \E placed : placed.request = orders[i].request /\ orders' = [orders EXCEPT ![i] = placed]
    <3>1. CASE Trade(i)
      <4> DEFINE placed == [orders[i] EXCEPT !.filled = @ + 1,
                             !.status = IF orders[i].filled + 1 = Amount THEN "closed" ELSE "open"]
      <4>1. placed.request = orders[i].request
        BY <1>2 DEF VenueOrders
      <4>2. orders' = [orders EXCEPT ![i] = placed]
        BY <1>1, <3>1 DEF Trade
      <4> HIDE DEF placed
      <4> QED BY <4>1, <4>2
    <3>2. CASE \E status \in VenueStatuses : Close(i, status)
      <4>1. PICK status \in VenueStatuses : Close(i, status)
        BY <3>2
      <4> DEFINE placed == [orders[i] EXCEPT !.status = status]
      <4>2. placed.request = orders[i].request
        BY <1>2 DEF VenueOrders
      <4>3. orders' = [orders EXCEPT ![i] = placed]
        BY <1>1, <4>1 DEF Close
      <4> HIDE DEF placed
      <4> QED BY <4>2, <4>3
    <3> QED BY <2>1, <3>1, <3>2
  <2>4. DOMAIN orders' = DOMAIN orders /\ \A j \in DOMAIN orders : orders'[j].request = orders[j].request
    BY <1>1, <2>3
  <2> QED BY <2>2, <2>4, SameOrdersCount
<1>4. CASE \E r \in Requests : CancelThere(r) \/ FetchThere(r)
  <2>1. PICK r \in Requests : CancelThere(r) \/ FetchThere(r)
    BY <1>4
  <2>2. /\ calls[r].op # "place" /\ calls[r].pc = "sending" /\ UNCHANGED results
        /\ Answers(r, calls[r].id, orders'[calls[r].id])
    BY <2>1 DEF CancelThere, FetchThere, Sent
  <2>3. /\ calls'[r].op = calls[r].op /\ calls'[r].pc = "answering"
        /\ \A q \in Requests : q # r => calls'[q] = calls[q]
    BY <1>1, <2>2 DEF Answers, CallType
  <2>4. DOMAIN orders' = DOMAIN orders /\ \A j \in DOMAIN orders : orders'[j].request = orders[j].request
    <3>1. CASE CancelThere(r)
      <4> DEFINE id == calls[r].id
                 placed == [orders[id] EXCEPT !.status = "canceled"]
      <4>1. id \in DOMAIN orders
        BY <3>1 DEF CancelThere, Sent, IInv, CallsTrue, CallIsTrue
      <4>2. placed.request = orders[id].request
        BY <1>2, <4>1 DEF VenueOrders
      <4>3. orders' = [orders EXCEPT ![id] = placed]
        BY <1>1, <3>1 DEF CancelThere
      <4> HIDE DEF id, placed
      <4> QED BY <1>1, <4>1, <4>2, <4>3
    <3>2. CASE FetchThere(r)
      BY <3>2 DEF FetchThere
    <3> QED BY <2>1, <3>1, <3>2
  <2> QED BY <2>2, <2>3, <2>4, SameOrdersCount
<1> QED BY <1>3, <1>4

LEMMA InitCounts == Init => Counted
<1> SUFFICES ASSUME Init, NEW r \in Requests PROVE CountOf(r)
  BY DEF Counted
<1>1. orders = <<>> /\ calls[r] = NoCall /\ DOMAIN orders = {}
  BY DEF Init
<1>2. OrdersOf(r) = {}
  BY <1>1 DEF OrdersOf
<1>3. Times(r) = 0 /\ IsFiniteSet(OrdersOf(r))
  BY <1>2, FS_EmptySet DEF Times
<1> QED BY <1>1, <1>2, <1>3, ClientAssumption DEF CountOf, NoCall

LEMMA StepCounts == IInv /\ Counted /\ [Next]_vars => Counted'
<1> SUFFICES ASSUME IInv, Counted, [Next]_vars PROVE Counted'
  OBVIOUS
<1>1. CASE UNCHANGED vars
  BY <1>1 DEF vars, Counted, CountOf, Times, OrdersOf
<1>2. ASSUME NEW r \in Requests,
             PlaceOrder(r) \/ (\E op \in Operations : CancelOrFetch(r, op)) \/ DryRun(r)
      PROVE  Counted'
  BY <1>2, BeginCounts
<1>3. ASSUME NEW r \in Requests, Reach(r) PROVE Counted'
  <2>1. CASE Refuse(r)
    BY <2>1, FailsCounts DEF Refuse
  <2> QED BY <1>3, <2>1, AcceptCounts, ExchangeCounts DEF Reach
<1>4. ASSUME NEW r \in Requests, Hear(r) PROVE Counted'
  BY <1>4, HearCounts
<1>5. ASSUME NEW r \in Requests, Retry(r) PROVE Counted'
  BY <1>5, RetryCounts
<1>6. ASSUME NEW i \in DOMAIN orders, Trade(i) \/ \E status \in VenueStatuses : Close(i, status)
      PROVE  Counted'
  BY <1>6, ExchangeCounts
<1> QED BY <1>1, <1>2, <1>3, <1>4, <1>5, <1>6 DEF Next

\* However many answers are lost, a request is at the exchange no more often than
\* with_retries may try, and not at all while live trading is disabled
\* (place_order).
THEOREM AttemptsBoundOrders == Spec => []NoMoreThanAttempts
<1>1. Counted => NoMoreThanAttempts
  BY FS_EmptySet DEF Counted, CountOf, Times, NoMoreThanAttempts
<1> QED BY <1>1, Invariance, InitCounts, StepCounts, PTL DEF Spec

=============================================================================
