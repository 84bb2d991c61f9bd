--------------------------- MODULE ExchangeClient ---------------------------
(***************************************************************************)
(* Orders of the live executor at an exchange (bot/execution/live.py,      *)
(* bot/exchanges/ccxt_adapter.py): placing, cancelling and fetching an     *)
(* order through with_retries of bot/exchanges/retry.py, over a connection *)
(* that may lose a request or its answer, while the exchange goes on       *)
(* filling and closing the orders it has.                                  *)
(*                                                                         *)
(* The exchange is external.  A loss shows as a timeout, so that the       *)
(* client cannot tell which of the two was lost, and an answer may leave   *)
(* out fields of the order, for which _normalize_order has defaults.       *)
(***************************************************************************)
EXTENDS Integers, Sequences, FiniteSets

CONSTANTS
  Requests,     \* requests of the executor
  Trading,      \* those given to an adapter with enable_trading
  Amount,       \* of a request
  MaxAttempts,  \* max_attempts of the RetryPolicy
  MadeUp,       \* an id of uuid4, which no order at the exchange has
  None

ASSUME ClientAssumption ==
  /\ Trading \subseteq Requests
  /\ Amount \in Nat \ {0} /\ MaxAttempts \in Nat \ {0}
  /\ MadeUp \notin Nat

VARIABLES
  orders,   \* the orders at the exchange; an index is an order's id there
  calls,    \* the call under way for each request
  results   \* what the latest call for each request returned or raised

vars == <<orders, calls, results>>

Operations == {"place", "cancel", "fetch"}
Errors == {"auth", "rate", "transient", "exchange"}
VenueStatuses == {"open", "closed", "canceled", "rejected"}
Statuses == {"PENDING", "SUBMITTED", "FILLED", "PARTIALLY_FILLED", "CANCELLED", "REJECTED"}

\* What is returned of an order, and what is raised.
Reports == [about : Nat, id : Nat \cup {MadeUp}, status : Statuses, filled : 0 .. Amount]
Failures ==
  [error : {"rate", "transient", "execution"}, cause : Errors \cup {"rejected"}]

ASSUME NoneAssumption == None \notin Reports \cup Failures

\* A call: which attempt, whether it waits for the exchange or its backoff,
\* and the order the exchange answers with.
Calling(op, id) == [op |-> op, pc |-> "sending", attempt |-> 1, id |-> id, answer |-> None]

NoCall == [op |-> "place", pc |-> "idle", attempt |-> 1, id |-> 0, answer |-> None]

-----------------------------------------------------------------------------
(* What the adapter makes of an answer and of an error.                    *)

\* How an exchange may put an order into words: by one of the names of its
\* status, and with any of the fields left out.
Names ==
  [open |-> {"open", "pending"}, closed |-> {"closed", "filled"},
   canceled |-> {"canceled"}, rejected |-> {"rejected"}]

Payloads(id, order) ==
  [status : Names[order.status] \cup {"untold"}, filled : {order.filled, None},
   amount : {Amount, None}, id : {id, None}]

FilledOf(raw) == IF raw.filled = None THEN 0 ELSE raw.filled

\* An amount that is not told is what has been filled.
Partly(raw) == FilledOf(raw) < IF raw.amount = None THEN FilledOf(raw) ELSE raw.amount

\* _STATUS_MAP, which has no "filled".
StatusNamed(name, raw) ==
  CASE name \in {"closed", "filled"} /\ Partly(raw) -> "PARTIALLY_FILLED"
    [] name = "closed" /\ ~Partly(raw) -> "FILLED"
    [] name = "open" -> "SUBMITTED"
    [] name = "canceled" -> "CANCELLED"
    [] name = "rejected" -> "REJECTED"
    [] OTHER -> "PENDING"

\* Mutant: an order whose status is not told is taken for closed.
StatusUntold(raw) == StatusNamed(IF raw.status = "untold" THEN "closed" ELSE raw.status, raw)

\* _normalize_order
Status(raw) == StatusNamed(raw.status, raw)

\* about is a history field: the order that the answer was about.
Returned(about, raw) ==
  [about |-> about, id |-> IF raw.id = None THEN MadeUp ELSE raw.id,
   status |-> Status(raw), filled |-> FilledOf(raw)]

\* LiveExecutor.execute raises an ExecutionError of its own.
Outcome(op, about, raw) ==
  IF op = "place" /\ Status(raw) = "REJECTED"
  THEN [error |-> "execution", cause |-> "rejected"]
  ELSE Returned(about, raw)

\* _is_retryable
Retryable(error) == error \in {"rate", "transient"}

\* What with_retries raises in the end.
Raised(error) ==
  [error |-> IF error \in {"rate", "transient"} THEN error ELSE "transient",
   cause |-> error]

-----------------------------------------------------------------------------
(* The calls.                                                              *)

BeginCall(r, op, id) == calls' = [calls EXCEPT ![r] = Calling(op, id)]

\* execute is called once for a request.
PlaceOrder(r) ==
  /\ r \in Trading
  /\ calls[r].pc = "idle" /\ results[r] = None
  /\ BeginCall(r, "place", 0)
  /\ UNCHANGED <<orders, results>>

\* What is returned for an order that no exchange has.
Untracked == [about |-> 0, id |-> 0, status |-> "SUBMITTED", filled |-> 0]

DryRun(r) ==
  /\ r \notin Trading
  /\ calls[r].pc = "idle" /\ results[r] = None
  /\ results' = [results EXCEPT ![r] = Untracked]
  /\ UNCHANGED <<orders, calls>>

\* The caller has an order's id; dry runs have none.
Known(r) == results[r] # None /\ "id" \in DOMAIN results[r] /\ results[r].about # 0

CancelOrFetch(r, op) ==
  /\ Known(r) /\ calls[r].pc = "idle"
  /\ op \in {"cancel", "fetch"}
  /\ BeginCall(r, op, results[r].id)
  /\ UNCHANGED <<orders, results>>

Return(r, result) ==
  /\ results' = [results EXCEPT ![r] = result]
  /\ calls' = [calls EXCEPT ![r] = NoCall]

\* The caller keeps the order it knows when a later call about it raises.
Raise(r, error) ==
  IF calls[r].op = "place"
  THEN Return(r, Raised(error))
  ELSE calls' = [calls EXCEPT ![r] = NoCall] /\ UNCHANGED results

\* Mutant: off by one.
OneMoreAttempt(attempt) == attempt <= MaxAttempts

MayRepeat(attempt) == attempt < MaxAttempts

Fails(r, error) ==
  IF Retryable(error) /\ MayRepeat(calls[r].attempt)
  THEN /\ calls' = [calls EXCEPT ![r].pc = "backoff", ![r].answer = None]
       /\ UNCHANGED results
  ELSE Raise(r, error)

\* Mutant: an attempt that is repeated does not count.
AttemptUncounted(attempt) == attempt

AttemptAfter(attempt) == attempt + 1

Retry(r) ==
  /\ calls[r].pc = "backoff"
  /\ calls' = [calls EXCEPT ![r].pc = "sending", ![r].attempt = AttemptAfter(@)]
  /\ UNCHANGED <<orders, results>>

-----------------------------------------------------------------------------
(* The connection and the exchange.                                        *)

Sent(r, op) == calls[r].pc = "sending" /\ calls[r].op = op

Answers(r, id, order) ==
  calls' = [calls EXCEPT ![r].pc = "answering", ![r].id = id, ![r].answer = order]

\* create_order; the order may be filled, in part too, or rejected at once.
Accept(r) ==
  /\ Sent(r, "place")
  /\ \E status \in VenueStatuses, filled \in 0 .. Amount :
       LET order == [request |-> r, status |-> status, filled |-> filled]
       IN  /\ status = "open" => filled < Amount
           /\ status \in {"canceled", "rejected"} => filled = 0
           /\ orders' = Append(orders, order)
           /\ Answers(r, Len(orders) + 1, order)
  /\ UNCHANGED results

CancelThere(r) ==
  /\ Sent(r, "cancel") /\ calls[r].id # MadeUp
  /\ orders[calls[r].id].status = "open"
  /\ orders' = [orders EXCEPT ![calls[r].id].status = "canceled"]
  /\ Answers(r, calls[r].id, orders'[calls[r].id])
  /\ UNCHANGED results

FetchThere(r) ==
  /\ Sent(r, "fetch") /\ calls[r].id # MadeUp
  /\ Answers(r, calls[r].id, orders[calls[r].id])
  /\ UNCHANGED <<orders, results>>

\* Refused, as an id that was made up always is, or the request was lost
\* ("transient").
Refuse(r) ==
  /\ calls[r].pc = "sending"
  /\ \E error \in Errors : Fails(r, error)
  /\ UNCHANGED orders

Answered(r) ==
  /\ calls[r].pc = "answering"
  /\ \E raw \in Payloads(calls[r].id, calls[r].answer) :
       Return(r, Outcome(calls[r].op, calls[r].id, raw))
  /\ UNCHANGED orders

AnswerLost(r) ==
  /\ calls[r].pc = "answering"
  /\ Fails(r, "transient")
  /\ UNCHANGED orders

Trade(i) ==
  /\ orders[i].status = "open"
  /\ orders' = [orders EXCEPT ![i].filled = @ + 1,
                              ![i].status = IF orders[i].filled + 1 = Amount THEN "closed" ELSE "open"]
  /\ UNCHANGED <<calls, results>>

\* Closed with what has been filled, or cancelled or expired.
Close(i, status) ==
  /\ orders[i].status = "open"
  /\ status \in {"closed", "canceled"}
  /\ orders' = [orders EXCEPT ![i].status = status]
  /\ UNCHANGED <<calls, results>>

-----------------------------------------------------------------------------

Init ==
  /\ orders = <<>>
  /\ calls = [r \in Requests |-> NoCall]
  /\ results = [r \in Requests |-> None]

\* A request reaches the exchange, or the client learns that it did not.
Reach(r) == Accept(r) \/ CancelThere(r) \/ FetchThere(r) \/ Refuse(r)

Hear(r) == Answered(r) \/ AnswerLost(r)

Next ==
  \/ \E r \in Requests :
       \/ PlaceOrder(r) \/ DryRun(r) \/ \E op \in Operations : CancelOrFetch(r, op)
       \/ Reach(r) \/ Hear(r) \/ Retry(r)
  \/ \E i \in DOMAIN orders : Trade(i) \/ \E status \in VenueStatuses : Close(i, status)

Spec == Init /\ [][Next]_vars

\* The connection has a timeout, and the event loop goes on.
Fairness == \A r \in Requests : WF_vars(Reach(r)) /\ WF_vars(Hear(r)) /\ WF_vars(Retry(r))

FairSpec == Spec /\ Fairness

-----------------------------------------------------------------------------
(* Properties.                                                             *)

VenueOrders == [request : Requests, status : VenueStatuses, filled : 0 .. Amount]

\* Every variable has its type.
TypeOK ==
  /\ orders \in Seq(VenueOrders)
  /\ calls \in [Requests -> [op : Operations, pc : {"idle", "sending", "answering", "backoff"},
                             attempt : 1 .. MaxAttempts, id : Nat \cup {MadeUp},
                             answer : VenueOrders \cup {None}]]
  /\ results \in [Requests -> Reports \cup Failures \cup {None}]

\* What the executor was told of an order stays true whatever the answer left
\* out, whatever happens to the order later and however often the call had to
\* be repeated: it is an order of this request and its id, if one was told, no
\* more is reported than was filled, and one reported as filled, in part or in
\* whole, or as cancelled is closed or cancelled (place_order, cancel_order,
\* fetch_order).
ReportsHold ==
  \A r \in Trading : Known(r) =>
    LET told == results[r]
        order == orders[told.about]
    IN  /\ order.request = r /\ told.id \in {told.about, MadeUp}
        /\ told.filled <= order.filled
        /\ told.status \in {"FILLED", "PARTIALLY_FILLED"} => order.status = "closed"
        /\ told.status = "CANCELLED" => order.status = "canceled"
        /\ told.status = "REJECTED" => order.status = "rejected"

OrdersOf(r) == {i \in DOMAIN orders : orders[i].request = r}

\* However many answers are lost, no request is at the exchange more often than
\* with_retries may try, later calls about its order included, and none is
\* while live trading is disabled.
NoMoreThanAttempts ==
  \A r \in Requests :
    Cardinality(OrdersOf(r)) <= IF r \in Trading THEN MaxAttempts ELSE 0

\* A call returns or raises in the end.
CallsReturn == \A r \in Requests : calls[r].pc # "idle" ~> calls[r].pc = "idle"

\* "Place a trading order" (place_order in bot/core/interfaces.py): one.
PlacedOnce == \A r \in Requests : Cardinality(OrdersOf(r)) <= 1

\* ExchangeTransientError is "Raised for retryable network / temporary
\* exchange failures" (bot/core/exceptions.py).
TransientIsTransient ==
  \A r \in Requests :
    results[r] # None /\ "error" \in DOMAIN results[r] /\ results[r].error = "transient"
      => results[r].cause = "transient"
=============================================================================
