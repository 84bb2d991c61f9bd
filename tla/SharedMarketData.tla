-------------------------- MODULE SharedMarketData --------------------------
(***************************************************************************)
(* The shared market data of one exchange: the publisher process, which    *)
(* keeps the books from the exchange's feed and writes them to Redis       *)
(* (bot/market_data/publisher.py and handle_event of service.py), Redis    *)
(* with its expiry (cache.py), and a consumer process, which hydrates its  *)
(* own books from there (service.py).                                      *)
(*                                                                         *)
(* A book is represented by its age, the time since the venue's update     *)
(* that it holds; NoCopy stands for one that is not there.  Ages grow by   *)
(* ticks and stop at Oldest.  What the levels of a book are is the matter  *)
(* of LocalOrderBook.  Ticks (the top-of-book quotes) and the numbers of   *)
(* the health report decide nothing here and are left out.                 *)
(***************************************************************************)
EXTENDS Integers, FiniteSets

CONSTANTS
  Symbols,
  Hydrators,  \* tasks of the consumer that hydrate: its loop and its start
  Poller,     \* the consumer loop
  NoCopy,
  Oldest,     \* bound: ages are told apart up to here
  MaxAge,     \* max_market_data_age_ms
  Ttl,        \* market_data_redis_ttl_seconds
  Interval    \* market_data_cache_interval_ms

ASSUME SharedAssumption ==
  /\ Poller \in Hydrators
  /\ Oldest \in Nat /\ MaxAge \in Nat /\ Ttl \in Nat /\ Interval \in Nat
  /\ MaxAge <= Oldest /\ Ttl <= Oldest
  /\ NoCopy \notin 0 .. Oldest

Ages == 0 .. Oldest
Older(age) == IF age \in 0 .. Oldest - 1 THEN age + 1 ELSE age

Healths == [connected : BOOLEAN, synchronized : BOOLEAN]

VARIABLES
  connected,     \* publisher: the manager's websocket is up
  updated,       \* publisher: age of the last update it applied to a book
  synced,        \* publisher: the book is synchronized
  sinceWrite,    \* publisher: time since _last_cache_write, up to Interval
  handler,       \* publisher: where handle_event is suspended
  redisUp,       \* Redis answers
  redisBook,     \* the published books
  redisHealth,   \* the published health
  started,       \* consumer: _started
  local,         \* consumer: the books; all that are there are synchronized
  remote,        \* consumer: _remote_health
  hydrators      \* consumer: where each hydration is suspended

feedVars == <<connected, updated, synced>>
publisherVars == <<feedVars, sinceWrite, handler>>
redisVars == <<redisUp, redisBook, redisHealth>>
consumerVars == <<started, local, remote, hydrators>>
sharedVars == <<publisherVars, redisVars, consumerVars>>

NotHandling == [at |-> "event", symbol |-> NoCopy]

\* Where a hydration is, and the answer it has.  A history field: `alone`, no
\* other hydration has been under way since it began.
NotHydrating ==
  [at |-> "idle", alone |-> FALSE, left |-> {}, symbol |-> NoCopy, book |-> NoCopy,
   health |-> NoCopy]

HandlerStates == [at : {"event", "book", "health"}, symbol : Symbols \cup {NoCopy}]

HydratorStates ==
  [at : {"idle", "health", "told", "books", "answered"}, alone : BOOLEAN,
   left : SUBSET Symbols, symbol : Symbols \cup {NoCopy}, book : Ages \cup {NoCopy},
   health : Healths \cup {NoCopy}]

-----------------------------------------------------------------------------
(* The publisher.                                                          *)

\* The throttle of the cache is the exchange's, not the symbol's.
CacheDue == sinceWrite = Interval

\* handle_event goes on to the cache with the symbol `s` when it is due.
ToCache(s, at) ==
  handler' = IF CacheDue THEN [at |-> at, symbol |-> s] ELSE NotHandling

\* An event is handled when the read loop is back from the one before it.
Event ==
  /\ handler = NotHandling
  /\ connected

\* A snapshot, or a delta that follows the book.
BookEvent(s) ==
  /\ Event
  /\ updated' = [updated EXCEPT ![s] = 0]
  /\ synced' = [synced EXCEPT ![s] = TRUE]
  /\ ToCache(s, "book")
  /\ UNCHANGED <<connected, sinceWrite, redisVars, consumerVars>>

\* A delta that does not follow the book, which loses its synchronization.
GapEvent(s) ==
  /\ Event
  /\ synced' = [synced EXCEPT ![s] = FALSE]
  /\ ToCache(s, "health")
  /\ UNCHANGED <<connected, updated, sinceWrite, redisVars, consumerVars>>

\* A top-of-book quote; its own write to the cache decides nothing here.
TickEvent(s) ==
  /\ Event
  /\ ToCache(s, "health")
  /\ UNCHANGED <<feedVars, sinceWrite, redisVars, consumerVars>>

\* Mutant: the book is published as new as the moment of the write.
Restamped(s) == 0

\* Mutant: a write that finds the connection lost takes the view from before the
\* last change of the book.
OldView(s) == IF connected THEN updated[s] ELSE Older(updated[s])

Published(s) == updated[s]

\* The book as it is after its tick was written.  Writes that fail are swallowed;
\* the copy in the publisher's own memory is read by nobody.
WriteBook ==
  /\ handler.at = "book"
  /\ handler' = [handler EXCEPT !.at = "health"]
  /\ IF redisUp
     THEN redisBook' = [redisBook EXCEPT ![handler.symbol] = Published(handler.symbol)]
     ELSE UNCHANGED redisBook
  /\ UNCHANGED <<feedVars, sinceWrite, redisUp, redisHealth, consumerVars>>

\* get_exchange_health: one synchronized book is enough.
Health == [connected |-> connected, synchronized |-> \E s \in Symbols : synced[s]]

SetHealth == redisHealth' = IF redisUp THEN Health ELSE redisHealth

\* The end of an event that wrote to the cache.
WriteHealth ==
  /\ handler.at = "health"
  /\ handler' = NotHandling
  /\ SetHealth
  /\ sinceWrite' = 0
  /\ UNCHANGED <<feedVars, redisUp, redisBook, consumerVars>>

\* Mutant: the publisher reports nothing while it has no connection.
ReportsConnected == connected

Reports == TRUE

\* The publisher's own loop, once a second.
PublishHealth ==
  /\ Reports
  /\ SetHealth
  /\ UNCHANGED <<publisherVars, redisUp, redisBook, consumerVars>>

\* The manager loses its websocket or has it back.
Connection ==
  /\ connected' = ~connected
  /\ UNCHANGED <<updated, synced, sinceWrite, handler, redisVars, consumerVars>>

\* The publisher process is restarted; what Redis holds stays.
Restart ==
  /\ connected' = FALSE
  /\ synced' = [s \in Symbols |-> FALSE]
  /\ sinceWrite' = Interval
  /\ handler' = NotHandling
  /\ UNCHANGED <<updated, redisVars, consumerVars>>

-----------------------------------------------------------------------------
(* Redis.                                                                  *)

\* A book is set anew by every write, so that it is as old as its expiry
\* before it can expire.
Expire(s) ==
  /\ redisBook[s] # NoCopy /\ redisBook[s] >= Ttl
  /\ redisBook' = [redisBook EXCEPT ![s] = NoCopy]
  /\ UNCHANGED <<publisherVars, redisUp, redisHealth, consumerVars>>

ExpireHealth ==
  /\ redisHealth' = NoCopy
  /\ UNCHANGED <<publisherVars, redisUp, redisBook, consumerVars>>

\* Redis stops or resumes answering.
Outage ==
  /\ redisUp' = ~redisUp
  /\ UNCHANGED <<publisherVars, redisBook, redisHealth, consumerVars>>

-----------------------------------------------------------------------------
(* The consumer.                                                           *)

\* A hydration begins by asking for the health.
Begun(alone) == [NotHydrating EXCEPT !.at = "health", !.alone = alone]

\* start_shared_consumer: the loop is created, and start hydrates once itself,
\* beside it.  Bound: a start does not come while another's hydration goes on.
StartConsumer ==
  /\ ~started
  /\ \A h \in Hydrators : hydrators[h] = NotHydrating
  /\ started' = TRUE
  /\ hydrators' = [h \in Hydrators |-> Begun(Hydrators = {h})]
  /\ UNCHANGED <<publisherVars, redisVars, local, remote>>

\* stop cancels the loop.
StopConsumer ==
  /\ started
  /\ started' = FALSE
  /\ hydrators' = [hydrators EXCEPT ![Poller] = NotHydrating]
  /\ UNCHANGED <<publisherVars, redisVars, local, remote>>

\* The loop hydrates again after its pause.
Poll ==
  /\ started
  /\ hydrators[Poller] = NotHydrating
  /\ hydrators' = [hydrators EXCEPT ![Poller] =
                    Begun(\A h \in Hydrators \ {Poller} : hydrators[h] = NotHydrating)]
  /\ UNCHANGED <<publisherVars, redisVars, started, local, remote>>

\* _get answers NoCopy when Redis fails or has nothing.
Got(value) == IF redisUp THEN value ELSE NoCopy

\* Redis answers the request for the health.
AnswerHealth(h) ==
  /\ hydrators[h].at = "health"
  /\ hydrators' = [hydrators EXCEPT ![h].at = "told", ![h].health = Got(redisHealth)]
  /\ UNCHANGED <<publisherVars, redisVars, started, local, remote>>

\* The health replaces the one before, if there is one; the books are next.
HydrateHealth(h) ==
  /\ hydrators[h].at = "told"
  /\ remote' = IF hydrators[h].health = NoCopy THEN remote ELSE hydrators[h].health
  /\ hydrators' = [hydrators EXCEPT ![h].at = "books", ![h].left = Symbols,
                                    ![h].health = NoCopy]
  /\ UNCHANGED <<publisherVars, redisVars, started, local>>

\* Redis answers the request for a book.
AnswerBook(h, s) ==
  /\ hydrators[h].at = "books" /\ s \in hydrators[h].left
  /\ hydrators' = [hydrators EXCEPT ![h].at = "answered", ![h].symbol = s,
                                    ![h].book = Got(redisBook[s])]
  /\ UNCHANGED <<publisherVars, redisVars, started, local, remote>>

\* apply_remote_book.  What it leaves out when neither sequence nor timestamp
\* nor sizes differ would change nothing here.
ApplyRemoteBook(s, book) == [local EXCEPT ![s] = book]

\* The hydration resumes with the answer, applies it, and asks for the next.
HydrateBook(h) ==
  /\ hydrators[h].at = "answered"
  /\ local' = IF hydrators[h].book = NoCopy THEN local
              ELSE ApplyRemoteBook(hydrators[h].symbol, hydrators[h].book)
  /\ LET left == hydrators[h].left \ {hydrators[h].symbol} IN
       hydrators' = [hydrators EXCEPT ![h] =
         IF left = {} THEN NotHydrating
         ELSE [NotHydrating EXCEPT !.at = "books", !.left = left,
                                   !.alone = hydrators[h].alone]]
  /\ UNCHANGED <<publisherVars, redisVars, started, remote>>

-----------------------------------------------------------------------------

\* Time passes, for every copy of every book.
TimePasses ==
  /\ updated' = [s \in Symbols |-> Older(updated[s])]
  /\ sinceWrite' = IF sinceWrite < Interval THEN sinceWrite + 1 ELSE sinceWrite
  /\ redisBook' = [s \in Symbols |-> Older(redisBook[s])]
  /\ local' = [s \in Symbols |-> Older(local[s])]
  /\ hydrators' = [h \in Hydrators |-> [hydrators[h] EXCEPT !.book = Older(@)]]
  /\ UNCHANGED <<connected, synced, handler, redisUp, redisHealth, started, remote>>

SharedInit ==
  /\ connected = FALSE
  /\ updated = [s \in Symbols |-> Oldest]
  /\ synced = [s \in Symbols |-> FALSE]
  /\ sinceWrite = Interval
  /\ handler = NotHandling
  /\ redisUp = TRUE
  /\ redisBook = [s \in Symbols |-> NoCopy]
  /\ redisHealth = NoCopy
  /\ started = FALSE
  /\ local = [s \in Symbols |-> NoCopy]
  /\ remote = NoCopy
  /\ hydrators = [h \in Hydrators |-> NotHydrating]

Handle == WriteBook \/ WriteHealth

Hydrate(h) ==
  AnswerHealth(h) \/ HydrateHealth(h) \/ HydrateBook(h) \/ \E s \in Symbols : AnswerBook(h, s)

SharedNext ==
  \/ \E s \in Symbols : BookEvent(s) \/ GapEvent(s) \/ TickEvent(s) \/ Expire(s)
  \/ Handle \/ PublishHealth \/ Connection \/ Restart
  \/ ExpireHealth \/ Outage
  \/ StartConsumer \/ StopConsumer \/ Poll \/ \E h \in Hydrators : Hydrate(h)
  \/ TimePasses

SharedSpec == SharedInit /\ [][SharedNext]_sharedVars

\* Both processes go on with their loops, whatever else is under way.
SharedFairness ==
  WF_sharedVars(PublishHealth) /\ WF_sharedVars(Poll) /\ WF_sharedVars(Hydrate(Poller))

SharedFairSpec == SharedSpec /\ SharedFairness

\* Besides, events are handled to their end, time goes on, and a feed that is up
\* brings events of every book.
FeedFairSpec ==
  /\ SharedFairSpec /\ WF_sharedVars(Handle)
  /\ WF_sharedVars(TimePasses) /\ \A s \in Symbols : SF_sharedVars(BookEvent(s))

-----------------------------------------------------------------------------
(* What the consumer makes of it.                                          *)

\* get_valid_order_book
Exposed(s) == local[s] # NoCopy /\ local[s] <= MaxAge

\* get_exchange_health, as a consumer computes it.
SyncedLocally == \E s \in Symbols : local[s] # NoCopy

ConnectedThere ==
  IF remote = NoCopy THEN SyncedLocally ELSE remote.connected \/ SyncedLocally

-----------------------------------------------------------------------------
(* Properties.                                                             *)

\* Every variable has its type.
SharedTypeOK ==
  /\ connected \in BOOLEAN /\ redisUp \in BOOLEAN /\ started \in BOOLEAN
  /\ updated \in [Symbols -> Ages]
  /\ synced \in [Symbols -> BOOLEAN]
  /\ sinceWrite \in 0 .. Interval
  /\ handler \in HandlerStates
  /\ redisBook \in [Symbols -> Ages \cup {NoCopy}]
  /\ redisHealth \in Healths \cup {NoCopy}
  /\ local \in [Symbols -> Ages \cup {NoCopy}]
  /\ remote \in Healths \cup {NoCopy}
  /\ hydrators \in [Hydrators -> HydratorStates]

\* No copy of a book passes for fresher than the last update of the venue:
\* a book that nobody updates is hidden everywhere once MaxAge is over, however
\* often it is written, read and applied again.
NeverFresher ==
  \A s \in Symbols :
    /\ redisBook[s] # NoCopy => updated[s] <= redisBook[s]
    /\ local[s] # NoCopy => updated[s] <= local[s]

KeepsOrRefreshes(s) == local[s] # NoCopy => local'[s] # NoCopy /\ local'[s] <= local[s]

\* A hydration that has had the consumer for itself never replaces a book by an
\* older one, whatever is written, lost, delayed or expires meanwhile: from the
\* first one that the loop begins after start's own has ended, the books of a
\* consumer only go forward (_consumer_loop, apply_remote_book).
OnlyForward ==
  [][\/ TimePasses
     \/ \E h \in Hydrators : ~hydrators[h].alone /\ HydrateBook(h)
     \/ \A s \in Symbols : KeepsOrRefreshes(s)]_sharedVars

\* A book of the consumer is never replaced by an older one ("Pull latest
\* published books", service.py).
NeverBack == [][TimePasses \/ \A s \in Symbols : KeepsOrRefreshes(s)]_sharedVars

\* A consumer of a publisher that stays without connection learns of it,
\* unless the reports expire before they are read.
DisconnectionReported ==
  <>[](redisUp /\ started /\ ~connected /\ redisHealth # NoCopy)
    => <>[](remote # NoCopy /\ ~remote.connected)

\* While the feed is up the book of every symbol is written again and again
\* ("Publisher writes often enough for paper cycles", publisher.py).
EveryBookWritten ==
  \A s \in Symbols :
    <>[]connected => []<>(handler.at = "book" /\ handler.symbol = s)

\* The consumer reports the connection the publisher reported last ("use
\* publisher health for connection", service.py).
ConnectedAsPublished == remote # NoCopy => (ConnectedThere => remote.connected)

\* A book is not shown to strategies when the publisher has reported that no
\* book of the exchange is synchronized ("strategies never see invalid data",
\* service.py).
InvalidHidden ==
  remote # NoCopy /\ ~remote.synchronized => \A s \in Symbols : ~Exposed(s)
=============================================================================
