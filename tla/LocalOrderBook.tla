--------------------------- MODULE LocalOrderBook ---------------------------
(***************************************************************************)
(* The order book a process keeps of one symbol at one venue               *)
(* (bot/market_data/local_order_book.py), next to the venue's own book.    *)
(*                                                                         *)
(* `venue` is the history of the venue's book: version v is venue[v].  A   *)
(* snapshot is the book of one version; a delta gives the levels changed   *)
(* since an earlier version, the one before it unless the feed sends       *)
(* ranges.                                                                 *)
(* The dictionaries of the code hold no level of amount zero, so that a    *)
(* book is a function with zero where the dictionary has no key.           *)
(***************************************************************************)
EXTENDS Integers, Sequences, FiniteSets

CONSTANTS
  Prices,      \* prices a level may have
  MaxAmount,   \* bound: amount of a level
  MaxDepth,    \* levels kept on each side
  MaxVersion,  \* bound: versions of the venue's book
  MaxSpan      \* bound: versions that one delta covers

ASSUME BookAssumption ==
  /\ Prices \subseteq Nat /\ IsFiniteSet(Prices)
  /\ MaxAmount \in Nat
  /\ MaxDepth \in Nat \ {0}
  /\ MaxVersion \in Nat \ {0}
  /\ MaxSpan \in Nat \ {0}

VARIABLES
  feed,          \* what the messages of the venue say of versions:
                 \* "ranges": deltas name the version they start from (binance)
                 \* "nonces": deltas have a number only (bitvavo)
                 \* "bare": messages have no number (kraken, coinbase)
  venue,         \* the venue's book, version by version
  version,       \* the version the local book stands for (history); 0: none
  levels,        \* _bids and _asks
  sequence,      \* _sequence
  synchronized,  \* _synchronized, always the negation of _needs_snapshot
  cached         \* the view in _cached_order_book when it is valid, or none

localVars == <<version, levels, sequence, synchronized, cached>>
vars == <<feed, venue, localVars>>

Feeds == {"ranges", "nonces", "bare"}

Levels == {"bid", "ask"} \X Prices
Books == [Levels -> 0 .. MaxAmount]
EmptyBook == [l \in Levels |-> 0]

\* The sequence number of a message without one; numbers start at 1.
None == 0

Uncrossed(book) ==
  \A b, a \in Prices : book[<<"bid", b>>] > 0 /\ book[<<"ask", a>>] > 0 => b < a

-----------------------------------------------------------------------------
(* Depth.                                                                  *)

\* `l` is nearer to the market than `m`, on the same side.
Nearer(l, m) ==
  /\ l[1] = m[1]
  /\ IF l[1] = "bid" THEN l[2] > m[2] ELSE l[2] < m[2]

Ahead(book, l) == {m \in Levels : Nearer(m, l) /\ book[m] > 0}

\* _trim_depth
Trim(book) ==
  [l \in Levels |-> IF Cardinality(Ahead(book, l)) < MaxDepth THEN book[l] ELSE 0]

TwoSided(book) == \A side \in {"bid", "ask"} : \E p \in Prices : book[<<side, p>>] > 0

-----------------------------------------------------------------------------
(* Messages of the venue.                                                  *)

\* The levels of a delta.
Changed(from, to) ==
  {l \in Levels : \E k \in from .. to : venue[k][l] # venue[to][l]}

Number(to) == IF feed = "bare" THEN None ELSE to

\* What the venue has sent so far.  A connection of a feed without numbers
\* neither loses, repeats nor reorders messages (TCP), and starts with a
\* snapshot; with numbers any message may arrive at any time.
Sent(to) == to \in 1 .. Len(venue)

SentDelta(from, to) ==
  /\ from \in 1 .. to - 1
  /\ to - from <= MaxSpan
  /\ feed # "ranges" => from = to - 1
  /\ feed = "bare" => from = version

InOrder(to) == feed = "bare" => to >= version

-----------------------------------------------------------------------------
(* The handlers.                                                           *)

\* Mutant: a change of the levels leaves the view cached before it.
KeepView == UNCHANGED cached

InvalidateCache == cached' = {}

MarkDesynchronized ==
  /\ synchronized' = FALSE
  /\ cached' = {}
  /\ UNCHANGED <<version, levels, sequence>>

\* apply_snapshot, of the levels of `book`
ApplySnapshot(book, to) ==
  /\ levels' = Trim(book)
  /\ sequence' = Number(to)
  /\ version' = to
  /\ synchronized' = TRUE
  /\ InvalidateCache

\* Mutant: one version may be missed.
GappedByTwo(from, to) ==
  /\ feed # "bare" /\ sequence # None
  /\ IF feed = "ranges" THEN from > sequence + 1 ELSE to > sequence + 2

Gapped(from, to) ==
  /\ feed # "bare" /\ sequence # None
  /\ IF feed = "ranges" THEN from # sequence ELSE to > sequence + 1

Repeated(to) == feed # "bare" /\ sequence # None /\ to <= sequence

\* _apply_levels, both sides
WithDelta(from, to) ==
  [l \in Levels |-> IF l \in Changed(from, to) THEN venue[to][l] ELSE levels[l]]

ApplyDelta(from, to) ==
  /\ levels' = Trim(WithDelta(from, to))
  /\ sequence' = IF feed = "bare" THEN sequence ELSE to
  /\ version' = to
  /\ InvalidateCache
  /\ UNCHANGED synchronized

\* apply_update of a delta
ApplyUpdate(from, to) ==
  \/ /\ ~synchronized \/ Gapped(from, to)
     /\ MarkDesynchronized
  \/ /\ synchronized /\ ~Gapped(from, to) /\ Repeated(to)
     /\ UNCHANGED localVars
  \/ /\ synchronized /\ ~Gapped(from, to) /\ ~Repeated(to)
     /\ ApplyDelta(from, to)

ReceiveSnapshot(to) ==
  /\ Sent(to) /\ InOrder(to)
  /\ ApplySnapshot(venue[to], to)
  /\ UNCHANGED <<venue, feed>>

ReceiveDelta(from, to) ==
  /\ Sent(to) /\ SentDelta(from, to)
  /\ ApplyUpdate(from, to)
  /\ UNCHANGED <<venue, feed>>

\* to_order_book: a view of the levels, made when none is cached.
Read ==
  /\ synchronized /\ TwoSided(levels)
  /\ cached' = IF cached # {} THEN cached
               ELSE {[levels |-> levels, nonce |-> sequence]}
  /\ UNCHANGED <<venue, feed, version, levels, sequence, synchronized>>

\* The venue's book changes in any way but never crosses.
Trade ==
  /\ Len(venue) < MaxVersion
  /\ \E book \in Books : Uncrossed(book) /\ venue' = Append(venue, book)
  /\ UNCHANGED <<feed, localVars>>

Init ==
  /\ feed \in Feeds
  /\ \E book \in Books : Uncrossed(book) /\ venue = <<book>>
  /\ version = 0
  /\ levels = EmptyBook
  /\ sequence = None
  /\ synchronized = FALSE
  /\ cached = {}

Next ==
  \/ Trade
  \/ Read
  \/ \E to \in 1 .. Len(venue) : ReceiveSnapshot(to)
  \/ \E to \in 1 .. Len(venue) : \E from \in 1 .. to : ReceiveDelta(from, to)

Spec == Init /\ [][Next]_vars

-----------------------------------------------------------------------------
(* Properties.                                                             *)

\* Every variable has its type.
TypeOK ==
  /\ feed \in Feeds
  /\ venue \in Seq(Books) /\ Len(venue) \in 1 .. MaxVersion
  /\ version \in 0 .. Len(venue)
  /\ levels \in Books
  /\ sequence \in 0 .. Len(venue)
  /\ synchronized \in BOOLEAN
  /\ cached \in SUBSET [levels : Books, nonce : 0 .. Len(venue)]

\* Whatever is lost, repeated or reordered, the levels of a synchronized book
\* are the venue's of one version, the one its sequence number says: levels
\* of two versions are never mixed.
LevelsReal ==
  synchronized =>
    /\ version \in 1 .. Len(venue)
    /\ sequence = Number(version)
    /\ \A l \in Levels : levels[l] # 0 => levels[l] = venue[version][l]

\* A strategy never sees the bid of a synchronized book at or above its ask,
\* an arbitrage inside one venue that is not there.
NotCrossed == synchronized => Uncrossed(levels)

\* to_order_book returns the levels of now: a view cached before a change, a
\* gap or a rebuild is never returned after it ("cached until the next
\* mutation").
CacheAgrees ==
  cached # {} => synchronized /\ cached = {[levels |-> levels, nonce |-> sequence]}

\* A side never loses its best level: if the venue has one, the synchronized
\* book has the same ("Keep only the nearest max_depth levels on each side").
BestHeld ==
  synchronized =>
    \A l \in Levels : venue[version][l] > 0 /\ Ahead(venue[version], l) = {} => levels[l] > 0

\* A delta that the book has applied already does not desynchronize it
\* ("Ignore duplicates / already-applied sequences").
DuplicatesIgnored ==
  [][\A to \in 1 .. Len(venue) : \A from \in 1 .. to - 1 :
       ReceiveDelta(from, to) /\ synchronized /\ to <= sequence => synchronized']_vars
=============================================================================
