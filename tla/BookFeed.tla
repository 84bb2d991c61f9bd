------------------------------ MODULE BookFeed ------------------------------
(***************************************************************************)
(* How MarketDataService.handle_event (bot/market_data/service.py) feeds a *)
(* local book with the messages of a live feed, as the adapter of the      *)
(* venue labels them.                                                      *)
(*                                                                         *)
(* A message with levels on both sides may become a snapshot although it   *)
(* is a delta: the service takes it for one while the book waits for a     *)
(* snapshot, and the bitvavo adapter labels it one whenever it is numbered.*)
(***************************************************************************)
EXTENDS LocalOrderBook

\* The message holds levels of both sides, removed ones included.
BothSides(from, to) ==
  \A side \in {"bid", "ask"} : \E l \in Changed(from, to) : l[1] = side

\* BitvavoPublicAdapter._parse_book
LabelledSnapshot(from, to) == feed = "nonces" /\ BothSides(from, to)

\* promote_snapshot in handle_event
Promoted(from, to) ==
  LabelledSnapshot(from, to) \/ (~synchronized /\ BothSides(from, to))

\* Mutant: the promoted levels are laid over those of the last good book.
OverOldLevels(from, to) ==
  [l \in Levels |-> IF l \in Changed(from, to) THEN venue[to][l] ELSE levels[l]]

\* The book that a delta makes when it is taken for a snapshot.
PromotedBook(from, to) ==
  [l \in Levels |-> IF l \in Changed(from, to) THEN venue[to][l] ELSE 0]

HandleSnapshot(to) == ReceiveSnapshot(to)

HandleDelta(from, to) ==
  /\ Sent(to) /\ SentDelta(from, to)
  /\ IF Promoted(from, to) THEN ApplySnapshot(PromotedBook(from, to), to)
                           ELSE ApplyUpdate(from, to)
  /\ UNCHANGED <<venue, feed>>

FeedNext ==
  \/ Trade
  \/ Read
  \/ \E to \in 1 .. Len(venue) : HandleSnapshot(to)
  \/ \E to \in 1 .. Len(venue) : \E from \in 1 .. to : HandleDelta(from, to)

FeedSpec == Init /\ [][FeedNext]_vars

-----------------------------------------------------------------------------
(* Properties.                                                             *)

\* A book is exposed only when its synchronization is valid: it holds the
\* venue's best levels ("Never exposes a book to strategies when
\* synchronization is invalid", local_order_book.py; "Bitvavo sends full sides
\* on snapshot-like messages", adapters/bitvavo.py).
ExposedBookIsComplete == BestHeld
=============================================================================
