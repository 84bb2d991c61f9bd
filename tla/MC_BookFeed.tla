---------------------------- MODULE MC_BookFeed ----------------------------
(***************************************************************************)
(* Small instances of BookFeed.                                            *)
(***************************************************************************)
EXTENDS BookFeed

TwoPrices == 1 .. 2
ThreePrices == 1 .. 3
=============================================================================
