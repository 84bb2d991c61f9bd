--------------------------- MODULE MarketData_proofs ---------------------------
(***************************************************************************)
(* Theorems about the market data on their way to a consumer: the book of  *)
(* a venue (LocalOrderBook, BookFeed), the connection that feeds it        *)
(* (WebSocketManager) and the copies of it that are shared                 *)
(* (SharedMarketData).  The specifications do not depend on each other;    *)
(* each has an inductive invariant of its own.                             *)
(*                                                                         *)
(* The heart of the argument about the book: a delta is applied only if it *)
(* starts from the version the book stands for (AppliedFromVersion),       *)
(* whatever the feed tells of it.  With IInv, which adds that the venue's  *)
(* book is never crossed, the levels of a synchronized book remain those   *)
(* of one version.                                                         *)
(***************************************************************************)
EXTENDS BookFeed, WebSocketManager, SharedMarketData, SequenceTheorems, TLAPS

VenueUncrossed == \A v \in 1 .. Len(venue) : Uncrossed(venue[v])

IInv == TypeOK /\ VenueUncrossed /\ LevelsReal /\ CacheAgrees

-----------------------------------------------------------------------------
(* Helpers of the model.                                                   *)

\* Trimming removes levels and changes none.
LEMMA TrimProperties ==
  ASSUME NEW book \in Books
  PROVE  /\ Trim(book) \in Books
         /\ \A l \in Levels : Trim(book)[l] # 0 => Trim(book)[l] = book[l]
<1> DEFINE Kept(l) == Cardinality(Ahead(book, l)) < MaxDepth
<1>1. Trim(book) = [l \in Levels |-> IF Kept(l) THEN book[l] ELSE 0]
  BY DEF Trim
<1> HIDE DEF Kept
<1>2. 0 \in 0 .. MaxAmount
  BY BookAssumption
<1> QED  BY <1>1, <1>2 DEF Books

\* A delta gives its levels the amounts of its last version.
LEMMA WithDeltaProperties ==
  ASSUME TypeOK, NEW to \in 1 .. Len(venue), NEW from \in 1 .. to - 1
  PROVE  /\ WithDelta(from, to) \in Books
         /\ \A l \in Levels :
              \/ WithDelta(from, to)[l] = venue[to][l]
              \/ WithDelta(from, to)[l] = levels[l] /\ venue[from][l] = venue[to][l]
<1>1. venue[to] \in Books /\ levels \in Books
  BY ElementOfSeq DEF TypeOK
<1>2. from \in from .. to
  BY DEF TypeOK
<1>3. \A l \in Levels : l \notin Changed(from, to) => venue[from][l] = venue[to][l]
  BY <1>2 DEF Changed
<1> DEFINE C == Changed(from, to)
<1>4. WithDelta(from, to) = [l \in Levels |-> IF l \in C THEN venue[to][l] ELSE levels[l]]
  BY DEF WithDelta
<1> HIDE DEF C
<1>5. WithDelta(from, to) \in Books
  BY <1>1, <1>4 DEF Books
<1>6. \A l \in Levels : WithDelta(from, to)[l] = IF l \in C THEN venue[to][l] ELSE levels[l]
  BY <1>4
<1> QED  BY <1>3, <1>5, <1>6 DEF C

\* A delta that apply_update applies starts from the version of the book.
LEMMA AppliedFromVersion ==
  ASSUME TypeOK, LevelsReal, synchronized, NEW to \in 1 .. Len(venue),
         NEW from \in 1 .. to - 1, SentDelta(from, to), ~Gapped(from, to), ~Repeated(to)
  PROVE  from = version
<1>1. version \in 1 .. Len(venue) /\ sequence = Number(version) /\ Len(venue) \in Nat
  BY DEF LevelsReal, TypeOK
<1>2. CASE feed = "ranges"
  BY <1>1, <1>2 DEF Gapped, Number, None
<1>3. CASE feed = "nonces"
  <2>1. sequence = version /\ from = to - 1
    BY <1>1, <1>3 DEF Number, SentDelta
  <2>2. to <= sequence + 1 /\ ~(to <= sequence)
    BY <1>1, <1>3, <2>1 DEF Gapped, Repeated, None
  <2> QED  BY <1>1, <2>1, <2>2
<1>4. CASE feed = "bare"
  BY <1>4 DEF SentDelta
<1> QED  BY <1>2, <1>3, <1>4 DEF TypeOK, Feeds

-----------------------------------------------------------------------------
(* IInv is inductive.                                                      *)

LEMMA InitIInv == Init => IInv
<1> SUFFICES ASSUME Init PROVE IInv
  OBVIOUS
<1>1. PICK book \in Books : Uncrossed(book) /\ venue = <<book>>
  BY DEF Init
<1>2. venue \in Seq(Books) /\ Len(venue) = 1 /\ venue[1] = book
  BY <1>1
<1>3. EmptyBook \in Books
  BY BookAssumption DEF EmptyBook, Books
<1>4. TypeOK
  <2>1. Len(venue) \in 1 .. MaxVersion
    BY <1>2, BookAssumption
  <2>2. version \in 0 .. Len(venue) /\ sequence \in 0 .. Len(venue)
    BY <1>2 DEF Init, None
  <2>3. levels \in Books /\ synchronized \in BOOLEAN /\ cached = {}
    BY <1>3 DEF Init
  <2>4. feed \in Feeds
    BY DEF Init
  <2> QED  BY <1>2, <2>1, <2>2, <2>3, <2>4 DEF TypeOK
<1>5. VenueUncrossed
  BY <1>1, <1>2 DEF VenueUncrossed
<1> QED  BY <1>4, <1>5 DEF Init, IInv, LevelsReal, CacheAgrees

\* What a step that leaves the venue alone has to show.
LEMMA SameVenue ==
  ASSUME IInv, venue' = venue, feed' = feed,
         version' \in 0 .. Len(venue), levels' \in Books, sequence' \in 0 .. Len(venue),
         synchronized' \in BOOLEAN, cached' \in SUBSET [levels : Books, nonce : 0 .. Len(venue)],
         LevelsReal', CacheAgrees'
  PROVE  IInv'
BY DEF IInv, TypeOK, VenueUncrossed, Uncrossed

LEMMA TradeIInv == ASSUME IInv, Trade PROVE IInv'
<1> DEFINE n == Len(venue)
<1>2. n \in 1 .. MaxVersion /\ n < MaxVersion /\ MaxVersion \in Nat
  BY BookAssumption DEF Trade, IInv, TypeOK
<1>5. PICK book \in Books : Uncrossed(book) /\ venue' = Append(venue, book)
  BY DEF Trade
<1>6. /\ venue' \in Seq(Books)
      /\ Len(venue') = n + 1
      /\ \A v \in 1 .. n : venue'[v] = venue[v]
      /\ venue'[n + 1] = book
  BY <1>2, <1>5 DEF IInv, TypeOK
<1>7. UNCHANGED <<feed, version, levels, sequence, synchronized, cached>>
  BY DEF Trade, localVars
<1>8. 0 .. n \subseteq 0 .. n + 1 /\ n + 1 \in 1 .. MaxVersion
  BY <1>2
<1>9. version' \in 0 .. n + 1 /\ sequence' \in 0 .. n + 1
  BY <1>7, <1>8 DEF IInv, TypeOK
<1>10. cached' \in SUBSET [levels : Books, nonce : 0 .. n + 1]
  BY <1>7, <1>8 DEF IInv, TypeOK
<1>11. TypeOK'
  BY <1>6, <1>7, <1>8, <1>9, <1>10 DEF IInv, TypeOK
<1>12. VenueUncrossed'
  <2> SUFFICES ASSUME NEW v \in 1 .. n + 1 PROVE Uncrossed(venue'[v])
    BY <1>6 DEF VenueUncrossed, Uncrossed
  <2>1. CASE v = n + 1
    BY <1>5, <1>6, <2>1
  <2>2. CASE v # n + 1
    <3>1. v \in 1 .. n
      BY <1>2, <2>2
    <3> QED  BY <1>6, <3>1 DEF IInv, VenueUncrossed
  <2> QED  BY <2>1, <2>2
<1>13. LevelsReal'
  <2> SUFFICES ASSUME synchronized'
               PROVE  /\ version' \in 1 .. n + 1
                      /\ sequence' = Number(version)'
                      /\ \A m \in Levels : levels'[m] # 0 => levels'[m] = venue'[version'][m]
    BY <1>6 DEF LevelsReal
  <2>1. /\ version \in 1 .. n
        /\ sequence = Number(version)
        /\ \A m \in Levels : levels[m] # 0 => levels[m] = venue[version][m]
    BY <1>7 DEF IInv, LevelsReal
  <2> QED  BY <1>2, <1>6, <1>7, <2>1 DEF Number
<1>14. CacheAgrees'
  BY <1>7 DEF IInv, CacheAgrees
<1> QED  BY <1>11, <1>12, <1>13, <1>14 DEF IInv

LEMMA SnapshotIInv ==
  ASSUME IInv, NEW to \in 1 .. Len(venue), ReceiveSnapshot(to) PROVE IInv'
<1>1. /\ levels' = Trim(venue[to]) /\ sequence' = Number(to) /\ version' = to
      /\ synchronized' = TRUE /\ cached' = {} /\ venue' = venue /\ feed' = feed
  BY DEF ReceiveSnapshot, ApplySnapshot, InvalidateCache
<1>2. venue[to] \in Books
  BY ElementOfSeq DEF IInv, TypeOK
<1>3. levels' \in Books /\ \A l \in Levels : levels'[l] # 0 => levels'[l] = venue'[version'][l]
  BY <1>1, <1>2, TrimProperties
<1>4. sequence' \in 0 .. Len(venue) /\ version' \in 0 .. Len(venue)
  BY <1>1 DEF Number, None, IInv, TypeOK
<1>5. LevelsReal'
  BY <1>1, <1>3 DEF LevelsReal, Number
<1> QED  BY <1>1, <1>3, <1>4, <1>5, SameVenue DEF CacheAgrees

LEMMA DeltaIInv ==
  ASSUME IInv, NEW to \in 1 .. Len(venue), NEW from \in 1 .. to, ReceiveDelta(from, to)
  PROVE  IInv'
<1>1. /\ TypeOK /\ LevelsReal /\ venue' = venue /\ feed' = feed
      /\ SentDelta(from, to) /\ from \in 1 .. to - 1
  BY DEF IInv, ReceiveDelta, SentDelta
<1>2. CASE MarkDesynchronized
  BY <1>1, <1>2, SameVenue DEF MarkDesynchronized, TypeOK, LevelsReal, CacheAgrees
<1>3. CASE UNCHANGED localVars
  BY <1>1, <1>3, SameVenue DEF localVars, IInv, TypeOK, LevelsReal, CacheAgrees, Number
<1>4. CASE synchronized /\ ~Gapped(from, to) /\ ~Repeated(to) /\ ApplyDelta(from, to)
  <2>1. from = version
    BY <1>1, <1>4, AppliedFromVersion
  <2>2. /\ levels' = Trim(WithDelta(from, to)) /\ version' = to /\ cached' = {}
        /\ sequence' = (IF feed = "bare" THEN sequence ELSE to)
        /\ synchronized' = synchronized
    BY <1>4 DEF ApplyDelta, InvalidateCache
  <2>3. /\ WithDelta(from, to) \in Books
        /\ \A l \in Levels :
             \/ WithDelta(from, to)[l] = venue[to][l]
             \/ WithDelta(from, to)[l] = levels[l] /\ venue[from][l] = venue[to][l]
    BY <1>1, WithDeltaProperties
  <2>4. \A l \in Levels : levels[l] # 0 => levels[l] = venue[from][l]
    BY <1>1, <1>4, <2>1 DEF LevelsReal
  <2>5. levels' \in Books /\ \A l \in Levels : levels'[l] # 0 => levels'[l] = WithDelta(from, to)[l]
    BY <2>2, <2>3, TrimProperties
  <2>6. \A l \in Levels : levels'[l] # 0 => levels'[l] = venue'[version'][l]
    BY <1>1, <2>2, <2>3, <2>4, <2>5
  <2>7. sequence' = Number(to)
    BY <1>1, <1>4, <2>2 DEF Number, LevelsReal
  <2>8. sequence' \in 0 .. Len(venue) /\ version' \in 0 .. Len(venue)
    BY <1>1, <2>2, <2>7 DEF Number, None, TypeOK
  <2>9. LevelsReal'
    BY <1>1, <2>2, <2>6, <2>7 DEF LevelsReal, Number
  <2> QED  BY <1>1, <2>2, <2>5, <2>8, <2>9, SameVenue DEF CacheAgrees, TypeOK
<1> QED  BY <1>2, <1>3, <1>4 DEF ReceiveDelta, ApplyUpdate

LEMMA ReadIInv == ASSUME IInv, Read PROVE IInv'
<1>1. /\ synchronized
      /\ cached' = IF cached # {} THEN cached ELSE {[levels |-> levels, nonce |-> sequence]}
      /\ UNCHANGED <<venue, feed, version, levels, sequence, synchronized>>
  BY DEF Read
<1>2. cached' = {[levels |-> levels, nonce |-> sequence]}
  BY <1>1 DEF IInv, CacheAgrees
<1>3. cached' \in SUBSET [levels : Books, nonce : 0 .. Len(venue)]
  BY <1>2 DEF IInv, TypeOK
<1>4. LevelsReal' /\ CacheAgrees'
  BY <1>1, <1>2 DEF IInv, LevelsReal, CacheAgrees, Number
<1> QED  BY <1>1, <1>3, <1>4, SameVenue DEF IInv, TypeOK

LEMMA NextIInv == IInv /\ [Next]_vars => IInv'
<1> SUFFICES ASSUME IInv, [Next]_vars PROVE IInv'
  OBVIOUS
<1>1. CASE UNCHANGED vars
  BY <1>1, SameVenue
     DEF vars, localVars, IInv, TypeOK, LevelsReal, CacheAgrees, Number
<1> QED  BY <1>1, TradeIInv, SnapshotIInv, DeltaIInv, ReadIInv DEF Next

LEMMA Inductive == Spec => []IInv
  BY InitIInv, NextIInv, PTL DEF Spec

-----------------------------------------------------------------------------
(* Results.                                                                *)

\* Type correctness of the local book.
THEOREM TypeCorrect == Spec => []TypeOK
<1>1. IInv => TypeOK
  BY DEF IInv
<1> QED  BY <1>1, Inductive, PTL

\* The levels of a synchronized book are the venue's of the version it names,
\* for every feed and however its numbered messages are lost, repeated and
\* reordered.
THEOREM LevelsAreReal == Spec => []LevelsReal
<1>1. IInv => LevelsReal
  BY DEF IInv
<1> QED  BY <1>1, Inductive, PTL

\* A view made before a change is never returned after it.
THEOREM CacheIsCurrent == Spec => []CacheAgrees
<1>1. IInv => CacheAgrees
  BY DEF IInv
<1> QED  BY <1>1, Inductive, PTL

\* The levels of one uncrossed book do not cross.
LEMMA UncrossedFromIInv == ASSUME IInv PROVE NotCrossed
<1> SUFFICES ASSUME synchronized, NEW b \in Prices, NEW a \in Prices,
                    levels[<<"bid", b>>] > 0, levels[<<"ask", a>>] > 0
             PROVE  b < a
  BY DEF NotCrossed, Uncrossed
<1>1. <<"bid", b>> \in Levels /\ <<"ask", a>> \in Levels
  BY DEF Levels
<1>2. version \in 1 .. Len(venue) /\ Uncrossed(venue[version])
  BY DEF IInv, LevelsReal, VenueUncrossed
<1>3. /\ venue[version][<<"bid", b>>] = levels[<<"bid", b>>]
      /\ venue[version][<<"ask", a>>] = levels[<<"ask", a>>]
  BY <1>1 DEF IInv, LevelsReal
<1> QED  BY <1>2, <1>3 DEF Uncrossed

\* A synchronized book is never crossed.
THEOREM NeverCrossed == Spec => []NotCrossed
<1>1. IInv => NotCrossed
  BY UncrossedFromIInv
<1> QED  BY <1>1, Inductive, PTL

-----------------------------------------------------------------------------
(* The book as the service feeds it.                                       *)

LEMMA PromotedIInv ==
  ASSUME IInv, NEW to \in 1 .. Len(venue), NEW from \in 1 .. to,
         ApplySnapshot(PromotedBook(from, to), to), venue' = venue, feed' = feed
  PROVE  IInv'
<1> DEFINE book == PromotedBook(from, to)
<1>1. /\ levels' = Trim(book) /\ sequence' = Number(to) /\ version' = to
      /\ synchronized' = TRUE /\ cached' = {}
  BY DEF ApplySnapshot, InvalidateCache
<1>2. venue[to] \in Books
  BY ElementOfSeq DEF IInv, TypeOK
<1>3. book \in Books /\ \A l \in Levels : book[l] # 0 => book[l] = venue[to][l]
  BY <1>2, BookAssumption DEF PromotedBook, Books
<1> HIDE DEF book
<1>4. levels' \in Books /\ \A l \in Levels : levels'[l] # 0 => levels'[l] = venue'[version'][l]
  BY <1>1, <1>3, TrimProperties
<1>5. sequence' \in 0 .. Len(venue) /\ version' \in 0 .. Len(venue)
  BY <1>1 DEF Number, None, IInv, TypeOK
<1>6. LevelsReal'
  BY <1>1, <1>4 DEF LevelsReal, Number
<1> QED  BY <1>1, <1>4, <1>5, <1>6, SameVenue DEF CacheAgrees

LEMMA FeedInductive == FeedSpec => []IInv
<1>1. ASSUME IInv, [FeedNext]_vars PROVE IInv'
  <2>1. CASE UNCHANGED vars
    BY <1>1, <2>1, NextIInv
  <2>2. ASSUME NEW to \in 1 .. Len(venue), NEW from \in 1 .. to, HandleDelta(from, to)
        PROVE  IInv'
    <3>1. CASE Promoted(from, to)
      BY <1>1, <2>2, <3>1, PromotedIInv DEF HandleDelta
    <3>2. CASE ~Promoted(from, to)
      <4>1. ReceiveDelta(from, to)
        BY <2>2, <3>2 DEF HandleDelta, ReceiveDelta
      <4> QED  BY <1>1, <4>1, DeltaIInv
    <3> QED  BY <3>1, <3>2
  <2> QED  BY <1>1, <2>1, <2>2, TradeIInv, SnapshotIInv, ReadIInv
           DEF FeedNext, HandleSnapshot
<1> QED  BY <1>1, InitIInv, PTL DEF FeedSpec

\* Also where deltas are taken for snapshots, a book is incomplete but never
\* wrong: its levels are the venue's of the version it names.
THEOREM FedLevelsAreReal == FeedSpec => []LevelsReal
<1>1. IInv => LevelsReal
  BY DEF IInv
<1> QED  BY <1>1, FeedInductive, PTL

\* Nor is a book crossed that was made from a delta.
THEOREM FedNeverCrossed == FeedSpec => []NotCrossed
<1>1. IInv => NotCrossed
  BY UncrossedFromIInv
<1> QED  BY <1>1, FeedInductive, PTL

\* Nor is a view returned that was made before a promotion.
THEOREM FedCacheIsCurrent == FeedSpec => []CacheAgrees
<1>1. IInv => CacheAgrees
  BY DEF IInv
<1> QED  BY <1>1, FeedInductive, PTL

-----------------------------------------------------------------------------
(* The connection: WebSocketManager.                                       *)

-----------------------------------------------------------------------------
(* The invariant.                                                          *)

\* Only stop ends the running; a task that was cancelled or is over, and a
\* manager that is being stopped, are of one that does not run.
EndsByStop ==
  /\ running => pc # "none" /\ pc # "over" /\ ~cancelled /\ stopper = "idle"
  /\ stopper = "closing" => pc = "none" /\ beat = NoBeat
  /\ pc = "none" => ~cancelled

\* Where the run loop has no connection to read from, the state says so, or
\* the socket is not open.
Unconnected ==
  /\ pc = "opening" => state = "CONNECTING"
  /\ pc \in {"closing", "backoff"} => state = "RECONNECTING"
  /\ pc = "loop" /\ running => ~Connected

ManagerInv == ManagerTypeOK /\ EndsByStop /\ Unconnected /\ ConnectedIsServed /\ StoppedIsClean

-----------------------------------------------------------------------------
(* The types, step by step.                                                *)

LEMMA LongerIsBounded ==
  ASSUME NEW a \in 0 .. LongestSilence
  PROVE  Longer(a) \in 0 .. LongestSilence
  BY ManagerAssumption DEF Longer

LEMMA ManagerTypeStep == ManagerTypeOK /\ [ManagerNext]_managerVars => ManagerTypeOK'
<1> SUFFICES ASSUME ManagerTypeOK, [ManagerNext]_managerVars PROVE ManagerTypeOK'
  OBVIOUS
<1> USE ManagerAssumption DEF ManagerTypeOK
<1>1. CASE UNCHANGED managerVars
  BY <1>1 DEF managerVars, loopVars, beatVars, frameVars
<1>2. CASE Start
  BY <1>2 DEF Start, beatVars, frameVars, LoopStates
<1>3. CASE Attempt
  BY <1>3 DEF Attempt, DelayOnAttempt, beatVars, frameVars, LoopStates
<1>4. CASE Opened
  BY <1>4 DEF Opened, beatVars, frameVars, LoopStates
<1>5. CASE Subscribed
  <2>1. beat' \in Beats \cup {NoBeat} /\ beats' \subseteq Beats
    BY <1>5 DEF Subscribed, StartBeat, beatVars
  <2> QED BY <1>5, <2>1 DEF Subscribed, frameVars, LoopStates
<1>6. CASE Frame("data") \/ Frame("beat")
  <2>1. PICK frame \in {"data", "beat"} : Frame(frame)
    BY <1>6
  <2>2. seen' \in BOOLEAN
    BY <2>1 DEF Frame
  <2>3. age' \in 0 .. LongestSilence /\ heard' \in 0 .. LongestSilence /\ pc' \in LoopStates
    BY <2>1 DEF Frame, LoopStates
  <2> QED BY <2>1, <2>2, <2>3 DEF Frame, beatVars
<1>7. CASE Handled
  BY <1>7 DEF Handled, beatVars, frameVars, LoopStates
<1>8. CASE Fail
  BY <1>8 DEF Fail, CancelBeat, StateFailed, frameVars, LoopStates
<1>9. CASE Closed
  BY <1>9 DEF Closed, beatVars, frameVars, LoopStates
<1>10. CASE Wake
  BY <1>10 DEF Wake, Doubled, beatVars, frameVars, LoopStates
<1>11. CASE CancelledThere
  BY <1>11 DEF CancelledThere, beatVars, frameVars, LoopStates
<1>12. CASE Stop
  BY <1>12 DEF Stop, CancelBeat, frameVars
<1>13. CASE Joined
  BY <1>13 DEF Joined, CancelBeat, frameVars, LoopStates
<1>14. CASE Stopped
  BY <1>14 DEF Stopped, SocketAfterStop, beatVars, frameVars
<1>15. CASE \E b \in Beats : BeatEnds(b) \/ BeatFails(b)
  BY <1>15 DEF BeatEnds, BeatFails, loopVars, frameVars
<1>16. CASE Forget
  BY <1>16 DEF Forget, loopVars, beatVars
<1>17. CASE Drop
  BY <1>17 DEF Drop, loopVars, beatVars, frameVars
<1>18. CASE Tick
  BY <1>18, LongerIsBounded DEF Tick, loopVars, beatVars
<1> QED
  BY <1>1, <1>2, <1>3, <1>4, <1>5, <1>6, <1>7, <1>8, <1>9, <1>10, <1>11, <1>12, <1>13,
     <1>14, <1>15, <1>16, <1>17, <1>18 DEF ManagerNext, Run

-----------------------------------------------------------------------------
(* The rest of the invariant: one lemma for the steps of the run loop, of  *)
(* stop, and of everybody else.                                            *)

LEMMA LoopStep ==
  ASSUME ManagerInv, Run
  PROVE  EndsByStop' /\ Unconnected' /\ ConnectedIsServed' /\ StoppedIsClean'
<1> USE DEF ManagerInv, EndsByStop, Unconnected, ConnectedIsServed, StoppedIsClean, Connected, At
<1>1. CASE Attempt
  BY <1>1 DEF Attempt, beatVars
<1>2. CASE Opened
  BY <1>2 DEF Opened, beatVars
<1>3. CASE Subscribed
  BY <1>3 DEF Subscribed
<1>4. CASE Frame("data") \/ Frame("beat")
  BY <1>4 DEF Frame, beatVars
<1>5. CASE Handled
  BY <1>5 DEF Handled, beatVars
<1>6. CASE Fail
  BY <1>6 DEF Fail, CancelBeat, StateFailed, Caught
<1>7. CASE Closed
  BY <1>7 DEF Closed, beatVars
<1>8. CASE Wake
  BY <1>8 DEF Wake, beatVars
<1>9. CASE CancelledThere
  BY <1>9 DEF CancelledThere, beatVars
<1> QED BY <1>1, <1>2, <1>3, <1>4, <1>5, <1>6, <1>7, <1>8, <1>9 DEF Run

LEMMA StopStep ==
  ASSUME ManagerInv, Start \/ Stop \/ Joined \/ Stopped
  PROVE  EndsByStop' /\ Unconnected' /\ ConnectedIsServed' /\ StoppedIsClean'
<1> USE DEF ManagerInv, EndsByStop, Unconnected, ConnectedIsServed, StoppedIsClean, Connected
<1>1. CASE Start
  BY <1>1 DEF Start, beatVars
<1>2. CASE Stop
  BY <1>2 DEF Stop, CancelBeat
<1>3. CASE Joined
  BY <1>3 DEF Joined, CancelBeat
<1>4. CASE Stopped
  BY <1>4 DEF Stopped, SocketAfterStop, beatVars
<1> QED BY <1>1, <1>2, <1>3, <1>4

LEMMA OtherStep ==
  ASSUME ManagerInv,
         \/ \E b \in Beats : BeatEnds(b) \/ BeatFails(b)
         \/ Forget \/ Drop \/ Tick \/ UNCHANGED managerVars
  PROVE  EndsByStop' /\ Unconnected' /\ ConnectedIsServed' /\ StoppedIsClean'
<1>1. /\ UNCHANGED <<running, stopper, pc, cancelled, state, beat>>
      /\ ws' = ws \/ (ws = "open" /\ ws' = "closed")
  BY DEF BeatEnds, BeatFails, Forget, Drop, Tick, managerVars, loopVars, beatVars, frameVars
<1> QED
  BY <1>1 DEF ManagerInv, EndsByStop, Unconnected, ConnectedIsServed, StoppedIsClean, Connected

LEMMA ManagerInitEstablishes == ManagerInit => ManagerInv
<1> SUFFICES ASSUME ManagerInit PROVE ManagerInv
  OBVIOUS
<1>1. 0 \in 0 .. MaxDelay /\ LongestSilence \in 0 .. LongestSilence
  BY ManagerAssumption
<1>2. ManagerTypeOK
  BY <1>1 DEF ManagerInit, ManagerTypeOK, LoopStates
<1>3. EndsByStop /\ Unconnected /\ ConnectedIsServed /\ StoppedIsClean
  BY DEF ManagerInit, EndsByStop, Unconnected, ConnectedIsServed, StoppedIsClean, Connected
<1> QED BY <1>2, <1>3 DEF ManagerInv

LEMMA ManagerStepKeeps == ManagerInv /\ [ManagerNext]_managerVars => ManagerInv'
<1> SUFFICES ASSUME ManagerInv, [ManagerNext]_managerVars PROVE ManagerInv'
  OBVIOUS
<1>1. ManagerTypeOK'
  BY ManagerTypeStep DEF ManagerInv
<1>2. EndsByStop' /\ Unconnected' /\ ConnectedIsServed' /\ StoppedIsClean'
  BY LoopStep, StopStep, OtherStep DEF ManagerNext
<1> QED BY <1>1, <1>2 DEF ManagerInv

LEMMA ManagerInvariance == ManagerSpec => []ManagerInv
  BY ManagerInitEstablishes, ManagerStepKeeps, PTL DEF ManagerSpec

-----------------------------------------------------------------------------
(* Theorems.                                                               *)

\* Every variable has its type: the delay stays within its maximum (_run_loop).
THEOREM ManagerTypeCorrect == ManagerSpec => []ManagerTypeOK
<1>1. ManagerInv => ManagerTypeOK
  BY DEF ManagerInv
<1> QED BY <1>1, ManagerInvariance, PTL

\* A feed reported as connected by a manager that runs is being read, wherever
\* the socket is dropped and whatever fails (_run_loop, connected).
THEOREM ConnectedMeansServed == ManagerSpec => []ConnectedIsServed
<1>1. ManagerInv => ConnectedIsServed
  BY DEF ManagerInv
<1> QED BY <1>1, ManagerInvariance, PTL

\* Wherever stop cancels the run loop, nothing is left of it in the end (stop).
THEOREM StopCleans == ManagerSpec => []StoppedIsClean
<1>1. ManagerInv => StoppedIsClean
  BY DEF ManagerInv
<1> QED BY <1>1, ManagerInvariance, PTL

-----------------------------------------------------------------------------
(* The copies: SharedMarketData.                                           *)

-----------------------------------------------------------------------------
(* The invariant.                                                          *)

\* An answer of Redis on its way to the consumer is no fresher than the book
\* either, although updates arrive while it is.
AnswersNeverFresher ==
  \A h \in Hydrators : hydrators[h].at = "answered" =>
    /\ hydrators[h].symbol \in Symbols
    /\ hydrators[h].book # NoCopy => updated[hydrators[h].symbol] <= hydrators[h].book

SharedInv == SharedTypeOK /\ NeverFresher /\ AnswersNeverFresher

-----------------------------------------------------------------------------
(* Time.                                                                   *)

\* All copies grow older together, and none that is not there begins to be.
LEMMA OlderInStep ==
  /\ \A a \in Ages : Older(a) \in Ages /\ a <= Older(a)
  /\ \A a, b \in Ages : a <= b => Older(a) <= Older(b)
  /\ Older(NoCopy) = NoCopy
  /\ \A a \in Ages \cup {NoCopy} : (Older(a) = NoCopy <=> a = NoCopy) /\ Older(a) \in Ages \cup {NoCopy}
<1>1. \A a \in Ages : Older(a) \in Ages /\ a <= Older(a)
  BY SharedAssumption DEF Older, Ages
<1>2. \A a, b \in Ages : a <= b => Older(a) <= Older(b)
  BY SharedAssumption DEF Older, Ages
<1>3. Older(NoCopy) = NoCopy
  BY SharedAssumption DEF Older
<1>4. NoCopy \notin Ages
  BY SharedAssumption DEF Ages
<1> QED BY <1>1, <1>2, <1>3, <1>4

LEMMA TimeKeeps ==
  ASSUME SharedInv, TimePasses
  PROVE  SharedInv'
<1>1. /\ updated \in [Symbols -> Ages] /\ redisBook \in [Symbols -> Ages \cup {NoCopy}]
      /\ local \in [Symbols -> Ages \cup {NoCopy}] /\ hydrators \in [Hydrators -> HydratorStates]
      /\ sinceWrite \in 0 .. Interval
  BY DEF SharedInv, SharedTypeOK
<1>2. /\ updated' \in [Symbols -> Ages] /\ redisBook' \in [Symbols -> Ages \cup {NoCopy}]
      /\ local' \in [Symbols -> Ages \cup {NoCopy}]
  BY <1>1, OlderInStep DEF TimePasses
<1>3. \A h \in Hydrators :
        /\ hydrators'[h] \in HydratorStates
        /\ hydrators'[h].at = hydrators[h].at /\ hydrators'[h].symbol = hydrators[h].symbol
        /\ hydrators'[h].book = Older(hydrators[h].book)
  <2> TAKE h \in Hydrators
  <2>1. hydrators[h] \in HydratorStates /\ hydrators'[h] = [hydrators[h] EXCEPT !.book = Older(@)]
    BY <1>1 DEF TimePasses
  <2>2. Older(hydrators[h].book) \in Ages \cup {NoCopy}
    BY <2>1, OlderInStep DEF HydratorStates
  <2> QED BY <2>1, <2>2 DEF HydratorStates
<1>4. SharedTypeOK'
  <2>1. hydrators' \in [Hydrators -> HydratorStates]
    BY <1>3 DEF TimePasses
  <2>2. sinceWrite' \in 0 .. Interval
    BY <1>1, SharedAssumption DEF TimePasses
  <2> QED BY <1>2, <2>1, <2>2 DEF TimePasses, SharedInv, SharedTypeOK
<1>5. NeverFresher'
  <2> SUFFICES ASSUME NEW s \in Symbols
               PROVE  /\ redisBook'[s] # NoCopy => updated'[s] <= redisBook'[s]
                      /\ local'[s] # NoCopy => updated'[s] <= local'[s]
    BY DEF NeverFresher
  <2>1. /\ updated'[s] = Older(updated[s]) /\ redisBook'[s] = Older(redisBook[s])
        /\ local'[s] = Older(local[s])
    BY DEF TimePasses
  <2>2. /\ redisBook[s] # NoCopy => updated[s] <= redisBook[s]
        /\ local[s] # NoCopy => updated[s] <= local[s]
    BY DEF SharedInv, NeverFresher
  <2> QED BY <1>1, <2>1, <2>2, OlderInStep
<1>6. AnswersNeverFresher'
  <2> SUFFICES ASSUME NEW h \in Hydrators, hydrators'[h].at = "answered"
               PROVE  /\ hydrators'[h].symbol \in Symbols
                      /\ hydrators'[h].book # NoCopy
                           => updated'[hydrators'[h].symbol] <= hydrators'[h].book
    BY DEF AnswersNeverFresher
  <2> DEFINE s == hydrators[h].symbol
             book == hydrators[h].book
  <2>1. /\ s \in Symbols /\ (book # NoCopy => updated[s] <= book)
        /\ hydrators'[h].symbol = s /\ hydrators'[h].book = Older(book)
    BY <1>3 DEF SharedInv, AnswersNeverFresher
  <2>2. updated[s] \in Ages /\ book \in Ages \cup {NoCopy} /\ updated'[s] = Older(updated[s])
    BY <1>1, <2>1 DEF HydratorStates, TimePasses
  <2> HIDE DEF s, book
  <2> QED BY <2>1, <2>2, OlderInStep
<1> QED BY <1>4, <1>5, <1>6 DEF SharedInv

-----------------------------------------------------------------------------
(* The publisher and Redis.                                                *)

LEMMA HandlerTyped ==
  ASSUME SharedTypeOK, NEW s \in Symbols, NEW at \in {"event", "book", "health"}, ToCache(s, at)
  PROVE  handler' \in HandlerStates
  BY DEF ToCache, HandlerStates, NotHandling

LEMMA EventKeeps ==
  ASSUME SharedInv, NEW s \in Symbols, BookEvent(s) \/ GapEvent(s) \/ TickEvent(s)
  PROVE  SharedInv'
<1>1. handler' \in HandlerStates
  BY HandlerTyped DEF BookEvent, GapEvent, TickEvent, SharedInv
<1>2. 0 \in Ages /\ \A a \in Ages : 0 <= a
  BY SharedAssumption DEF Ages
<1>3. /\ updated' \in [Symbols -> Ages] /\ synced' \in [Symbols -> BOOLEAN]
      /\ \A t \in Symbols : updated'[t] <= updated[t]
  <2>1. updated \in [Symbols -> Ages] /\ synced \in [Symbols -> BOOLEAN]
    BY DEF SharedInv, SharedTypeOK
  <2>2. \A t \in Symbols : updated[t] <= updated[t]
    BY <2>1, SharedAssumption DEF Ages
  <2>3. updated' = updated \/ updated' = [updated EXCEPT ![s] = 0]
    BY DEF BookEvent, GapEvent, TickEvent, feedVars
  <2>4. \/ synced' = synced
        \/ synced' = [synced EXCEPT ![s] = TRUE] \/ synced' = [synced EXCEPT ![s] = FALSE]
    BY DEF BookEvent, GapEvent, TickEvent, feedVars
  <2>5. synced' \in [Symbols -> BOOLEAN]
    BY <2>1, <2>4
  <2>6. updated' \in [Symbols -> Ages] /\ \A t \in Symbols : updated'[t] <= updated[t]
    BY <1>2, <2>1, <2>2, <2>3
  <2> QED BY <2>5, <2>6
<1>4. UNCHANGED <<connected, sinceWrite, redisUp, redisBook, redisHealth, started, local, remote, hydrators>>
  BY DEF BookEvent, GapEvent, TickEvent, feedVars, redisVars, consumerVars
<1>5. SharedTypeOK'
  BY <1>1, <1>3, <1>4 DEF SharedInv, SharedTypeOK
<1>6. \A t \in Symbols : updated'[t] \in Nat /\ updated[t] \in Nat
  BY <1>3, SharedAssumption DEF SharedInv, SharedTypeOK, Ages
<1>7. NeverFresher'
  <2> SUFFICES ASSUME NEW t \in Symbols
               PROVE  /\ redisBook[t] # NoCopy => updated'[t] <= redisBook[t]
                      /\ local[t] # NoCopy => updated'[t] <= local[t]
    BY <1>4 DEF NeverFresher
  <2>1. redisBook[t] \in Ages \cup {NoCopy} /\ local[t] \in Ages \cup {NoCopy}
    BY DEF SharedInv, SharedTypeOK
  <2>2. /\ redisBook[t] # NoCopy => updated[t] <= redisBook[t]
        /\ local[t] # NoCopy => updated[t] <= local[t]
    BY DEF SharedInv, NeverFresher
  <2> QED BY <1>3, <1>6, <2>1, <2>2, SharedAssumption DEF Ages
<1>8. AnswersNeverFresher'
  <2> SUFFICES ASSUME NEW h \in Hydrators, hydrators[h].at = "answered"
               PROVE  /\ hydrators[h].symbol \in Symbols
                      /\ hydrators[h].book # NoCopy
                           => updated'[hydrators[h].symbol] <= hydrators[h].book
    BY <1>4 DEF AnswersNeverFresher
  <2>1. hydrators[h].book \in Ages \cup {NoCopy}
    BY DEF SharedInv, SharedTypeOK, HydratorStates
  <2>2. /\ hydrators[h].symbol \in Symbols
        /\ hydrators[h].book # NoCopy => updated[hydrators[h].symbol] <= hydrators[h].book
    BY DEF SharedInv, AnswersNeverFresher
  <2> QED BY <1>3, <1>6, <2>1, <2>2, SharedAssumption DEF Ages
<1> QED BY <1>5, <1>7, <1>8 DEF SharedInv

\* The book in Redis changes only to what the publisher has, or to nothing.
LEMMA RedisBecomes ==
  ASSUME SharedInv,
         \/ Handle \/ PublishHealth \/ Connection \/ Restart
         \/ ExpireHealth \/ Outage \/ \E s \in Symbols : Expire(s)
  PROVE  \A t \in Symbols : redisBook'[t] \in {redisBook[t], updated[t], NoCopy}
<1>1. CASE WriteBook
  BY <1>1 DEF WriteBook, Published, SharedInv, SharedTypeOK
<1>2. CASE \E s \in Symbols : Expire(s)
  BY <1>2 DEF Expire, SharedInv, SharedTypeOK
<1>3. CASE UNCHANGED redisBook
  BY <1>3
<1> QED
  BY <1>1, <1>2, <1>3 DEF Handle, WriteHealth, PublishHealth, Connection, Restart,
                          ExpireHealth, Outage, redisVars

\* Of the books only the one in Redis changes.
LEMMA PublisherKeeps ==
  ASSUME SharedInv,
         \/ Handle \/ PublishHealth \/ Connection \/ Restart
         \/ ExpireHealth \/ Outage \/ \E s \in Symbols : Expire(s)
  PROVE  SharedInv'
<1>1. UNCHANGED <<updated, started, local, remote, hydrators>>
  BY DEF Handle, WriteBook, WriteHealth, PublishHealth, Connection, Restart,
         ExpireHealth, Outage, Expire, publisherVars, feedVars, redisVars, consumerVars
<1>2. \A t \in Symbols : redisBook'[t] \in {redisBook[t], updated[t], NoCopy}
  BY RedisBecomes
<1>3. redisBook' \in [Symbols -> Ages \cup {NoCopy}]
  <2>1. redisBook' = [t \in Symbols |-> redisBook'[t]]
    BY DEF Handle, WriteBook, WriteHealth, PublishHealth, Connection, Restart,
           ExpireHealth, Outage, Expire, redisVars, SharedInv, SharedTypeOK
  <2> QED BY <1>2, <2>1 DEF SharedInv, SharedTypeOK
<1>4. /\ connected' \in BOOLEAN /\ redisUp' \in BOOLEAN /\ synced' \in [Symbols -> BOOLEAN]
      /\ sinceWrite' \in 0 .. Interval
  <2>1. /\ connected' \in {connected, ~connected, FALSE} /\ redisUp' \in {redisUp, ~redisUp}
        /\ synced' = synced \/ synced' = [s \in Symbols |-> FALSE]
        /\ sinceWrite' \in {sinceWrite, 0, Interval}
    BY DEF Handle, WriteBook, WriteHealth, PublishHealth, Connection, Restart,
           ExpireHealth, Outage, Expire, publisherVars, feedVars, redisVars
  <2>2. /\ connected \in BOOLEAN /\ redisUp \in BOOLEAN /\ synced \in [Symbols -> BOOLEAN]
        /\ sinceWrite \in 0 .. Interval
    BY DEF SharedInv, SharedTypeOK
  <2>3. connected' \in BOOLEAN /\ redisUp' \in BOOLEAN
    BY <2>1, <2>2
  <2>4. synced' \in [Symbols -> BOOLEAN]
    BY <2>1, <2>2
  <2>5. sinceWrite' \in 0 .. Interval
    BY <2>1, <2>2, SharedAssumption
  <2> QED BY <2>3, <2>4, <2>5
<1>5. handler' \in HandlerStates
  BY DEF Handle, WriteBook, WriteHealth, PublishHealth, Connection, Restart, NotHandling,
         ExpireHealth, Outage, Expire, publisherVars, redisVars, HandlerStates, SharedInv, SharedTypeOK
<1>6. redisHealth' \in Healths \cup {NoCopy}
  <2>1. Health \in Healths
    BY DEF Health, Healths, SharedInv, SharedTypeOK
  <2> QED
    BY <2>1 DEF Handle, WriteBook, WriteHealth, PublishHealth, SetHealth, Connection, Restart,
                ExpireHealth, Outage, Expire, redisVars, SharedInv, SharedTypeOK
<1>7. SharedTypeOK'
  BY <1>1, <1>3, <1>4, <1>5, <1>6 DEF SharedInv, SharedTypeOK
<1>8. NeverFresher'
  <2> SUFFICES ASSUME NEW t \in Symbols
               PROVE  /\ redisBook'[t] # NoCopy => updated[t] <= redisBook'[t]
                      /\ local[t] # NoCopy => updated[t] <= local[t]
    BY <1>1 DEF NeverFresher
  <2>1. updated[t] <= updated[t]
    BY SharedAssumption DEF SharedInv, SharedTypeOK, Ages
  <2> QED BY <1>2, <2>1 DEF SharedInv, NeverFresher
<1> QED BY <1>1, <1>7, <1>8 DEF SharedInv, AnswersNeverFresher

-----------------------------------------------------------------------------
(* The consumer.                                                           *)

LEMMA NotHydratingTyped ==
  /\ NotHydrating \in HydratorStates /\ NotHydrating.at = "idle" /\ ~NotHydrating.alone
  /\ \A alone \in BOOLEAN :
       Begun(alone) \in HydratorStates /\ Begun(alone).at = "health" /\ Begun(alone).alone = alone
  BY DEF NotHydrating, Begun, HydratorStates

\* A step in which no answer comes and no book changes.
LEMMA NoAnswerKeeps ==
  ASSUME SharedInv, UNCHANGED <<publisherVars, redisVars, local>>,
         started' \in BOOLEAN, remote' \in Healths \cup {NoCopy},
         hydrators' \in [Hydrators -> HydratorStates],
         \A h \in Hydrators : hydrators'[h].at # "answered" \/ hydrators'[h] = hydrators[h]
  PROVE  SharedInv'
<1>1. UNCHANGED <<connected, updated, synced, sinceWrite, handler, redisUp, redisBook, redisHealth, local>>
  BY DEF publisherVars, feedVars, redisVars
<1>2. SharedTypeOK'
  BY <1>1 DEF SharedInv, SharedTypeOK
<1>3. NeverFresher'
  BY <1>1 DEF SharedInv, NeverFresher
<1>4. AnswersNeverFresher'
  BY <1>1 DEF SharedInv, AnswersNeverFresher
<1> QED BY <1>2, <1>3, <1>4 DEF SharedInv

LEMMA StartStopKeeps ==
  ASSUME SharedInv, StartConsumer \/ StopConsumer \/ Poll
  PROVE  SharedInv'
<1>1. hydrators \in [Hydrators -> HydratorStates] /\ Poller \in Hydrators
  BY SharedAssumption DEF SharedInv, SharedTypeOK
<1>2. UNCHANGED <<publisherVars, redisVars, local, remote>> /\ started' \in BOOLEAN
  BY DEF StartConsumer, StopConsumer, Poll, SharedInv, SharedTypeOK
<1>3. remote' \in Healths \cup {NoCopy}
  BY <1>2 DEF SharedInv, SharedTypeOK
<1>4. CASE StartConsumer
  BY <1>2, <1>3, <1>4, NotHydratingTyped, NoAnswerKeeps DEF StartConsumer
<1>5. CASE StopConsumer
  <2>1. hydrators' = [hydrators EXCEPT ![Poller] = NotHydrating]
    BY <1>5 DEF StopConsumer
  <2> QED BY <1>1, <1>2, <1>3, <2>1, NotHydratingTyped, NoAnswerKeeps
<1>6. CASE Poll
  <2> DEFINE alone == \A h \in Hydrators \ {Poller} : hydrators[h] = NotHydrating
  <2>1. alone \in BOOLEAN /\ hydrators' = [hydrators EXCEPT ![Poller] = Begun(alone)]
    BY <1>6 DEF Poll
  <2> HIDE DEF alone
  <2> QED BY <1>1, <1>2, <1>3, <2>1, NotHydratingTyped, NoAnswerKeeps
<1> QED BY <1>4, <1>5, <1>6

LEMMA AnswerHealthKeeps ==
  ASSUME SharedInv, NEW h \in Hydrators, AnswerHealth(h)
  PROVE  SharedInv'
<1> DEFINE became == [hydrators[h] EXCEPT !.at = "told", !.health = Got(redisHealth)]
<1>1. /\ hydrators \in [Hydrators -> HydratorStates]
      /\ Got(redisHealth) \in Healths \cup {NoCopy}
  BY DEF SharedInv, SharedTypeOK, Got
<1>2. became \in HydratorStates /\ became.at = "told"
  BY <1>1 DEF HydratorStates
<1>3. hydrators' = [hydrators EXCEPT ![h] = became]
  BY <1>1 DEF AnswerHealth
<1>4. /\ UNCHANGED <<publisherVars, redisVars, local>> /\ started' \in BOOLEAN
      /\ remote' \in Healths \cup {NoCopy}
  BY DEF AnswerHealth, SharedInv, SharedTypeOK
<1> HIDE DEF became
<1> QED BY <1>1, <1>2, <1>3, <1>4, NoAnswerKeeps

LEMMA HydrateHealthKeeps ==
  ASSUME SharedInv, NEW h \in Hydrators, HydrateHealth(h)
  PROVE  SharedInv'
<1> DEFINE became == [hydrators[h] EXCEPT !.at = "books", !.left = Symbols, !.health = NoCopy]
<1>1. hydrators \in [Hydrators -> HydratorStates]
  BY DEF SharedInv, SharedTypeOK
<1>2. became \in HydratorStates /\ became.at = "books"
  BY <1>1 DEF HydratorStates
<1>3. hydrators' = [hydrators EXCEPT ![h] = became]
  BY <1>1 DEF HydrateHealth
<1>4. remote' \in Healths \cup {NoCopy}
  <2>1. hydrators[h].health \in Healths \cup {NoCopy} /\ remote \in Healths \cup {NoCopy}
    BY <1>1 DEF HydratorStates, SharedInv, SharedTypeOK
  <2> QED BY <2>1 DEF HydrateHealth
<1>5. UNCHANGED <<publisherVars, redisVars, local>> /\ started' \in BOOLEAN
  BY DEF HydrateHealth, SharedInv, SharedTypeOK
<1> HIDE DEF became
<1> QED BY <1>1, <1>2, <1>3, <1>4, <1>5, NoAnswerKeeps

LEMMA AnswerBookKeeps ==
  ASSUME SharedInv, NEW h \in Hydrators, NEW s \in Symbols, AnswerBook(h, s)
  PROVE  SharedInv'
<1> DEFINE became == [hydrators[h] EXCEPT !.at = "answered", !.symbol = s, !.book = Got(redisBook[s])]
<1>1. /\ hydrators \in [Hydrators -> HydratorStates] /\ redisBook[s] \in Ages \cup {NoCopy}
      /\ redisBook[s] # NoCopy => updated[s] <= redisBook[s]
  BY DEF SharedInv, SharedTypeOK, NeverFresher
<1>2. /\ became \in HydratorStates /\ became.symbol = s
      /\ became.book # NoCopy => updated[s] <= became.book
  BY <1>1 DEF HydratorStates, Got
<1>3. hydrators' = [hydrators EXCEPT ![h] = became]
  BY <1>1 DEF AnswerBook
<1>4. UNCHANGED <<connected, updated, synced, sinceWrite, handler, redisUp, redisBook, redisHealth,
                  started, local, remote>>
  BY DEF AnswerBook, publisherVars, feedVars, redisVars
<1> HIDE DEF became
<1>5. SharedTypeOK' /\ NeverFresher'
  BY <1>1, <1>2, <1>3, <1>4 DEF SharedInv, SharedTypeOK, NeverFresher
<1>6. AnswersNeverFresher'
  BY <1>1, <1>2, <1>3, <1>4 DEF SharedInv, AnswersNeverFresher
<1> QED BY <1>5, <1>6 DEF SharedInv

LEMMA HydrateBookKeeps ==
  ASSUME SharedInv, NEW h \in Hydrators, HydrateBook(h)
  PROVE  SharedInv'
<1> DEFINE s == hydrators[h].symbol
           book == hydrators[h].book
           left == hydrators[h].left \ {hydrators[h].symbol}
           became == IF left = {} THEN NotHydrating
                    ELSE [NotHydrating EXCEPT !.at = "books", !.left = left,
                                              !.alone = hydrators[h].alone]
<1>1. hydrators \in [Hydrators -> HydratorStates] /\ local \in [Symbols -> Ages \cup {NoCopy}]
  BY DEF SharedInv, SharedTypeOK
<1>2. s \in Symbols /\ book \in Ages \cup {NoCopy} /\ (book # NoCopy => updated[s] <= book)
  BY <1>1 DEF HydrateBook, SharedInv, AnswersNeverFresher, HydratorStates
<1>3. left \subseteq Symbols
  BY <1>1 DEF HydratorStates
<1>4. became \in HydratorStates /\ became.at # "answered"
  BY <1>1, <1>3 DEF NotHydrating, HydratorStates
<1>5. /\ hydrators' = [hydrators EXCEPT ![h] = became]
      /\ local' = IF book = NoCopy THEN local ELSE [local EXCEPT ![s] = book]
  BY DEF HydrateBook, ApplyRemoteBook
<1>6. UNCHANGED <<connected, updated, synced, sinceWrite, handler, redisUp, redisBook, redisHealth,
                  started, remote>>
  BY DEF HydrateBook, publisherVars, feedVars, redisVars
<1> HIDE DEF s, book, left, became
<1>7. local' \in [Symbols -> Ages \cup {NoCopy}] /\ hydrators' \in [Hydrators -> HydratorStates]
  BY <1>1, <1>2, <1>4, <1>5
<1>8. SharedTypeOK'
  BY <1>6, <1>7 DEF SharedInv, SharedTypeOK
<1>9. NeverFresher'
  <2>1. \A t \in Symbols : local'[t] = local[t] \/ (t = s /\ local'[t] = book /\ book # NoCopy)
    BY <1>1, <1>5
  <2> QED BY <1>2, <1>6, <2>1 DEF SharedInv, NeverFresher
<1>10. AnswersNeverFresher'
  BY <1>1, <1>4, <1>5, <1>6 DEF SharedInv, AnswersNeverFresher
<1> QED BY <1>8, <1>9, <1>10 DEF SharedInv

-----------------------------------------------------------------------------

LEMMA SharedInitEstablishes == SharedInit => SharedInv
<1> SUFFICES ASSUME SharedInit PROVE SharedInv
  OBVIOUS
<1>1. SharedTypeOK
  <2>1. NotHandling \in HandlerStates
    BY DEF NotHandling, HandlerStates
  <2>2. Oldest \in Ages /\ Interval \in 0 .. Interval
    BY SharedAssumption DEF Ages
  <2>3. /\ updated \in [Symbols -> Ages] /\ redisBook \in [Symbols -> Ages \cup {NoCopy}]
        /\ local \in [Symbols -> Ages \cup {NoCopy}] /\ synced \in [Symbols -> BOOLEAN]
    BY <2>2 DEF SharedInit
  <2>4. hydrators \in [Hydrators -> HydratorStates]
    BY NotHydratingTyped DEF SharedInit
  <2> QED BY <2>1, <2>2, <2>3, <2>4 DEF SharedInit, SharedTypeOK
<1>2. NeverFresher /\ AnswersNeverFresher
  BY NotHydratingTyped DEF SharedInit, NeverFresher, AnswersNeverFresher
<1> QED BY <1>1, <1>2 DEF SharedInv

LEMMA SharedStepKeeps == SharedInv /\ [SharedNext]_sharedVars => SharedInv'
<1> SUFFICES ASSUME SharedInv, [SharedNext]_sharedVars PROVE SharedInv'
  OBVIOUS
<1>1. CASE UNCHANGED sharedVars
  <2>1. UNCHANGED <<started, remote, hydrators>> /\ UNCHANGED <<publisherVars, redisVars, local>>
    BY <1>1 DEF sharedVars, consumerVars
  <2>2. /\ started \in BOOLEAN /\ remote \in Healths \cup {NoCopy}
        /\ hydrators \in [Hydrators -> HydratorStates]
    BY DEF SharedInv, SharedTypeOK
  <2> QED BY <2>1, <2>2, NoAnswerKeeps
<1>2. CASE TimePasses
  BY <1>2, TimeKeeps
<1>3. CASE \E s \in Symbols : BookEvent(s) \/ GapEvent(s) \/ TickEvent(s)
  BY <1>3, EventKeeps
<1>4. CASE \/ Handle \/ PublishHealth \/ Connection \/ Restart
           \/ ExpireHealth \/ Outage \/ \E s \in Symbols : Expire(s)
  BY <1>4, PublisherKeeps
<1>5. CASE StartConsumer \/ StopConsumer \/ Poll
  BY <1>5, StartStopKeeps
<1>6. CASE \E h \in Hydrators : Hydrate(h)
  BY <1>6, AnswerHealthKeeps, HydrateHealthKeeps, AnswerBookKeeps, HydrateBookKeeps DEF Hydrate
<1> QED BY <1>1, <1>2, <1>3, <1>4, <1>5, <1>6 DEF SharedNext

LEMMA SharedInvariance == SharedSpec => []SharedInv
  BY SharedInitEstablishes, SharedStepKeeps, PTL DEF SharedSpec

-----------------------------------------------------------------------------
(* Theorems.                                                               *)

\* Every variable has its type.
THEOREM SharedTypeCorrect == SharedSpec => []SharedTypeOK
<1>1. SharedInv => SharedTypeOK
  BY DEF SharedInv
<1> QED BY <1>1, SharedInvariance, PTL

\* For any number of hydrations at once, no copy of a book passes for fresher
\* than the venue's last update, through writes, outages, expiry, restarts of
\* the publisher and answers that arrive late (publisher.py, cache.py,
\* apply_remote_book).
THEOREM CopiesNeverFresher == SharedSpec => []NeverFresher
<1>1. SharedInv => NeverFresher
  BY DEF SharedInv
<1> QED BY <1>1, SharedInvariance, PTL

-----------------------------------------------------------------------------
(* Hydrations side by side, and alone.                                     *)

\* Redis has no older book than an answer of it on its way, and that answer is
\* no older than the consumer's book if nobody else can have applied one.
AnswerForward(h) ==
  hydrators[h].at = "answered" /\ hydrators[h].book # NoCopy =>
    /\ redisBook[hydrators[h].symbol] # NoCopy
         => redisBook[hydrators[h].symbol] <= hydrators[h].book
    /\ hydrators[h].alone /\ local[hydrators[h].symbol] # NoCopy
         => hydrators[h].book <= local[hydrators[h].symbol]

BooksForward ==
  \A s \in Symbols : redisBook[s] # NoCopy /\ local[s] # NoCopy => redisBook[s] <= local[s]

\* Only the loop's hydrations are ever alone, and then no other is under way.
AloneIsAlone ==
  \A h \in Hydrators : hydrators[h].alone =>
    h = Poller /\ \A g \in Hydrators \ {Poller} : hydrators[g].at = "idle"

Forward == BooksForward /\ (\A h \in Hydrators : AnswerForward(h)) /\ AloneIsAlone

LEMMA CopyTypes ==
  ASSUME SharedInv
  PROVE  /\ Ages \subseteq Nat /\ NoCopy \notin Ages
         /\ \A s \in Symbols : /\ redisBook[s] \in Ages \cup {NoCopy}
                               /\ local[s] \in Ages \cup {NoCopy}
                               /\ updated[s] \in Ages
         /\ \A h \in Hydrators :
              /\ hydrators[h] \in HydratorStates
              /\ hydrators[h].book \in Ages \cup {NoCopy}
              /\ hydrators[h].at = "answered" => hydrators[h].symbol \in Symbols
  BY SharedAssumption DEF SharedInv, SharedTypeOK, AnswersNeverFresher, HydratorStates, Ages

LEMMA SameBooksKeep ==
  ASSUME SharedInv, local' = local
  PROVE  \A s \in Symbols : KeepsOrRefreshes(s)
  BY CopyTypes DEF KeepsOrRefreshes

\* The publisher writes what is as fresh as the venue's last update, so no
\* older than any copy.
LEMMA PublisherForward ==
  ASSUME SharedInv, Forward, UNCHANGED <<local, hydrators>>,
         \A t \in Symbols : redisBook'[t] \in {redisBook[t], updated[t], NoCopy}
  PROVE  Forward'
<1>1. BooksForward'
  BY CopyTypes DEF Forward, BooksForward, SharedInv, NeverFresher
<1>2. ASSUME NEW h \in Hydrators PROVE AnswerForward(h)'
  <2>1. hydrators[h].at = "answered" /\ hydrators[h].book # NoCopy
          => updated[hydrators[h].symbol] <= hydrators[h].book
    BY DEF SharedInv, AnswersNeverFresher
  <2> QED BY <2>1, CopyTypes DEF Forward, AnswerForward
<1>3. AloneIsAlone'
  BY DEF Forward, AloneIsAlone
<1> QED BY <1>1, <1>2, <1>3 DEF Forward

LEMMA TimeForward ==
  ASSUME SharedInv, Forward, TimePasses
  PROVE  Forward'
<1>1. \A s \in Symbols : redisBook'[s] = Older(redisBook[s]) /\ local'[s] = Older(local[s])
  BY DEF TimePasses
<1>2. \A h \in Hydrators :
        /\ hydrators'[h].at = hydrators[h].at /\ hydrators'[h].symbol = hydrators[h].symbol
        /\ hydrators'[h].alone = hydrators[h].alone
        /\ hydrators'[h].book = Older(hydrators[h].book)
  <2> TAKE h \in Hydrators
  <2>1. hydrators'[h] = [hydrators[h] EXCEPT !.book = Older(@)]
    BY DEF TimePasses
  <2> QED BY <2>1, CopyTypes DEF HydratorStates
<1>3. BooksForward'
  BY <1>1, CopyTypes, OlderInStep DEF Forward, BooksForward
<1>4. ASSUME NEW h \in Hydrators PROVE AnswerForward(h)'
  <2> DEFINE s == hydrators[h].symbol
             book == hydrators[h].book
  <2>1. CASE hydrators[h].at = "answered" /\ book # NoCopy
    <3>1. s \in Symbols /\ book \in Ages /\ AnswerForward(h)
      BY <2>1, CopyTypes DEF Forward
    <3>2. redisBook[s] # NoCopy => Older(redisBook[s]) <= Older(book)
      BY <2>1, <3>1, CopyTypes, OlderInStep DEF AnswerForward
    <3>3. hydrators[h].alone /\ local[s] # NoCopy => Older(book) <= Older(local[s])
      BY <2>1, <3>1, CopyTypes, OlderInStep DEF AnswerForward
    <3>4. /\ redisBook'[s] # NoCopy => redisBook[s] # NoCopy
          /\ local'[s] # NoCopy => local[s] # NoCopy
      BY <1>1, <3>1, OlderInStep
    <3>5. redisBook'[s] = Older(redisBook[s]) /\ local'[s] = Older(local[s])
      BY <1>1, <3>1
    <3> QED BY <1>2, <3>2, <3>3, <3>4, <3>5 DEF AnswerForward
  <2>2. CASE ~(hydrators[h].at = "answered" /\ book # NoCopy)
    BY <1>2, <2>2, CopyTypes, OlderInStep DEF AnswerForward
  <2> QED BY <2>1, <2>2
<1>5. AloneIsAlone'
  BY <1>2 DEF Forward, AloneIsAlone
<1> QED BY <1>3, <1>4, <1>5 DEF Forward

\* The consumer begins or ends hydrations.
LEMMA BeginForward ==
  ASSUME SharedInv, Forward, StartConsumer \/ StopConsumer \/ Poll
  PROVE  Forward'
<1>1. /\ hydrators \in [Hydrators -> HydratorStates] /\ Poller \in Hydrators
      /\ UNCHANGED <<redisBook, local>>
  BY SharedAssumption DEF StartConsumer, StopConsumer, Poll, redisVars, SharedInv, SharedTypeOK
<1>2. CASE StartConsumer
  <2>1. \A h \in Hydrators : /\ hydrators'[h].at = "health"
                             /\ hydrators'[h].alone = (Hydrators = {h})
    BY <1>2, NotHydratingTyped DEF StartConsumer
  <2>2. \A h \in Hydrators : AnswerForward(h)'
    BY <2>1 DEF AnswerForward
  <2>3. AloneIsAlone'
    <3>1. ASSUME NEW h \in Hydrators, Hydrators = {h} PROVE h = Poller /\ Hydrators \ {Poller} = {}
      BY <1>1, <3>1
    <3>2. \A h \in Hydrators : hydrators'[h].alone => h = Poller /\ Hydrators \ {Poller} = {}
      BY <2>1, <3>1
    <3> QED BY <3>2 DEF AloneIsAlone
  <2>4. BooksForward'
    BY <1>1 DEF Forward, BooksForward
  <2> QED BY <2>2, <2>3, <2>4 DEF Forward
<1>3. CASE StopConsumer
  <2>1. hydrators' = [hydrators EXCEPT ![Poller] = NotHydrating]
    BY <1>3 DEF StopConsumer
  <2>2. \A h \in Hydrators : AnswerForward(h)'
    BY <1>1, <2>1, NotHydratingTyped DEF Forward, AnswerForward
  <2>3. AloneIsAlone'
    BY <1>1, <2>1, NotHydratingTyped DEF Forward, AloneIsAlone
  <2>4. BooksForward'
    BY <1>1 DEF Forward, BooksForward
  <2> QED BY <2>2, <2>3, <2>4 DEF Forward
<1>4. CASE Poll
  <2> DEFINE alone == \A h \in Hydrators \ {Poller} : hydrators[h] = NotHydrating
  <2>1. /\ hydrators' = [hydrators EXCEPT ![Poller] = Begun(alone)]
        /\ hydrators[Poller] = NotHydrating /\ alone \in BOOLEAN
    BY <1>4 DEF Poll
  <2>2. hydrators'[Poller].at = "health" /\ hydrators'[Poller].alone = alone
    BY <1>1, <2>1, NotHydratingTyped
  <2>3. \A h \in Hydrators \ {Poller} : hydrators'[h] = hydrators[h]
    BY <1>1, <2>1
  <2>4. \A h \in Hydrators : AnswerForward(h)'
    BY <1>1, <2>2, <2>3 DEF Forward, AnswerForward
  <2>5. alone => \A h \in Hydrators \ {Poller} : hydrators[h].at = "idle"
    BY NotHydratingTyped
  <2> HIDE DEF alone
  <2>6. \A h \in Hydrators \ {Poller} : ~hydrators'[h].alone
    BY <2>3 DEF Forward, AloneIsAlone
  <2>7. AloneIsAlone'
    BY <2>2, <2>3, <2>5, <2>6 DEF AloneIsAlone
  <2> QED BY <1>1, <2>4, <2>7 DEF Forward, BooksForward
<1> QED BY <1>2, <1>3, <1>4

\* A hydration goes on without an answered book before or after.
LEMMA NoBookForward ==
  ASSUME SharedInv, Forward, NEW h \in Hydrators, AnswerHealth(h) \/ HydrateHealth(h)
  PROVE  Forward' /\ local' = local
<1>1. /\ hydrators \in [Hydrators -> HydratorStates] /\ UNCHANGED <<redisBook, local>>
      /\ hydrators[h].at # "idle"
  BY DEF AnswerHealth, HydrateHealth, redisVars, SharedInv, SharedTypeOK
<1>2. /\ hydrators'[h].at \in {"told", "books"} /\ hydrators'[h].alone = hydrators[h].alone
      /\ \A g \in Hydrators \ {h} : hydrators'[g] = hydrators[g]
  BY <1>1 DEF AnswerHealth, HydrateHealth, HydratorStates
<1>3. AloneIsAlone'
  BY <1>1, <1>2 DEF Forward, AloneIsAlone
<1>4. ASSUME NEW g \in Hydrators PROVE AnswerForward(g)'
  BY <1>1, <1>2 DEF Forward, AnswerForward
<1> QED BY <1>1, <1>3, <1>4 DEF Forward, BooksForward

LEMMA AnswerBookForward ==
  ASSUME SharedInv, Forward, NEW h \in Hydrators, NEW s \in Symbols, AnswerBook(h, s)
  PROVE  Forward' /\ local' = local
<1>1. /\ hydrators \in [Hydrators -> HydratorStates] /\ UNCHANGED <<redisBook, local>>
      /\ hydrators[h].at # "idle"
  BY DEF AnswerBook, redisVars, SharedInv, SharedTypeOK
<1>2. /\ hydrators'[h].at = "answered" /\ hydrators'[h].alone = hydrators[h].alone
      /\ hydrators'[h].symbol = s /\ hydrators'[h].book = Got(redisBook[s])
      /\ \A g \in Hydrators \ {h} : hydrators'[g] = hydrators[g]
  BY <1>1 DEF AnswerBook, HydratorStates
<1>3. AloneIsAlone'
  BY <1>1, <1>2 DEF Forward, AloneIsAlone
<1>4. ASSUME NEW g \in Hydrators PROVE AnswerForward(g)'
  <2>1. CASE g = h
    <3>1. Got(redisBook[s]) \in {redisBook[s], NoCopy}
      BY DEF Got
    <3>2. redisBook[s] # NoCopy => redisBook[s] <= redisBook[s]
      BY CopyTypes
    <3>3. redisBook[s] # NoCopy /\ local[s] # NoCopy => redisBook[s] <= local[s]
      BY DEF Forward, BooksForward
    <3> QED BY <1>1, <1>2, <2>1, <3>1, <3>2, <3>3 DEF AnswerForward
  <2>2. CASE g # h
    BY <1>1, <1>2, <2>2 DEF Forward, AnswerForward
  <2> QED BY <2>1, <2>2
<1> QED BY <1>1, <1>3, <1>4 DEF Forward, BooksForward

\* The book applied is no older than Redis's, and if the hydration is alone no
\* older than the one it replaces.
LEMMA HydrateBookForward ==
  ASSUME SharedInv, Forward, NEW h \in Hydrators, HydrateBook(h)
  PROVE  Forward' /\ (hydrators[h].alone => \A s \in Symbols : KeepsOrRefreshes(s))
<1> DEFINE sym == hydrators[h].symbol
           book == hydrators[h].book
<1>1. /\ hydrators \in [Hydrators -> HydratorStates] /\ redisBook' = redisBook
      /\ local \in [Symbols -> Ages \cup {NoCopy}]
      /\ hydrators[h].at = "answered" /\ sym \in Symbols /\ book \in Ages \cup {NoCopy}
  BY CopyTypes DEF HydrateBook, redisVars, SharedInv, SharedTypeOK
<1>2. /\ hydrators'[h].at # "answered"
      /\ hydrators'[h].alone => hydrators[h].alone
      /\ \A g \in Hydrators \ {h} : hydrators'[g] = hydrators[g]
  BY <1>1 DEF HydrateBook, NotHydrating
<1>3. local' = IF book = NoCopy THEN local ELSE [local EXCEPT ![sym] = book]
  BY DEF HydrateBook, ApplyRemoteBook
<1>4. AnswerForward(h)
  BY DEF Forward
<1>5. \A s \in Symbols : local'[s] = local[s] \/ (s = sym /\ local'[s] = book /\ book # NoCopy)
  BY <1>1, <1>3
<1> HIDE DEF sym, book
<1>6. BooksForward'
  <2> SUFFICES ASSUME NEW s \in Symbols
               PROVE  redisBook[s] # NoCopy /\ local'[s] # NoCopy => redisBook[s] <= local'[s]
    BY <1>1 DEF BooksForward
  <2>1. CASE local'[s] = local[s]
    BY <2>1 DEF Forward, BooksForward
  <2>2. CASE s = sym /\ local'[s] = book /\ book # NoCopy
    BY <1>1, <1>4, <2>2 DEF AnswerForward, sym, book
  <2> QED BY <1>5, <2>1, <2>2
<1>7. AloneIsAlone'
  BY <1>1, <1>2 DEF Forward, AloneIsAlone
<1>8. ASSUME NEW g \in Hydrators PROVE AnswerForward(g)'
  <2>1. CASE g = h
    BY <1>2, <2>1 DEF AnswerForward
  <2>2. CASE g # h /\ hydrators[g].alone
    BY <1>1, <2>2 DEF Forward, AloneIsAlone
  <2>3. CASE g # h /\ ~hydrators[g].alone
    BY <1>1, <1>2, <2>3 DEF Forward, AnswerForward
  <2> QED BY <2>1, <2>2, <2>3
<1>9. ASSUME hydrators[h].alone, NEW s \in Symbols PROVE KeepsOrRefreshes(s)
  <2>1. CASE local'[s] = local[s]
    BY <2>1, CopyTypes DEF KeepsOrRefreshes
  <2>2. CASE s = sym /\ local'[s] = book /\ book # NoCopy
    BY <1>1, <1>4, <1>9, <2>2 DEF AnswerForward, KeepsOrRefreshes, sym, book
  <2> QED BY <1>5, <2>1, <2>2
<1> QED BY <1>6, <1>7, <1>8, <1>9 DEF Forward

GoesForward ==
  \/ TimePasses
  \/ \E h \in Hydrators : ~hydrators[h].alone /\ HydrateBook(h)
  \/ \A s \in Symbols : KeepsOrRefreshes(s)

LEMMA StepForward ==
  ASSUME SharedInv, Forward, [SharedNext]_sharedVars
  PROVE  Forward' /\ GoesForward
<1>1. CASE TimePasses
  BY <1>1, TimeForward DEF GoesForward
<1>2. CASE \E s \in Symbols : BookEvent(s) \/ GapEvent(s) \/ TickEvent(s)
  <2>1. UNCHANGED <<redisBook, local, hydrators>>
    BY <1>2 DEF BookEvent, GapEvent, TickEvent, redisVars, consumerVars
  <2> QED BY <2>1, PublisherForward, SameBooksKeep DEF GoesForward
<1>3. CASE \/ Handle \/ PublishHealth \/ Connection \/ Restart
           \/ ExpireHealth \/ Outage \/ \E s \in Symbols : Expire(s)
  <2>1. UNCHANGED <<local, hydrators>>
    BY <1>3 DEF Handle, WriteBook, WriteHealth, PublishHealth, Connection, Restart,
                ExpireHealth, Outage, Expire, consumerVars
  <2>2. \A t \in Symbols : redisBook'[t] \in {redisBook[t], updated[t], NoCopy}
    BY <1>3, RedisBecomes
  <2> QED BY <2>1, <2>2, PublisherForward, SameBooksKeep DEF GoesForward
<1>4. CASE StartConsumer \/ StopConsumer \/ Poll
  <2>1. local' = local
    BY <1>4 DEF StartConsumer, StopConsumer, Poll
  <2> QED BY <1>4, <2>1, BeginForward, SameBooksKeep DEF GoesForward
<1>5. CASE \E h \in Hydrators : AnswerHealth(h) \/ HydrateHealth(h)
  BY <1>5, NoBookForward, SameBooksKeep DEF GoesForward
<1>6. CASE \E h \in Hydrators, s \in Symbols : AnswerBook(h, s)
  BY <1>6, AnswerBookForward, SameBooksKeep DEF GoesForward
<1>7. CASE \E h \in Hydrators : HydrateBook(h)
  <2>1. PICK h \in Hydrators : HydrateBook(h)
    BY <1>7
  <2>2. Forward' /\ (hydrators[h].alone => \A s \in Symbols : KeepsOrRefreshes(s))
    BY <2>1, HydrateBookForward
  <2> QED BY <2>1, <2>2 DEF GoesForward
<1>8. CASE UNCHANGED sharedVars
  <2>1. UNCHANGED <<redisBook, local, hydrators>>
    BY <1>8 DEF sharedVars, redisVars, consumerVars
  <2>2. \A t \in Symbols : redisBook'[t] \in {redisBook[t], updated[t], NoCopy}
    BY <2>1
  <2> QED BY <2>1, <2>2, PublisherForward, SameBooksKeep DEF GoesForward
<1> QED BY <1>1, <1>2, <1>3, <1>4, <1>5, <1>6, <1>7, <1>8 DEF SharedNext, Hydrate

\* Whatever is lost, delayed, written or expires meanwhile, and however many
\* hydrations a consumer has, a book is replaced by an older one only by a
\* hydration that had another beside it since it began; the loop's are alone
\* once start's own has ended (start_shared_consumer, _consumer_loop,
\* apply_remote_book).
THEOREM BooksOnlyForward == SharedSpec => OnlyForward
<1>1. SharedInit => Forward
  BY NotHydratingTyped DEF SharedInit, Forward, BooksForward, AnswerForward, AloneIsAlone
<1>2. SharedInv /\ Forward /\ [SharedNext]_sharedVars => Forward' /\ [GoesForward]_sharedVars
  BY StepForward
<1>3. SharedSpec => [][GoesForward]_sharedVars
  BY <1>1, <1>2, SharedInvariance, PTL DEF SharedSpec
<1> QED BY <1>3 DEF OnlyForward, GoesForward
=============================================================================
