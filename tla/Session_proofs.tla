--------------------------- MODULE Session_proofs ---------------------------
(***************************************************************************)
(* Theorems about the paper-trading session (PaperSession), for any number *)
(* of API calls, loop tasks, fills, resets and processes that die, and     *)
(* about its performance tracker (PerformanceTracker), for any number of   *)
(* opportunities, exchanges and days.                                      *)
(***************************************************************************)
EXTENDS PaperSession, PerformanceTracker, Sums, SequenceTheorems

-----------------------------------------------------------------------------
(* The invariant.                                                          *)

TaskType ==
  [pc : {"none", "ready", "placing", "resting", "over"}, cancelled : BOOLEAN,
   engine : Generations, unrecorded : Nat]

SavedType == [generation : Generations, ledger : Nat, tracked : Nat, rows : Nat]

\* The types, but for the bounds on what is counted.  A loop has unrecorded fills
\* in a run of the engine only, and only one that was created is cancelled.
SessionTyped ==
  /\ running \in BOOLEAN /\ marketStarted \in BOOLEAN
  /\ blocked \in BOOLEAN /\ overlapped \in BOOLEAN
  /\ task \in Loops \cup {NoTask}
  /\ loops \in [Loops -> TaskType]
  /\ \A l \in Loops :
       /\ loops[l].pc # "placing" => loops[l].unrecorded = 0
       /\ loops[l].pc = "none" => ~loops[l].cancelled
  /\ calls \in [Calls -> CallStates]
  /\ ledger \in [Generations -> Nat] /\ tracked \in [Generations -> Nat] /\ rows \in Nat
  /\ disk \subseteq SavedType

\* Resets that wait for their loop, which the bound on resets counts.
Resets(pending) == {c \in Calls : pending[c].pc = "joining" /\ pending[c].kind = "reset"}

\* The file is about the session there is, and not ahead of it.
FileIsBehind ==
  /\ generation \in Generations
  /\ generation + Cardinality(Resets(calls)) <= MaxGeneration
  /\ \A saved \in disk : saved.generation = generation /\ saved.ledger <= ledger[generation]
  /\ \A saved, other \in disk : saved = other

Active(l) == Live(l) /\ ~loops[l].cancelled

\* Of calls that never overlapped one is under way at most, and none while the
\* session runs; the loop of a session that runs is that of `task`, and no other
\* goes on.
OneAtATime ==
  /\ \A c, d \in Calls : calls[c] # Idle /\ calls[d] # Idle => c = d
  /\ \A c \in Calls : calls[c] # Idle => ~running
  /\ running => task \in Loops /\ Active(task)
  /\ \A l \in Loops : Active(l) => running /\ l = task

\* The file holds what the portfolio and the tracker have.
Saved ==
  /\ \A saved \in disk : saved.ledger = ledger[generation] /\ saved.tracked = tracked[generation]
  /\ disk = {} => ledger[generation] = 0 /\ tracked[generation] = 0

\* Then no tracker has more than its portfolio, not even with what the loop has
\* not recorded yet, and once a stop has returned nothing is unsaved.
OwnBooks ==
  /\ \A g \in Generations : tracked[g] <= ledger[g]
  /\ \A saved \in disk : saved.tracked <= saved.ledger
  /\ \A l \in Loops : Active(l) /\ loops[l].pc = "placing" =>
       /\ loops[l].engine = generation
       /\ tracked[generation] + loops[l].unrecorded <= ledger[generation]
  /\ ~running /\ (\A c \in Calls : calls[c].pc # "joining") => Saved

SessionInv ==
  /\ SessionTyped
  /\ FileIsBehind
  /\ ~overlapped => OneAtATime /\ OwnBooks

LEMMA Names ==
  /\ Loops \subseteq Nat \ {0} /\ NoTask \notin Loops
  /\ 0 \in Generations /\ Generations \subseteq Nat
  /\ \A g \in Nat : g <= MaxGeneration => g \in Generations
  BY SessionAssumption DEF Loops, NoTask, Generations

-----------------------------------------------------------------------------
(* What steps do with the loops, the calls and the file.                   *)

\* Only the loop `l` moves, and it is this by now.
Moves(l, pc, cancelled, engine, unrecorded) ==
  /\ loops' \in [Loops -> TaskType]
  /\ \A k \in Loops \ {l} : loops'[k] = loops[k]
  /\ loops'[l] = [pc |-> pc, cancelled |-> cancelled, engine |-> engine, unrecorded |-> unrecorded]

\* Writing one whole task moves it and no other.
LEMMA Moving ==
  ASSUME loops \in [Loops -> TaskType], NEW l \in Loops, NEW pc, NEW cancelled, NEW engine,
         NEW unrecorded,
         [pc |-> pc, cancelled |-> cancelled, engine |-> engine, unrecorded |-> unrecorded] \in TaskType,
         loops' = [loops EXCEPT ![l] = [pc |-> pc, cancelled |-> cancelled, engine |-> engine,
                                        unrecorded |-> unrecorded]]
  PROVE  Moves(l, pc, cancelled, engine, unrecorded)
<1> DEFINE t == [pc |-> pc, cancelled |-> cancelled, engine |-> engine, unrecorded |-> unrecorded]
<1>1. t \in TaskType /\ loops' = [loops EXCEPT ![l] = t]
  OBVIOUS
<1> HIDE DEF t
<1>2. loops' \in [Loops -> TaskType] /\ loops'[l] = t /\ \A k \in Loops \ {l} : loops'[k] = loops[k]
  BY <1>1
<1> QED BY <1>2 DEF Moves, t

\* What is known of the tasks after one has moved.
LEMMA Moved ==
  ASSUME NEW l, NEW pc, NEW cancelled, NEW engine, NEW unrecorded,
         Moves(l, pc, cancelled, engine, unrecorded)
  PROVE  /\ loops'[l].pc = pc /\ loops'[l].cancelled = cancelled
         /\ loops'[l].engine = engine /\ loops'[l].unrecorded = unrecorded
         /\ loops' \in [Loops -> TaskType] /\ \A k \in Loops \ {l} : loops'[k] = loops[k]
  BY DEF Moves

\* Updates of a loop, by the fields they are about.
LEMMA UpdatedPc ==
  ASSUME loops \in [Loops -> TaskType], NEW l \in Loops,
         NEW x \in {"none", "ready", "placing", "resting", "over"},
         loops' = [loops EXCEPT ![l].pc = x]
  PROVE  Moves(l, x, loops[l].cancelled, loops[l].engine, loops[l].unrecorded)
<1> DEFINE p == loops[l].pc
           c == loops[l].cancelled
           e == loops[l].engine
           u == loops[l].unrecorded
           t == loops[l]
           after == [t EXCEPT !.pc = x]
<1>1. /\ t = [pc |-> p, cancelled |-> c, engine |-> e, unrecorded |-> u]
      /\ p \in {"none", "ready", "placing", "resting", "over"} /\ c \in BOOLEAN
      /\ e \in Generations /\ u \in Nat
  BY DEF TaskType
<1>2. loops' = [loops EXCEPT ![l] = after]
  OBVIOUS
<1> HIDE DEF p, c, e, u, t
<1>3. after = [pc |-> x, cancelled |-> c, engine |-> e, unrecorded |-> u]
  BY <1>1
<1> HIDE DEF after
<1>4. [pc |-> x, cancelled |-> c, engine |-> e, unrecorded |-> u] \in TaskType
  BY <1>1 DEF TaskType
<1>5. Moves(l, x, c, e, u)
  BY <1>2, <1>3, <1>4, Moving
<1> QED BY <1>5 DEF p, c, e, u

LEMMA UpdatedCancelled ==
  ASSUME loops \in [Loops -> TaskType], NEW l \in Loops,
         NEW x \in BOOLEAN,
         loops' = [loops EXCEPT ![l].cancelled = x]
  PROVE  Moves(l, loops[l].pc, x, loops[l].engine, loops[l].unrecorded)
<1> DEFINE p == loops[l].pc
           c == loops[l].cancelled
           e == loops[l].engine
           u == loops[l].unrecorded
           t == loops[l]
           after == [t EXCEPT !.cancelled = x]
<1>1. /\ t = [pc |-> p, cancelled |-> c, engine |-> e, unrecorded |-> u]
      /\ p \in {"none", "ready", "placing", "resting", "over"} /\ c \in BOOLEAN
      /\ e \in Generations /\ u \in Nat
  BY DEF TaskType
<1>2. loops' = [loops EXCEPT ![l] = after]
  OBVIOUS
<1> HIDE DEF p, c, e, u, t
<1>3. after = [pc |-> p, cancelled |-> x, engine |-> e, unrecorded |-> u]
  BY <1>1
<1> HIDE DEF after
<1>4. [pc |-> p, cancelled |-> x, engine |-> e, unrecorded |-> u] \in TaskType
  BY <1>1 DEF TaskType
<1>5. Moves(l, p, x, e, u)
  BY <1>2, <1>3, <1>4, Moving
<1> QED BY <1>5 DEF p, c, e, u

LEMMA UpdatedUnrecorded ==
  ASSUME loops \in [Loops -> TaskType], NEW l \in Loops,
         NEW x \in Nat,
         loops' = [loops EXCEPT ![l].unrecorded = x]
  PROVE  Moves(l, loops[l].pc, loops[l].cancelled, loops[l].engine, x)
<1> DEFINE p == loops[l].pc
           c == loops[l].cancelled
           e == loops[l].engine
           u == loops[l].unrecorded
           t == loops[l]
           after == [t EXCEPT !.unrecorded = x]
<1>1. /\ t = [pc |-> p, cancelled |-> c, engine |-> e, unrecorded |-> u]
      /\ p \in {"none", "ready", "placing", "resting", "over"} /\ c \in BOOLEAN
      /\ e \in Generations /\ u \in Nat
  BY DEF TaskType
<1>2. loops' = [loops EXCEPT ![l] = after]
  OBVIOUS
<1> HIDE DEF p, c, e, u, t
<1>3. after = [pc |-> p, cancelled |-> c, engine |-> e, unrecorded |-> x]
  BY <1>1
<1> HIDE DEF after
<1>4. [pc |-> p, cancelled |-> c, engine |-> e, unrecorded |-> x] \in TaskType
  BY <1>1 DEF TaskType
<1>5. Moves(l, p, c, e, x)
  BY <1>2, <1>3, <1>4, Moving
<1> QED BY <1>5 DEF p, c, e, u

LEMMA UpdatedPcUnrecorded ==
  ASSUME loops \in [Loops -> TaskType], NEW l \in Loops,
         NEW x \in {"none", "ready", "placing", "resting", "over"}, NEW y \in Nat,
         loops' = [loops EXCEPT ![l].pc = x, ![l].unrecorded = y]
  PROVE  Moves(l, x, loops[l].cancelled, loops[l].engine, y)
<1> DEFINE p == loops[l].pc
           c == loops[l].cancelled
           e == loops[l].engine
           u == loops[l].unrecorded
           t == loops[l]
           first == [t EXCEPT !.pc = x]
           after == [first EXCEPT !.unrecorded = y]
<1>1. /\ t = [pc |-> p, cancelled |-> c, engine |-> e, unrecorded |-> u]
      /\ p \in {"none", "ready", "placing", "resting", "over"} /\ c \in BOOLEAN
      /\ e \in Generations /\ u \in Nat
  BY DEF TaskType
<1>2. loops' = [loops EXCEPT ![l] = after]
  OBVIOUS
<1> HIDE DEF p, c, e, u, t
<1>3. after = [pc |-> x, cancelled |-> c, engine |-> e, unrecorded |-> y]
  <2>1. first = [pc |-> x, cancelled |-> c, engine |-> e, unrecorded |-> u]
    BY <1>1
  <2> HIDE DEF first
  <2> QED BY <2>1
<1> HIDE DEF first, after
<1>4. [pc |-> x, cancelled |-> c, engine |-> e, unrecorded |-> y] \in TaskType
  BY <1>1 DEF TaskType
<1>5. Moves(l, x, c, e, y)
  BY <1>2, <1>3, <1>4, Moving
<1> QED BY <1>5 DEF p, c, e, u

LEMMA UpdatedPcEngine ==
  ASSUME loops \in [Loops -> TaskType], NEW l \in Loops,
         NEW x \in {"none", "ready", "placing", "resting", "over"}, NEW y \in Generations,
         loops' = [loops EXCEPT ![l].pc = x, ![l].engine = y]
  PROVE  Moves(l, x, loops[l].cancelled, y, loops[l].unrecorded)
<1> DEFINE p == loops[l].pc
           c == loops[l].cancelled
           e == loops[l].engine
           u == loops[l].unrecorded
           t == loops[l]
           first == [t EXCEPT !.pc = x]
           after == [first EXCEPT !.engine = y]
<1>1. /\ t = [pc |-> p, cancelled |-> c, engine |-> e, unrecorded |-> u]
      /\ p \in {"none", "ready", "placing", "resting", "over"} /\ c \in BOOLEAN
      /\ e \in Generations /\ u \in Nat
  BY DEF TaskType
<1>2. loops' = [loops EXCEPT ![l] = after]
  OBVIOUS
<1> HIDE DEF p, c, e, u, t
<1>3. after = [pc |-> x, cancelled |-> c, engine |-> y, unrecorded |-> u]
  <2>1. first = [pc |-> x, cancelled |-> c, engine |-> e, unrecorded |-> u]
    BY <1>1
  <2> HIDE DEF first
  <2> QED BY <2>1
<1> HIDE DEF first, after
<1>4. [pc |-> x, cancelled |-> c, engine |-> y, unrecorded |-> u] \in TaskType
  BY <1>1 DEF TaskType
<1>5. Moves(l, x, c, y, u)
  BY <1>2, <1>3, <1>4, Moving
<1> QED BY <1>5 DEF p, c, e, u

LEMMA UpdatedEngineUnrecorded ==
  ASSUME loops \in [Loops -> TaskType], NEW l \in Loops,
         NEW x \in Generations, NEW y \in Nat,
         loops' = [loops EXCEPT ![l].engine = x, ![l].unrecorded = y]
  PROVE  Moves(l, loops[l].pc, loops[l].cancelled, x, y)
<1> DEFINE p == loops[l].pc
           c == loops[l].cancelled
           e == loops[l].engine
           u == loops[l].unrecorded
           t == loops[l]
           first == [t EXCEPT !.engine = x]
           after == [first EXCEPT !.unrecorded = y]
<1>1. /\ t = [pc |-> p, cancelled |-> c, engine |-> e, unrecorded |-> u]
      /\ p \in {"none", "ready", "placing", "resting", "over"} /\ c \in BOOLEAN
      /\ e \in Generations /\ u \in Nat
  BY DEF TaskType
<1>2. loops' = [loops EXCEPT ![l] = after]
  OBVIOUS
<1> HIDE DEF p, c, e, u, t
<1>3. after = [pc |-> p, cancelled |-> c, engine |-> x, unrecorded |-> y]
  <2>1. first = [pc |-> p, cancelled |-> c, engine |-> x, unrecorded |-> u]
    BY <1>1
  <2> HIDE DEF first
  <2> QED BY <2>1
<1> HIDE DEF first, after
<1>4. [pc |-> p, cancelled |-> c, engine |-> x, unrecorded |-> y] \in TaskType
  BY <1>1 DEF TaskType
<1>5. Moves(l, p, c, x, y)
  BY <1>2, <1>3, <1>4, Moving
<1> QED BY <1>5 DEF p, c, e, u

\* What the file holds after a save.
Fresh ==
  /\ disk' # {}
  /\ \A saved \in disk' : /\ saved.generation = generation' /\ saved.ledger = ledger'[generation']
                          /\ saved.tracked = tracked'[generation']
  /\ \A saved, other \in disk' : saved = other
  /\ disk' \subseteq SavedType

\* _persist leaves the file with the session as it is now.
LEMMA PersistIsFresh ==
  ASSUME Persist, generation' \in Generations, ledger' \in [Generations -> Nat],
         tracked' \in [Generations -> Nat], rows' \in Nat
  PROVE  Fresh
<1> DEFINE new == [generation |-> generation', ledger |-> ledger'[generation'],
                   tracked |-> tracked'[generation'], rows |-> rows']
<1>1. disk' = {new}
  BY DEF Persist, Session
<1>2. new \in SavedType
  BY DEF SavedType
<1>3. new.generation = generation' /\ new.ledger = ledger'[generation'] /\ new.tracked = tracked'[generation']
  OBVIOUS
<1> HIDE DEF new
<1> QED BY <1>1, <1>2, <1>3 DEF Fresh

\* The loop goes on with what it has recorded and filled, or is told to end.
SameBooks == UNCHANGED <<ledger, tracked, rows>>

\* A step of a loop is one of these.
Turns(l) ==
  \/ \E pc \in {"ready", "resting", "placing"} :
       /\ Active(l) /\ loops[l].pc # "placing" /\ SameBooks /\ (disk' = disk \/ Fresh)
       /\ pc = "placing" => ~blocked /\ running
       /\ \E engine \in Generations : /\ Moves(l, pc, FALSE, engine, 0)
                                      /\ pc = "placing" => engine = generation
  \/ Active(l) /\ ~running /\ SameBooks /\ disk' = disk
       /\ Moves(l, "over", FALSE, loops[l].engine, 0)
  \/ Live(l) /\ ~Active(l) /\ SameBooks /\ disk' = disk
       /\ Moves(l, "over", loops[l].cancelled, loops[l].engine, 0)

\* A step that executes an order is one of these.
Executes(l, filled) ==
  /\ Active(l) /\ loops[l].pc = "placing" /\ rows' \in Nat
  /\ ledger' = [ledger EXCEPT ![loops[l].engine] = @ + filled]
  /\ \/ /\ ~blocked /\ tracked' = tracked /\ disk' = disk
        /\ Moves(l, "placing", FALSE, loops[l].engine, loops[l].unrecorded + filled)
     \/ /\ ~blocked /\ disk' = disk
        /\ tracked' = [tracked EXCEPT ![generation] = @ + loops[l].unrecorded + filled]
        /\ Moves(l, "placing", FALSE, generation, 0)
     \/ /\ disk' = disk \/ Fresh
        /\ \/ tracked' = tracked
           \/ tracked' = [tracked EXCEPT ![generation] = @ + loops[l].unrecorded + filled]
        /\ Moves(l, "resting", FALSE, loops[l].engine, 0)

\* The steps of a loop in which no order is filled leave the books alone.
LEMMA CycleTurns ==
  ASSUME SessionTyped, FileIsBehind, NEW l \in Loops, Cycle(l)
  PROVE  Turns(l)
<1>1. /\ loops \in [Loops -> TaskType] /\ loops[l] \in TaskType /\ generation \in Generations
      /\ loops[l].pc = "ready" /\ loops[l].cancelled = FALSE /\ loops[l].unrecorded = 0
      /\ loops[l].engine \in Generations /\ 0 \in Nat
  BY DEF SessionTyped, FileIsBehind, Cycle, TaskType
<1>2. Active(l) /\ SameBooks /\ UNCHANGED <<generation, running>>
  BY <1>1 DEF Cycle, Active, Live, SameBooks, bookVars, records, callVars
<1>3. \A pc \in {"over", "resting", "ready"} : Goto(l, pc) => Moves(l, pc, FALSE, loops[l].engine, 0)
  <2> SUFFICES ASSUME NEW pc \in {"over", "resting", "ready"}, Goto(l, pc)
               PROVE  Moves(l, pc, FALSE, loops[l].engine, 0)
    OBVIOUS
  <2>1. loops' = [loops EXCEPT ![l].pc = pc]
    BY DEF Goto
  <2>2. Moves(l, pc, loops[l].cancelled, loops[l].engine, loops[l].unrecorded)
    BY <1>1, <2>1, UpdatedPc
  <2> QED BY <1>1, <2>2
<1>4. CycleEnd => disk' = disk \/ Fresh
  <2>1. /\ generation' \in Generations /\ ledger' \in [Generations -> Nat]
        /\ tracked' \in [Generations -> Nat] /\ rows' \in Nat
    BY <1>1, <1>2 DEF SameBooks, SessionTyped
  <2> QED BY <2>1, PersistIsFresh DEF CycleEnd
<1>5. CASE ~LoopsOn /\ Goto(l, "over") /\ UNCHANGED disk
  BY <1>2, <1>3, <1>5 DEF Turns, LoopsOn
<1>6. CASE Goto(l, "resting") /\ (UNCHANGED disk \/ CycleEnd)
  BY <1>1, <1>2, <1>3, <1>4, <1>6 DEF Turns
<1>7. CASE /\ LoopsOn /\ ~blocked /\ UNCHANGED disk
           /\ loops' = [loops EXCEPT ![l].pc = "placing", ![l].engine = CurrentEngine]
  <2>1. Moves(l, "placing", loops[l].cancelled, generation, loops[l].unrecorded)
    BY <1>1, <1>7, UpdatedPcEngine DEF CurrentEngine
  <2>3. Moves(l, "placing", FALSE, generation, 0)
    BY <1>1, <2>1
  <2> QED BY <1>1, <1>2, <1>7, <2>3 DEF Turns, LoopsOn
<1> QED BY <1>5, <1>6, <1>7 DEF Cycle

LEMMA WakeTurns ==
  ASSUME SessionTyped, NEW l \in Loops, Wake(l)
  PROVE  Turns(l)
<1>1. /\ loops \in [Loops -> TaskType] /\ loops[l] \in TaskType
      /\ loops[l].pc = "resting" /\ loops[l].cancelled = FALSE /\ loops[l].unrecorded = 0
      /\ loops[l].engine \in Generations
  BY DEF SessionTyped, Wake, TaskType
<1>2. loops' = [loops EXCEPT ![l].pc = "ready"]
  BY DEF Goto, Wake
<1>3. Moves(l, "ready", loops[l].cancelled, loops[l].engine, loops[l].unrecorded)
  BY <1>1, <1>2, UpdatedPc
<1>4. Moves(l, "ready", FALSE, loops[l].engine, 0)
  BY <1>1, <1>3
<1>5. Active(l) /\ SameBooks /\ disk' = disk
  BY <1>1 DEF Wake, Active, Live, SameBooks, bookVars, records
<1> QED BY <1>1, <1>4, <1>5 DEF Turns

LEMMA CancelledTurns ==
  ASSUME SessionTyped, NEW l \in Loops, Cancelled(l)
  PROVE  Turns(l)
<1>1. /\ loops \in [Loops -> TaskType] /\ loops[l] \in TaskType
      /\ Live(l) /\ loops[l].cancelled \in BOOLEAN /\ ~Active(l) /\ loops[l].engine \in Generations
  BY DEF SessionTyped, Cancelled, TaskType, Active
<1>2. loops' = [loops EXCEPT ![l].pc = "over", ![l].unrecorded = 0]
  BY DEF Cancelled
<1>4. Moves(l, "over", loops[l].cancelled, loops[l].engine, 0)
  BY <1>1, <1>2, UpdatedPcUnrecorded
<1>5. SameBooks /\ disk' = disk
  BY DEF Cancelled, SameBooks, bookVars, records
<1> QED BY <1>1, <1>4, <1>5 DEF Turns

\* A step that fills writes the ledger of the loop's own engine.
LEMMA PlaceFills ==
  ASSUME SessionTyped, FileIsBehind, NEW l \in Loops, NEW filled \in 0 .. 1, Place(l, filled)
  PROVE  Executes(l, filled)
<1>1. /\ loops \in [Loops -> TaskType] /\ loops[l] \in TaskType
      /\ generation \in Generations /\ generation' = generation
      /\ loops[l].pc = "placing" /\ loops[l].cancelled = FALSE
      /\ loops[l].unrecorded \in Nat /\ loops[l].engine \in Generations /\ filled \in Nat
      /\ ledger \in [Generations -> Nat] /\ tracked \in [Generations -> Nat] /\ rows \in Nat
  BY DEF SessionTyped, FileIsBehind, Place, TaskType
<1>2. Active(l) /\ ledger' = [ledger EXCEPT ![loops[l].engine] = @ + filled]
  BY <1>1 DEF Place, Active, Live
<1>3. ledger' \in [Generations -> Nat]
  BY <1>1, <1>2
<1>4. Ingest(l, filled) =>
        /\ rows' \in Nat /\ tracked' \in [Generations -> Nat]
        /\ tracked' = [tracked EXCEPT ![generation] = @ + loops[l].unrecorded + filled]
  <2> SUFFICES ASSUME Ingest(l, filled)
               PROVE  /\ rows' \in Nat /\ tracked' \in [Generations -> Nat]
                      /\ tracked' = [tracked EXCEPT ![generation] = @ + loops[l].unrecorded + filled]
    OBVIOUS
  <2>1. /\ tracked' = [tracked EXCEPT ![generation] = @ + loops[l].unrecorded + filled]
        /\ rows' = rows + loops[l].unrecorded + filled
    BY DEF Ingest
  <2>2. tracked[generation] + loops[l].unrecorded + filled \in Nat
    BY <1>1
  <2> QED BY <1>1, <2>1, <2>2
<1>5. CASE /\ NextApproved /\ UNCHANGED <<records, disk>>
           /\ loops' = [loops EXCEPT ![l].unrecorded = @ + filled]
  <2> DEFINE u == loops[l].unrecorded + filled
  <2>1. u \in Nat /\ loops' = [loops EXCEPT ![l].unrecorded = u]
    BY <1>1, <1>5
  <2> HIDE DEF u
  <2>3. Moves(l, loops[l].pc, loops[l].cancelled, loops[l].engine, u)
    BY <1>1, <2>1, UpdatedUnrecorded
  <2>4. Moves(l, "placing", FALSE, loops[l].engine, u)
    BY <1>1, <2>3
  <2>5. ~blocked /\ tracked' = tracked /\ disk' = disk /\ rows' \in Nat
    BY <1>1, <1>5 DEF NextApproved, records
  <2> QED BY <1>1, <1>2, <2>4, <2>5 DEF Executes, u
<1>6. CASE /\ Ingest(l, filled) /\ NextApproved /\ UNCHANGED disk
           /\ loops' = [loops EXCEPT ![l].engine = CurrentEngine, ![l].unrecorded = 0]
  <2>1. Moves(l, loops[l].pc, loops[l].cancelled, generation, 0)
    BY <1>1, <1>6, UpdatedEngineUnrecorded DEF CurrentEngine
  <2>3. Moves(l, "placing", FALSE, generation, 0)
    BY <1>1, <2>1
  <2> QED BY <1>1, <1>2, <1>4, <1>6, <2>3 DEF Executes, NextApproved
<1>7. loops' = [loops EXCEPT ![l].pc = "resting", ![l].unrecorded = 0]
        => Moves(l, "resting", FALSE, loops[l].engine, 0)
  <2> SUFFICES ASSUME loops' = [loops EXCEPT ![l].pc = "resting", ![l].unrecorded = 0]
               PROVE  Moves(l, "resting", FALSE, loops[l].engine, 0)
    OBVIOUS
  <2>1. Moves(l, "resting", loops[l].cancelled, loops[l].engine, 0)
    BY <1>1, UpdatedPcUnrecorded
  <2> QED BY <1>1, <2>1
<1>8. CASE /\ Ingest(l, filled) /\ CycleEnd
           /\ loops' = [loops EXCEPT ![l].pc = "resting", ![l].unrecorded = 0]
  <2>1. disk' = disk \/ Fresh
    BY <1>1, <1>3, <1>4, <1>8, PersistIsFresh DEF CycleEnd
  <2> QED BY <1>1, <1>2, <1>4, <1>7, <1>8, <2>1 DEF Executes
<1>9. CASE Raised(l) /\ UNCHANGED <<records, disk>>
  BY <1>1, <1>2, <1>7, <1>9 DEF Executes, Raised, records
<1> QED BY <1>5, <1>6, <1>8, <1>9 DEF Place

\* A step of a loop changes nothing of the calls.
LEMMA LoopSteps ==
  ASSUME SessionTyped, FileIsBehind, NEW l \in Loops, Loop(l)
  PROVE  /\ UNCHANGED <<callVars, blocked, generation>>
         /\ Turns(l) \/ \E filled \in 0 .. 1 : Executes(l, filled)
<1>1. UNCHANGED <<callVars, blocked, generation>>
  BY DEF Loop, Cycle, Place, Wake, Cancelled, bookVars
<1>2. Turns(l) \/ \E filled \in 0 .. 1 : Executes(l, filled)
  BY CycleTurns, WakeTurns, CancelledTurns, PlaceFills DEF Loop
<1> QED BY <1>1, <1>2

\* The resets that wait are finitely many.
LEMMA ResetsCount ==
  ASSUME NEW pending
  PROVE  IsFiniteSet(Resets(pending)) /\ Cardinality(Resets(pending)) \in Nat
<1>1. Resets(pending) \subseteq Calls /\ IsFiniteSet(Calls)
  BY SessionAssumption DEF Resets
<1> QED BY <1>1, FS_Subset, FS_CardinalityType

\* Only the call `c` goes on, and it is this by now.
Goes(c, state) ==
  /\ calls' \in [Calls -> CallStates]
  /\ \A d \in Calls \ {c} : calls'[d] = calls[d]
  /\ calls'[c] = state

\* One that does not wait for a loop adds to no resets, one that does by one at
\* most, and one that has waited takes itself away.
LEMMA ResetsFewer ==
  ASSUME NEW c \in Calls, NEW state, Goes(c, state), state.pc # "joining"
  PROVE  /\ Cardinality(Resets(calls')) <= Cardinality(Resets(calls))
         /\ c \in Resets(calls) => Cardinality(Resets(calls')) + 1 <= Cardinality(Resets(calls))
<1>1. Resets(calls') \subseteq Resets(calls) \ {c}
  BY DEF Resets, Goes
<1>2. IsFiniteSet(Resets(calls) \ {c}) /\ Cardinality(Resets(calls) \ {c}) \in Nat
  BY ResetsCount, FS_Subset, FS_CardinalityType
<1>3. Cardinality(Resets(calls')) <= Cardinality(Resets(calls) \ {c})
  BY <1>1, <1>2, FS_Subset
<1>4. Cardinality(Resets(calls) \ {c})
        = IF c \in Resets(calls) THEN Cardinality(Resets(calls)) - 1 ELSE Cardinality(Resets(calls))
  BY ResetsCount, FS_RemoveElement
<1>5. Cardinality(Resets(calls)) \in Nat /\ Cardinality(Resets(calls')) \in Nat
  BY ResetsCount
<1> QED BY <1>2, <1>3, <1>4, <1>5

\* A call that moves adds at most itself to the resets that wait.
LEMMA ResetsMore ==
  ASSUME NEW c \in Calls, NEW state, Goes(c, state)
  PROVE  /\ Cardinality(Resets(calls')) <= Cardinality(Resets(calls)) + 1
         /\ state.kind # "reset" => Cardinality(Resets(calls')) <= Cardinality(Resets(calls))
<1>1. Resets(calls') \subseteq Resets(calls) \cup {c}
  BY DEF Resets, Goes
<1>2. /\ IsFiniteSet(Resets(calls) \cup {c})
      /\ Cardinality(Resets(calls) \cup {c})
           = IF c \in Resets(calls) THEN Cardinality(Resets(calls)) ELSE Cardinality(Resets(calls)) + 1
  BY ResetsCount, FS_AddElement
<1>3. Cardinality(Resets(calls')) <= Cardinality(Resets(calls) \cup {c})
  BY <1>1, <1>2, FS_Subset
<1>4. Cardinality(Resets(calls)) \in Nat /\ Cardinality(Resets(calls')) \in Nat
  BY ResetsCount
<1>5. state.kind # "reset" => Resets(calls') \subseteq Resets(calls)
  BY DEF Resets, Goes
<1>6. state.kind # "reset" => Cardinality(Resets(calls')) <= Cardinality(Resets(calls))
  BY <1>5, ResetsCount, FS_Subset
<1> QED BY <1>2, <1>3, <1>4, <1>6

-----------------------------------------------------------------------------
(* What steps of a call do.                                                *)

\* The session begins to run, with a new loop.
Launches(c) ==
  /\ (calls[c] = Idle /\ ~running) \/ calls[c].pc = "hydrating"
  /\ generation' = generation /\ Fresh /\ Goes(c, Idle) /\ running' = TRUE
  /\ \E l \in Loops : /\ task' = l /\ loops[l].pc = "none"
                      /\ \E engine \in Generations : Moves(l, "ready", FALSE, engine, 0)

\* The hydration begins, or has failed.
Hydrates(c) ==
  /\ (calls[c] = Idle /\ ~running) \/ calls[c].pc = "hydrating"
  /\ UNCHANGED <<generation, disk, running, task, loops>>
  /\ \E state : Goes(c, state) /\ state.pc \in {"idle", "hydrating"}

\* The loop is cancelled, and waited for.
Cancels(c) ==
  /\ calls[c] = Idle /\ running /\ running' = FALSE
  /\ UNCHANGED <<generation, disk, task>>
  /\ \E kind \in Kinds : Goes(c, [pc |-> "joining", kind |-> kind, loop |-> task]) /\ MayBegin(kind)
  /\ task \in Loops
  /\ Moves(task, loops[task].pc, Live(task), loops[task].engine, loops[task].unrecorded)

\* The loop is no more, and the session is saved, or replaced and saved.
Ends(c) ==
  /\ \/ calls[c] = Idle /\ running /\ task = NoTask /\ running' = FALSE
     \/ calls[c] = Idle /\ ~running /\ running' = running
     \/ calls[c].pc = "joining" /\ running' = running
  /\ task' \in {task, NoTask} /\ loops' = loops /\ Fresh /\ Goes(c, Idle)
  /\ \/ generation' = generation
     \/ /\ generation' = generation + 1
        /\ (calls[c] = Idle /\ MayBegin("reset")) \/ c \in Resets(calls)

CallEffect(c) == Launches(c) \/ Hydrates(c) \/ Cancels(c) \/ Ends(c)

\* A step of a call moves that call only.
LEMMA CallGoes ==
  ASSUME SessionTyped, NEW c \in Calls, NEW state \in CallStates, calls' = [calls EXCEPT ![c] = state]
  PROVE  Goes(c, state)
<1>1. calls \in [Calls -> CallStates]
  BY DEF SessionTyped
<1> HIDE DEF CallStates
<1> QED BY <1>1 DEF Goes

LEMMA CallStays ==
  ASSUME SessionTyped, NEW c \in Calls, calls' = calls
  PROVE  Goes(c, calls[c])
  BY DEF Goes, SessionTyped

\* A call that has returned is idle.
LEMMA IdleIsOne == Idle \in CallStates /\ Idle.pc = "idle"
  BY DEF Idle, CallStates, NoTask

\* Creating a loop task takes an unused one, and saves.
LEMMA LaunchIs ==
  ASSUME SessionTyped, FileIsBehind, Launch
  PROVE  /\ UNCHANGED <<generation, ledger, tracked, rows, blocked>> /\ Fresh /\ running' = TRUE
         /\ \E l \in Loops : /\ task' = l /\ loops[l].pc = "none"
                             /\ \E engine \in Generations : Moves(l, "ready", FALSE, engine, 0)
<1>1. PICK l \in Loops : loops[l].pc = "none" /\ loops' = [loops EXCEPT ![l].pc = "ready"] /\ task' = l
  BY DEF Launch
<1>2. Persist /\ running' = TRUE /\ UNCHANGED <<generation, ledger, tracked, rows, blocked>>
  BY DEF Launch, bookVars, records
<1>3. Fresh
  BY <1>2, PersistIsFresh DEF SessionTyped, FileIsBehind
<1>4. /\ loops \in [Loops -> TaskType] /\ loops[l].cancelled = FALSE /\ loops[l].unrecorded = 0
      /\ loops[l].engine \in Generations
  BY <1>1 DEF SessionTyped, TaskType
<1>5. Moves(l, "ready", loops[l].cancelled, loops[l].engine, loops[l].unrecorded)
  BY <1>1, <1>4, UpdatedPc
<1>6. Moves(l, "ready", FALSE, loops[l].engine, 0)
  BY <1>4, <1>5
<1> QED BY <1>1, <1>2, <1>3, <1>4, <1>6

\* What the end of a stop, a reset or a shutdown leaves.
LEMMA FinishIs ==
  ASSUME SessionTyped, FileIsBehind, NEW kind \in Kinds, Finish(kind),
         kind = "reset" => generation + 1 \in Generations
  PROVE  /\ UNCHANGED <<ledger, tracked>> /\ rows' \in Nat /\ Fresh
         /\ generation' = IF kind = "reset" THEN generation + 1 ELSE generation
<1>1. /\ UNCHANGED <<ledger, tracked>> /\ rows' \in Nat
      /\ generation' = IF kind = "reset" THEN generation + 1 ELSE generation
  BY DEF Finish, Swap, bookVars, records, SessionTyped
<1>2. generation' \in Generations
  BY <1>1 DEF FileIsBehind
<1>3. Fresh
  BY <1>1, <1>2, PersistIsFresh DEF Finish, SaveStopped, SessionTyped
<1> QED BY <1>1, <1>3

\* There is room for the generation after a reset.
LEMMA RoomForReset ==
  ASSUME SessionTyped, FileIsBehind, NEW c \in Calls, MayBegin("reset") \/ c \in Resets(calls)
  PROVE  generation + 1 \in Generations
<1> DEFINE n == Cardinality(Resets(calls))
<1>1. n \in Nat /\ generation \in Nat /\ MaxGeneration \in Nat /\ generation + n <= MaxGeneration
  BY ResetsCount, Names, SessionAssumption DEF FileIsBehind
<1>2. CASE MayBegin("reset")
  <2>1. generation + n < MaxGeneration
    BY <1>2 DEF MayBegin, Resets
  <2> HIDE DEF n
  <2>2. generation + 1 \in Nat /\ generation + 1 <= MaxGeneration
    BY <1>1, <2>1
  <2> QED BY <2>2, Names
<1>3. CASE c \in Resets(calls)
  <2>1. n # 0
    BY <1>3, ResetsCount, FS_EmptySet
  <2> HIDE DEF n
  <2>2. generation + 1 \in Nat /\ generation + 1 <= MaxGeneration
    BY <1>1, <2>1
  <2> QED BY <2>2, Names
<1> QED BY <1>2, <1>3

\* Every step of a call launches a loop, hydrates, cancels its loop, or ends.
LEMMA CallSteps ==
  ASSUME SessionTyped, FileIsBehind, NEW c \in Calls, Call(c)
  PROVE  /\ UNCHANGED <<crashes, blocked, ledger, tracked>>
         /\ overlapped' = (overlapped \/ \E d \in Calls \ {c} : calls[d] # Idle)
         /\ rows' \in Nat /\ marketStarted' \in BOOLEAN
         /\ CallEffect(c)
<1>0. /\ UNCHANGED crashes
      /\ overlapped' = (overlapped \/ \E d \in Calls \ {c} : calls[d] # Idle)
  BY DEF Call, Start, StartHydrated, StartFailed, Stop, StopIdle, Join, Overlap
<1>1. CASE Start(c) /\ marketStarted
  <2>1. Launch /\ calls' = calls /\ marketStarted' = marketStarted /\ calls[c] = Idle /\ ~running
    BY <1>1 DEF Start, MayStart
  <2>2. Goes(c, Idle)
    BY <2>1, CallStays
  <2>3. Launches(c)
    BY <2>1, <2>2, LaunchIs DEF Launches
  <2> QED BY <1>0, <2>1, <2>3, LaunchIs DEF CallEffect, SessionTyped
<1>2. CASE Start(c) /\ ~marketStarted
  <2>1. /\ calls' = [calls EXCEPT ![c].pc = "hydrating"] /\ marketStarted' = TRUE
        /\ UNCHANGED <<running, task, loops, blocked, bookVars, disk>>
        /\ calls[c] = Idle /\ ~running
    BY <1>2 DEF Start, MayStart
  <2> DEFINE state == [Idle EXCEPT !.pc = "hydrating"]
  <2>2. state \in CallStates /\ state.pc = "hydrating"
    BY DEF Idle, CallStates, NoTask
  <2>3. calls' = [calls EXCEPT ![c] = state]
    BY <2>1
  <2> HIDE DEF state
  <2>4. Goes(c, state)
    BY <2>2, <2>3, CallGoes
  <2>5. Hydrates(c)
    BY <2>1, <2>2, <2>4 DEF Hydrates, bookVars
  <2> QED BY <1>0, <2>1, <2>5 DEF CallEffect, SessionTyped, bookVars, records
<1>3. CASE StartHydrated(c)
  <2>1. /\ Launch /\ calls' = [calls EXCEPT ![c] = Idle] /\ marketStarted' = marketStarted
        /\ calls[c].pc = "hydrating"
    BY <1>3 DEF StartHydrated
  <2>2. Goes(c, Idle)
    BY <2>1, CallGoes, IdleIsOne
  <2>3. Launches(c)
    BY <2>1, <2>2, LaunchIs DEF Launches
  <2> QED BY <1>0, <2>1, <2>3, LaunchIs DEF CallEffect, SessionTyped
<1>4. CASE StartFailed(c)
  <2>1. /\ calls' = [calls EXCEPT ![c] = Idle] /\ calls[c].pc = "hydrating"
        /\ UNCHANGED <<running, task, marketStarted, loops, blocked, bookVars, disk>>
    BY <1>4 DEF StartFailed
  <2>2. Goes(c, Idle)
    BY <2>1, CallGoes, IdleIsOne
  <2>3. Hydrates(c)
    BY <2>1, <2>2, IdleIsOne DEF Hydrates, bookVars
  <2> QED BY <1>0, <2>1, <2>3 DEF CallEffect, SessionTyped, bookVars, records
<1>5. ASSUME NEW kind \in Kinds, Stop(c, kind)
      PROVE  /\ UNCHANGED <<blocked, ledger, tracked>> /\ rows' \in Nat /\ marketStarted' \in BOOLEAN
             /\ CallEffect(c)
  <2>1. /\ calls[c] = Idle /\ MayBegin(kind) /\ running /\ running' = FALSE /\ task' = task
        /\ UNCHANGED <<marketStarted, blocked>>
    BY <1>5 DEF Stop
  <2>2. CASE task = NoTask
    <3>1. Finish(kind) /\ loops' = loops /\ calls' = calls
      BY <1>5, <2>2 DEF Stop
    <3>2. kind = "reset" => generation + 1 \in Generations
      BY <2>1, RoomForReset
    <3>3. /\ UNCHANGED <<ledger, tracked>> /\ rows' \in Nat /\ Fresh
          /\ generation' = IF kind = "reset" THEN generation + 1 ELSE generation
      BY <3>1, <3>2, FinishIs
    <3>4. Goes(c, Idle)
      BY <2>1, <3>1, CallStays
    <3>5. Ends(c)
      BY <2>1, <2>2, <3>1, <3>3, <3>4 DEF Ends
    <3> QED BY <2>1, <3>3, <3>5 DEF CallEffect, SessionTyped
  <2>3. CASE task # NoTask
    <3> DEFINE state == [pc |-> "joining", kind |-> kind, loop |-> task]
    <3>1. /\ CancelTask(task) /\ calls' = [calls EXCEPT ![c] = state]
          /\ UNCHANGED <<bookVars, disk>> /\ task \in Loops
      BY <1>5, <2>3 DEF Stop, SessionTyped
    <3>2. state \in CallStates
      BY <3>1 DEF CallStates, Kinds
    <3>3. Goes(c, state)
      BY <3>1, <3>2, CallGoes
    <3>4. loops' = [loops EXCEPT ![task].cancelled = Live(task)] /\ Live(task) \in BOOLEAN
      BY <3>1 DEF CancelTask, Live
    <3>5. Moves(task, loops[task].pc, Live(task), loops[task].engine, loops[task].unrecorded)
      <4> DEFINE live == Live(task)
      <4>1. live \in BOOLEAN /\ loops' = [loops EXCEPT ![task].cancelled = live]
            /\ loops \in [Loops -> TaskType]
        BY <3>4 DEF SessionTyped
      <4> HIDE DEF live
      <4>2. Moves(task, loops[task].pc, live, loops[task].engine, loops[task].unrecorded)
        BY <3>1, <4>1, UpdatedCancelled
      <4> QED BY <4>2 DEF live
    <3>6. Cancels(c)
      BY <2>1, <3>1, <3>3, <3>5 DEF Cancels, bookVars
    <3> QED BY <2>1, <3>1, <3>6 DEF CallEffect, SessionTyped, bookVars, records
  <2> QED BY <2>2, <2>3
<1>6. ASSUME NEW kind \in Kinds, StopIdle(c, kind)
      PROVE  /\ UNCHANGED <<blocked, ledger, tracked>> /\ rows' \in Nat /\ marketStarted' \in BOOLEAN
             /\ CallEffect(c)
  <2>1. /\ calls[c] = Idle /\ MayBegin(kind) /\ ~running /\ Finish(kind)
        /\ UNCHANGED <<running, task, calls, marketStarted, loops, blocked>>
    BY <1>6 DEF StopIdle
  <2>2. kind = "reset" => generation + 1 \in Generations
    BY <2>1, RoomForReset
  <2>3. /\ UNCHANGED <<ledger, tracked>> /\ rows' \in Nat /\ Fresh
        /\ generation' = IF kind = "reset" THEN generation + 1 ELSE generation
    BY <2>1, <2>2, FinishIs
  <2>4. Goes(c, Idle)
    BY <2>1, CallStays
  <2>5. Ends(c)
    BY <2>1, <2>3, <2>4 DEF Ends
  <2> QED BY <2>1, <2>3, <2>5 DEF CallEffect, SessionTyped
<1>7. CASE Join(c)
  <2>1. /\ calls[c].pc = "joining" /\ Finish(calls[c].kind) /\ task' = NoTask
        /\ calls' = [calls EXCEPT ![c] = Idle]
        /\ UNCHANGED <<running, marketStarted, loops, blocked>>
    BY <1>7 DEF Join
  <2>2. calls[c].kind = "reset" => c \in Resets(calls) /\ generation + 1 \in Generations
    BY <2>1, RoomForReset DEF Resets
  <2>3. /\ UNCHANGED <<ledger, tracked>> /\ rows' \in Nat /\ Fresh
        /\ generation' = IF calls[c].kind = "reset" THEN generation + 1 ELSE generation
    <3>1. CASE calls[c].kind = "reset"
      BY <2>1, <2>2, <3>1, FinishIs DEF Kinds
    <3>2. CASE calls[c].kind # "reset"
      <4>1. Finish("stop")
        BY <2>1, <3>2 DEF Finish
      <4> QED BY <3>2, <4>1, FinishIs DEF Kinds
    <3> QED BY <3>1, <3>2
  <2>4. Goes(c, Idle)
    BY <2>1, CallGoes, IdleIsOne
  <2>5. Ends(c)
    BY <2>1, <2>2, <2>3, <2>4 DEF Ends
  <2> QED BY <1>0, <2>1, <2>3, <2>5 DEF CallEffect, SessionTyped
<1> QED BY <1>0, <1>1, <1>2, <1>3, <1>4, <1>5, <1>6, <1>7 DEF Call

-----------------------------------------------------------------------------
(* What the next process is.                                               *)

\* Nothing goes on in it.
Anew ==
  /\ running' = FALSE /\ task' = NoTask /\ blocked' = FALSE /\ overlapped' = overlapped
  /\ marketStarted' \in BOOLEAN /\ crashes' # crashes /\ rows' = 0
  /\ loops' \in [Loops -> TaskType]
  /\ \A l \in Loops : /\ loops'[l].pc = "none" /\ loops'[l].unrecorded = 0
                      /\ loops'[l].cancelled = FALSE
  /\ calls' \in [Calls -> CallStates] /\ \A c \in Calls : calls'[c] = Idle

\* It has taken up a portfolio and a tracker with these fills.
TakesUp(filled, recorded) ==
  /\ ledger' = [ledger EXCEPT ![generation'] = filled]
  /\ tracked' = [tracked EXCEPT ![generation'] = recorded]

\* A new process has no calls, no tasks and no loop.
LEMMA NewProcessIs ==
  ASSUME SessionTyped, crashes \in Nat, NewProcess, rows' = 0
  PROVE  Anew
<1>1. NewLoop \in TaskType /\ NewLoop.pc = "none" /\ NewLoop.unrecorded = 0 /\ NewLoop.cancelled = FALSE
  BY Names DEF NewLoop, TaskType
<1>2. loops' = [l \in Loops |-> NewLoop] /\ calls' = [c \in Calls |-> Idle]
  BY DEF NewProcess
<1> HIDE DEF NewLoop, Idle
<1>3. /\ loops' \in [Loops -> TaskType] /\ \A l \in Loops : loops'[l] = NewLoop
      /\ calls' \in [Calls -> CallStates] /\ \A c \in Calls : calls'[c] = Idle
  BY <1>1, <1>2, IdleIsOne
<1>4. /\ running' = FALSE /\ task' = NoTask /\ blocked' = FALSE /\ overlapped' = overlapped
      /\ marketStarted' \in BOOLEAN /\ crashes' # crashes
  BY DEF NewProcess
<1> QED BY <1>1, <1>3, <1>4 DEF Anew

\* A new process takes up what the file holds, or starts afresh.
LEMMA CrashIs ==
  ASSUME SessionTyped, FileIsBehind, crashes \in Nat, Crash
  PROVE  /\ Anew /\ disk' = disk /\ generation' = generation
         /\ \/ \E saved \in disk : TakesUp(saved.ledger, saved.tracked)
            \/ disk = {} /\ TakesUp(0, 0)
<1>1. Anew /\ disk' = disk
  BY NewProcessIs DEF Crash, Load, StartAfresh
<1>2. CASE \E saved \in disk : Load(saved)
  <2>1. PICK saved \in disk : Load(saved)
    BY <1>2
  <2>2. saved.generation = generation
    BY DEF FileIsBehind
  <2>3. generation' = generation /\ TakesUp(saved.ledger, saved.tracked)
    BY <2>1, <2>2 DEF Load, TakesUp
  <2> QED BY <1>1, <2>3
<1>3. CASE disk = {} /\ generation' = generation /\ StartAfresh
  BY <1>1, <1>3 DEF StartAfresh, TakesUp
<1> QED BY <1>2, <1>3 DEF Crash

LEMMA CrashInResetIs ==
  ASSUME SessionTyped, FileIsBehind, crashes \in Nat, CrashInReset
  PROVE  /\ Anew /\ disk' = {} /\ TakesUp(0, 0)
         /\ generation' = generation + 1 /\ generation' \in Generations
<1>1. PICK c \in Calls : InReset(c)
  BY DEF CrashInReset
<1>2. MayBegin("reset") \/ c \in Resets(calls)
  BY <1>1 DEF InReset, Resets
<1>3. generation + 1 \in Generations
  BY <1>2, RoomForReset
<1>4. Anew
  BY NewProcessIs DEF CrashInReset, StartAfresh
<1> QED BY <1>3, <1>4 DEF CrashInReset, StartAfresh, TakesUp

\* In a new process no reset waits.
LEMMA NoneWait ==
  ASSUME Anew, generation' \in Generations
  PROVE  generation' + Cardinality(Resets(calls')) <= MaxGeneration
<1>1. Resets(calls') = {}
  BY IdleIsOne DEF Anew, Resets
<1>2. Cardinality(Resets(calls')) = 0
  BY <1>1, FS_EmptySet
<1>3. \A g \in Generations : g + 0 <= MaxGeneration
  BY SessionAssumption DEF Generations
<1> QED BY <1>2, <1>3

-----------------------------------------------------------------------------
(* The invariant is kept.                                                  *)

SInv == SessionInv /\ crashes \in Nat

\* The first process satisfies the invariant.
LEMMA InitIsFine == Init => SInv
<1> SUFFICES ASSUME Init PROVE SInv
  OBVIOUS
<1>1. /\ running = FALSE /\ task = NoTask /\ loops = [l \in Loops |-> NewLoop]
      /\ calls = [c \in Calls |-> Idle] /\ marketStarted \in BOOLEAN /\ blocked = FALSE
      /\ generation = 0 /\ rows = 0 /\ disk = {} /\ crashes = 0 /\ overlapped = FALSE
      /\ ledger = [g \in Generations |-> 0] /\ tracked = [g \in Generations |-> 0]
  BY DEF Init
<1>2. NewLoop \in TaskType /\ NewLoop.pc = "none" /\ NewLoop.unrecorded = 0 /\ NewLoop.cancelled = FALSE
  BY Names DEF NewLoop, TaskType
<1> HIDE DEF NewLoop, Idle
<1>3. SessionTyped
  BY <1>1, <1>2, IdleIsOne DEF SessionTyped
<1>4. FileIsBehind
  <2>1. Resets(calls) = {}
    BY <1>1, IdleIsOne DEF Resets
  <2>2. Cardinality(Resets(calls)) = 0
    BY <2>1, FS_EmptySet
  <2> QED BY <1>1, <2>2, Names, SessionAssumption DEF FileIsBehind
<1>5. OneAtATime /\ OwnBooks
  <2>1. \A l \in Loops : ~Live(l)
    BY <1>1, <1>2 DEF Live
  <2>2. (\A g \in Generations : tracked[g] <= ledger[g]) /\ Saved
    BY <1>1, Names DEF Saved
  <2> QED BY <1>1, <2>1, <2>2 DEF OneAtATime, OwnBooks, Active
<1> QED BY <1>1, <1>3, <1>4, <1>5 DEF SInv, SessionInv

\* What a step that fills makes of the counts.
LEMMA TypesOfFilled ==
  ASSUME SessionTyped, FileIsBehind, NEW l \in Loops, NEW filled \in 0 .. 1, Executes(l, filled)
  PROVE  /\ loops[l].engine \in Generations /\ loops[l].unrecorded \in Nat /\ generation \in Generations
         /\ ledger' \in [Generations -> Nat] /\ tracked' \in [Generations -> Nat]
         /\ \A g \in Generations : ledger'[g] = IF g = loops[l].engine THEN ledger[g] + filled ELSE ledger[g]
         /\ \/ tracked' = tracked
            \/ \A g \in Generations :
                 tracked'[g] = IF g = generation THEN tracked[g] + loops[l].unrecorded + filled
                                                 ELSE tracked[g]
         /\ filled \in Nat
<1>1. /\ loops[l].engine \in Generations /\ loops[l].unrecorded \in Nat /\ generation \in Generations
      /\ ledger \in [Generations -> Nat] /\ tracked \in [Generations -> Nat] /\ filled \in Nat
  BY DEF SessionTyped, FileIsBehind, TaskType
<1>2. ledger' = [ledger EXCEPT ![loops[l].engine] = @ + filled]
  BY DEF Executes
<1>3. /\ ledger' \in [Generations -> Nat]
      /\ \A g \in Generations : ledger'[g] = IF g = loops[l].engine THEN ledger[g] + filled ELSE ledger[g]
  BY <1>1, <1>2
<1>4. CASE tracked' = tracked
  BY <1>1, <1>3, <1>4
<1>5. CASE tracked' = [tracked EXCEPT ![generation] = @ + loops[l].unrecorded + filled]
  <2> DEFINE more == tracked[generation] + loops[l].unrecorded + filled
  <2>1. more \in Nat /\ tracked' = [tracked EXCEPT ![generation] = more]
    BY <1>1, <1>5
  <2> HIDE DEF more
  <2>2. /\ tracked' \in [Generations -> Nat]
        /\ \A g \in Generations : tracked'[g] = IF g = generation THEN more ELSE tracked[g]
    BY <1>1, <2>1
  <2> QED BY <1>1, <1>3, <2>2 DEF more
<1> QED BY <1>4, <1>5 DEF Executes

\* The types, and what the file holds, under each kind of step.
LEMMA TurnKeepsTypes ==
  ASSUME SessionTyped, FileIsBehind, NEW l \in Loops, Turns(l), UNCHANGED <<callVars, blocked, generation>>
  PROVE  SessionTyped' /\ FileIsBehind'
<1>1. SameBooks /\ (disk' = disk \/ Fresh)
  BY DEF Turns
<1>2. /\ loops' \in [Loops -> TaskType]
      /\ loops'[l].pc # "placing" => loops'[l].unrecorded = 0
      /\ loops'[l].pc = "none" => ~loops'[l].cancelled
      /\ \A k \in Loops \ {l} : loops'[k] = loops[k]
  <2>1. PICK pc \in {"ready", "resting", "placing", "over"} :
          \E cancelled, engine : Moves(l, pc, cancelled, engine, 0)
    BY DEF Turns
  <2>2. PICK cancelled, engine : Moves(l, pc, cancelled, engine, 0)
    BY <2>1
  <2> QED BY <2>1, <2>2, Moved
<1>3. UNCHANGED <<running, task, calls, marketStarted, overlapped, blocked, generation>>
  BY DEF callVars
<1>4. SessionTyped'
  <2>1. disk' \subseteq SavedType
    BY <1>1 DEF SessionTyped, Fresh
  <2>2. \A k \in Loops : /\ loops'[k].pc # "placing" => loops'[k].unrecorded = 0
                         /\ loops'[k].pc = "none" => ~loops'[k].cancelled
    BY <1>2 DEF SessionTyped
  <2> QED BY <1>1, <1>2, <1>3, <2>1, <2>2 DEF SessionTyped, SameBooks
<1>5. FileIsBehind'
  <2>1. ledger'[generation'] \in Nat /\ ledger' = ledger
    BY <1>1, <1>3 DEF SessionTyped, FileIsBehind, SameBooks
  <2> QED BY <1>1, <1>3, <2>1 DEF FileIsBehind, Fresh
<1> QED BY <1>4, <1>5

LEMMA FillKeepsTypes ==
  ASSUME SessionTyped, FileIsBehind, NEW l \in Loops, NEW filled \in 0 .. 1, Executes(l, filled),
         UNCHANGED <<callVars, blocked, generation>>
  PROVE  SessionTyped' /\ FileIsBehind'
<1>1. /\ ledger' \in [Generations -> Nat] /\ tracked' \in [Generations -> Nat]
      /\ \A g \in Generations : ledger'[g] >= ledger[g]
  BY TypesOfFilled DEF SessionTyped
<1>2. /\ loops' \in [Loops -> TaskType]
      /\ loops'[l].pc # "placing" => loops'[l].unrecorded = 0
      /\ loops'[l].pc # "none"
      /\ \A k \in Loops \ {l} : loops'[k] = loops[k]
      /\ disk' = disk \/ Fresh
      /\ rows' \in Nat
  BY DEF Executes, Moves
<1>3. UNCHANGED <<running, task, calls, marketStarted, overlapped, blocked, generation>>
  BY DEF callVars
<1>4. SessionTyped'
  <2>1. disk' \subseteq SavedType
    BY <1>2 DEF SessionTyped, Fresh
  <2>2. \A k \in Loops : /\ loops'[k].pc # "placing" => loops'[k].unrecorded = 0
                         /\ loops'[k].pc = "none" => ~loops'[k].cancelled
    BY <1>2 DEF SessionTyped
  <2> QED BY <1>1, <1>2, <1>3, <2>1, <2>2 DEF SessionTyped
<1>5. FileIsBehind'
  <2>1. /\ generation \in Generations /\ ledger[generation] \in Nat /\ ledger'[generation] \in Nat
        /\ ledger'[generation] >= ledger[generation]
        /\ disk \subseteq SavedType
    BY <1>1 DEF SessionTyped, FileIsBehind
  <2>2. \A saved \in disk : saved.ledger \in Nat
    BY <2>1 DEF SavedType
  <2>3. \A saved \in disk' : saved.generation = generation' /\ saved.ledger <= ledger'[generation']
    <3>1. CASE disk' = disk
      BY <1>3, <2>1, <2>2, <3>1 DEF FileIsBehind
    <3>2. CASE Fresh
      BY <1>3, <2>1, <3>2 DEF Fresh
    <3> QED BY <1>2, <3>1, <3>2
  <2>4. \A saved, other \in disk' : saved = other
    BY <1>2 DEF FileIsBehind, Fresh
  <2> QED BY <1>3, <2>3, <2>4 DEF FileIsBehind
<1> QED BY <1>4, <1>5

LEMMA CallKeepsTypes ==
  ASSUME SessionTyped, FileIsBehind, NEW c \in Calls, Call(c)
  PROVE  SessionTyped' /\ FileIsBehind'
<1>1. /\ UNCHANGED <<crashes, blocked, ledger, tracked>> /\ rows' \in Nat /\ marketStarted' \in BOOLEAN
      /\ overlapped' \in BOOLEAN
      /\ CallEffect(c)
  BY CallSteps DEF SessionTyped
<1>2. /\ calls' \in [Calls -> CallStates] /\ running' \in BOOLEAN /\ task' \in Loops \cup {NoTask}
      /\ disk' \subseteq SavedType
  BY <1>1 DEF CallEffect, Launches, Hydrates, Cancels, Ends, Goes, SessionTyped, Fresh
<1>3. /\ loops' \in [Loops -> TaskType]
      /\ \A k \in Loops : /\ loops'[k].pc # "placing" => loops'[k].unrecorded = 0
                          /\ loops'[k].pc = "none" => ~loops'[k].cancelled
  <2>1. CASE Launches(c)
    <3>1. PICK l \in Loops, engine \in Generations : Moves(l, "ready", FALSE, engine, 0)
      BY <2>1 DEF Launches
    <3> QED BY <3>1 DEF Moves, SessionTyped
  <2>2. CASE Cancels(c)
    <3>1. /\ task \in Loops
          /\ Moves(task, loops[task].pc, Live(task), loops[task].engine, loops[task].unrecorded)
      BY <2>2 DEF Cancels
    <3>2. /\ loops'[task].pc = loops[task].pc /\ loops'[task].unrecorded = loops[task].unrecorded
          /\ loops'[task].cancelled = Live(task)
          /\ loops' \in [Loops -> TaskType] /\ \A k \in Loops \ {task} : loops'[k] = loops[k]
      BY <3>1, Moved
    <3> QED BY <3>1, <3>2 DEF SessionTyped, Live
  <2>3. CASE Hydrates(c) \/ Ends(c)
    BY <2>3 DEF Hydrates, Ends, SessionTyped
  <2> QED BY <1>1, <2>1, <2>2, <2>3 DEF CallEffect
<1>4. SessionTyped'
  BY <1>1, <1>2, <1>3 DEF SessionTyped
<1> DEFINE n == Cardinality(Resets(calls))
           m == Cardinality(Resets(calls'))
<1>5. /\ n \in Nat /\ m \in Nat /\ generation \in Nat /\ generation + n <= MaxGeneration
      /\ MaxGeneration \in Nat
  BY ResetsCount, Names, SessionAssumption DEF FileIsBehind
<1>6. /\ generation' \in Generations /\ generation' + m <= MaxGeneration
      /\ (disk' = disk /\ generation' = generation) \/ Fresh
  <2>1. CASE Launches(c) \/ Hydrates(c)
    <3>1. PICK state : Goes(c, state) /\ state.pc # "joining"
      BY <2>1, IdleIsOne DEF Launches, Hydrates
    <3>2. m <= n
      BY <3>1, ResetsFewer
    <3>3. generation' = generation /\ (disk' = disk \/ Fresh)
      BY <2>1 DEF Launches, Hydrates
    <3> HIDE DEF n, m
    <3> QED BY <1>5, <3>2, <3>3 DEF FileIsBehind
  <2>2. CASE Cancels(c)
    <3>1. PICK kind \in Kinds : /\ Goes(c, [pc |-> "joining", kind |-> kind, loop |-> task])
                                /\ MayBegin(kind)
      BY <2>2 DEF Cancels
    <3>2. m <= n + 1 /\ (kind # "reset" => m <= n)
      BY <3>1, ResetsMore
    <3>3. kind = "reset" => generation + n < MaxGeneration
      BY <3>1 DEF MayBegin, Resets
    <3>4. generation' = generation /\ disk' = disk
      BY <2>2 DEF Cancels
    <3> HIDE DEF n, m
    <3> QED BY <1>5, <3>2, <3>3, <3>4 DEF FileIsBehind
  <2>3. CASE Ends(c)
    <3>1. m <= n /\ (c \in Resets(calls) => m + 1 <= n)
      BY <2>3, ResetsFewer, IdleIsOne DEF Ends
    <3>2. MayBegin("reset") => generation + n < MaxGeneration
      BY DEF MayBegin, Resets
    <3>3. generation' = generation + 1 => generation' \in Generations
      BY <2>3, <1>5, RoomForReset DEF Ends
    <3>4. /\ Fresh
          /\ \/ generation' = generation
             \/ generation' = generation + 1 /\ (MayBegin("reset") \/ c \in Resets(calls))
      BY <2>3 DEF Ends
    <3> HIDE DEF n, m
    <3> QED BY <1>5, <3>1, <3>2, <3>3, <3>4 DEF FileIsBehind
  <2> QED BY <1>1, <2>1, <2>2, <2>3 DEF CallEffect
<1>7. FileIsBehind'
  <2>1. CASE disk' = disk /\ generation' = generation
    BY <1>1, <1>6, <2>1 DEF FileIsBehind
  <2>2. CASE Fresh
    <3>1. ledger'[generation'] \in Nat
      BY <1>4, <1>6 DEF SessionTyped
    <3> QED BY <1>6, <2>2, <3>1 DEF FileIsBehind, Fresh
  <2> QED BY <1>6, <2>1, <2>2
<1> QED BY <1>4, <1>7

\* The books of a process that has taken up a session.
LEMMA TookUp ==
  ASSUME SessionTyped, generation' \in Generations, NEW filled \in Nat, NEW recorded \in Nat,
         TakesUp(filled, recorded)
  PROVE  /\ ledger' \in [Generations -> Nat] /\ tracked' \in [Generations -> Nat]
         /\ ledger'[generation'] = filled /\ tracked'[generation'] = recorded
         /\ \A g \in Generations \ {generation'} : ledger'[g] = ledger[g] /\ tracked'[g] = tracked[g]
  BY DEF SessionTyped, TakesUp

LEMMA CrashKeepsTypes ==
  ASSUME SessionTyped, FileIsBehind, crashes \in Nat, Crash \/ CrashInReset
  PROVE  SessionTyped' /\ FileIsBehind'
<1>1. Anew /\ generation' \in Generations /\ disk' \subseteq disk
  BY CrashIs, CrashInResetIs DEF FileIsBehind
<1>2. PICK filled \in Nat, recorded \in Nat :
        /\ TakesUp(filled, recorded)
        /\ disk' # {} => /\ generation' = generation
                         /\ \E saved \in disk : saved.ledger = filled
  <2>1. CASE Crash
    <3>1. \A saved \in disk : saved.ledger \in Nat /\ saved.tracked \in Nat
      BY DEF SessionTyped, SavedType
    <3> QED BY <2>1, <3>1, CrashIs
  <2>2. CASE CrashInReset
    BY <2>2, CrashInResetIs
  <2> QED BY <2>1, <2>2
<1>3. /\ ledger' \in [Generations -> Nat] /\ tracked' \in [Generations -> Nat]
      /\ ledger'[generation'] = filled
  BY <1>1, <1>2, TookUp
<1>4. SessionTyped'
  BY <1>1, <1>3 DEF SessionTyped, Anew
<1>5. FileIsBehind'
  <2>1. generation' + Cardinality(Resets(calls')) <= MaxGeneration
    BY <1>1, NoneWait
  <2>2. \A saved \in disk' : saved.generation = generation' /\ saved.ledger <= ledger'[generation']
    <3> SUFFICES ASSUME NEW saved \in disk'
                 PROVE  saved.generation = generation' /\ saved.ledger <= ledger'[generation']
      OBVIOUS
    <3>1. saved.generation = generation /\ generation' = generation /\ saved.ledger = filled
      BY <1>1, <1>2 DEF FileIsBehind
    <3> QED BY <1>3, <3>1
  <2> QED BY <1>1, <2>1, <2>2 DEF FileIsBehind
<1> QED BY <1>4, <1>5

\* No loop that was not going on goes on after a loop's step, and the one of a
\* session that runs does.
LEMMA StillActive ==
  ASSUME NEW l \in Loops, NEW filled \in 0 .. 1, Turns(l) \/ Executes(l, filled)
  PROVE  /\ \A k \in Loops : Active(k)' => Active(k)
         /\ running => \A k \in Loops : Active(k) => Active(k)'
         /\ \A k \in Loops \ {l} : loops'[k] = loops[k]
<1>1. /\ loops' \in [Loops -> TaskType]
      /\ \A k \in Loops \ {l} : loops'[k] = loops[k]
      /\ Active(l)' => Active(l)
      /\ running /\ Active(l) => Active(l)'
  <2>1. CASE Turns(l)
    <3>1. CASE \E pc, engine : /\ pc \in {"ready", "resting", "placing"} /\ Active(l)
                                 /\ Moves(l, pc, FALSE, engine, 0)
      BY <3>1, Moved DEF Active, Live
    <3>2. CASE \E cancelled, engine : Moves(l, "over", cancelled, engine, 0) /\ (~running \/ ~Active(l))
      BY <3>2, Moved DEF Active, Live
    <3> QED BY <2>1, <3>1, <3>2 DEF Turns
  <2>2. CASE Executes(l, filled)
    <3>1. Active(l)
      BY <2>2 DEF Executes
    <3>2. PICK pc \in {"placing", "resting"} : \E engine, unrecorded : Moves(l, pc, FALSE, engine, unrecorded)
      BY <2>2 DEF Executes
    <3>3. PICK engine, unrecorded : Moves(l, pc, FALSE, engine, unrecorded)
      BY <3>2
    <3> QED BY <3>1, <3>2, <3>3, Moved DEF Active, Live
  <2> QED BY <2>1, <2>2
<1>2. \A k \in Loops \ {l} : Active(k)' <=> Active(k)
  BY <1>1 DEF Active, Live
<1> QED BY <1>1, <1>2

\* No step of a loop makes a second one.
LEMMA LoopKeepsOne ==
  ASSUME OneAtATime, NEW l \in Loops, NEW filled \in 0 .. 1, Turns(l) \/ Executes(l, filled),
         UNCHANGED <<callVars, blocked, generation>>
  PROVE  OneAtATime'
<1>1. UNCHANGED <<running, task, calls>>
  BY DEF callVars
<1>2. /\ \A k \in Loops : Active(k)' => Active(k)
      /\ running => \A k \in Loops : Active(k) => Active(k)'
  BY StillActive
<1> QED BY <1>1, <1>2 DEF OneAtATime

\* The loops' own books, under each kind of step.
LEMMA TurnKeepsBooks ==
  ASSUME SessionTyped, FileIsBehind, OneAtATime, OwnBooks, NEW l \in Loops, Turns(l),
         UNCHANGED <<callVars, blocked, generation>>
  PROVE  OwnBooks'
<1>1. SameBooks /\ (disk' = disk \/ Fresh) /\ UNCHANGED <<running, calls, generation>>
  BY DEF Turns, callVars
<1>2. generation \in Generations /\ \A g \in Generations : ledger[g] \in Nat /\ tracked[g] \in Nat
  BY DEF SessionTyped, FileIsBehind
<1>3. /\ \A k \in Loops : Active(k)' => Active(k)
      /\ \A k \in Loops \ {l} : loops'[k] = loops[k]
  BY StillActive
<1>4. loops'[l].pc = "placing" => loops'[l].engine = generation /\ loops'[l].unrecorded = 0
  <2> SUFFICES ASSUME loops'[l].pc = "placing"
               PROVE  loops'[l].engine = generation /\ loops'[l].unrecorded = 0
    OBVIOUS
  <2>1. PICK pc \in {"ready", "resting", "placing", "over"} :
          \E cancelled, engine : /\ Moves(l, pc, cancelled, engine, 0)
                                 /\ pc = "placing" => engine = generation
    BY DEF Turns
  <2>2. PICK cancelled, engine : /\ Moves(l, pc, cancelled, engine, 0)
                                 /\ pc = "placing" => engine = generation
    BY <2>1
  <2> QED BY <2>1, <2>2, Moved
<1>5. \A k \in Loops : Active(k)' /\ loops'[k].pc = "placing" =>
        /\ loops'[k].engine = generation'
        /\ tracked'[generation'] + loops'[k].unrecorded <= ledger'[generation']
  <2> SUFFICES ASSUME NEW k \in Loops, Active(k)', loops'[k].pc = "placing"
               PROVE  /\ loops'[k].engine = generation'
                      /\ tracked'[generation'] + loops'[k].unrecorded <= ledger'[generation']
    OBVIOUS
  <2>1. CASE k = l
    <3>1. tracked[generation] + 0 <= ledger[generation]
      BY <1>2 DEF OwnBooks
    <3> QED BY <1>1, <1>4, <2>1, <3>1 DEF SameBooks
  <2>2. CASE k # l
    BY <1>1, <1>3, <2>2 DEF OwnBooks, SameBooks
  <2> QED BY <2>1, <2>2
<1>6. \A g \in Generations : tracked'[g] <= ledger'[g]
  BY <1>1 DEF OwnBooks, SameBooks
<1>7. \A saved \in disk' : saved.tracked <= saved.ledger
  <2>1. CASE disk' = disk
    BY <2>1 DEF OwnBooks
  <2>2. CASE Fresh
    BY <1>1, <1>2, <1>6, <2>2 DEF Fresh
  <2> QED BY <1>1, <2>1, <2>2
<1>8. ~running' /\ (\A c \in Calls : calls'[c].pc # "joining") => Saved'
  <2> SUFFICES ASSUME ~running', \A c \in Calls : calls'[c].pc # "joining" PROVE Saved'
    OBVIOUS
  <2>1. Saved
    BY <1>1 DEF OwnBooks
  <2>2. CASE disk' = disk
    BY <1>1, <2>1, <2>2 DEF Saved, SameBooks
  <2>3. CASE Fresh
    BY <2>3 DEF Saved, Fresh
  <2> QED BY <1>1, <2>2, <2>3
<1> QED BY <1>5, <1>6, <1>7, <1>8 DEF OwnBooks

LEMMA FillKeepsBooks ==
  ASSUME SessionTyped, FileIsBehind, OneAtATime, OwnBooks, NEW l \in Loops, NEW filled \in 0 .. 1,
         Executes(l, filled), UNCHANGED <<callVars, blocked, generation>>
  PROVE  OwnBooks'
<1>1. /\ Active(l) /\ loops[l].pc = "placing" /\ (disk' = disk \/ Fresh)
      /\ UNCHANGED <<running, calls, generation>> /\ running
  BY DEF Executes, callVars, OneAtATime
<1> DEFINE e == loops[l].engine
           u == loops[l].unrecorded
<1>2. /\ e = generation /\ u \in Nat /\ generation \in Generations /\ filled \in Nat
      /\ tracked[generation] + u <= ledger[generation]
      /\ \A g \in Generations : tracked[g] <= ledger[g]
      /\ \A g \in Generations : ledger[g] \in Nat /\ tracked[g] \in Nat
  BY <1>1, TypesOfFilled DEF OwnBooks, SessionTyped
<1>3. /\ \A g \in Generations : ledger'[g] = IF g = e THEN ledger[g] + filled ELSE ledger[g]
      /\ \/ tracked' = tracked
         \/ \A g \in Generations : tracked'[g] = IF g = generation THEN tracked[g] + u + filled
                                                                   ELSE tracked[g]
  BY TypesOfFilled
<1> HIDE DEF e, u
<1>4. \A g \in Generations : tracked'[g] <= ledger'[g]
  <2> SUFFICES ASSUME NEW g \in Generations PROVE tracked'[g] <= ledger'[g]
    OBVIOUS
  <2>1. ledger[g] \in Nat /\ tracked[g] \in Nat /\ tracked[g] <= ledger[g]
    BY <1>2
  <2>2. CASE g # generation
    BY <1>2, <1>3, <2>1, <2>2
  <2>3. CASE g = generation
    <3>1. ledger'[g] = ledger[g] + filled /\ tracked'[g] \in {tracked[g], tracked[g] + u + filled}
      BY <1>2, <1>3, <2>3
    <3> QED BY <1>2, <2>1, <2>3, <3>1
  <2> QED BY <2>2, <2>3
<1>5. \A saved \in disk' : saved.tracked <= saved.ledger
  <2>1. CASE disk' = disk
    BY <2>1 DEF OwnBooks
  <2>2. CASE Fresh
    BY <1>1, <1>2, <1>4, <2>2 DEF Fresh
  <2> QED BY <1>1, <2>1, <2>2
<1>6. \A k \in Loops : Active(k)' => k = l
  BY <1>1, StillActive DEF OneAtATime
<1>7. loops'[l].pc = "placing" =>
        loops'[l].engine = generation /\ tracked'[generation] + loops'[l].unrecorded <= ledger'[generation]
  <2> SUFFICES ASSUME loops'[l].pc = "placing"
               PROVE  /\ loops'[l].engine = generation
                      /\ tracked'[generation] + loops'[l].unrecorded <= ledger'[generation]
    OBVIOUS
  <2>1. CASE tracked' = tracked /\ Moves(l, "placing", FALSE, e, u + filled)
    <3>1. ledger'[generation] = ledger[generation] + filled
      BY <1>2, <1>3
    <3>2. loops'[l].engine = generation /\ loops'[l].unrecorded = u + filled
      <4> DEFINE more == u + filled
      <4>1. Moves(l, "placing", FALSE, e, more)
        BY <2>1
      <4> HIDE DEF more
      <4>2. loops'[l].engine = e /\ loops'[l].unrecorded = more
        BY <4>1 DEF Moves
      <4> QED BY <1>2, <4>2 DEF more
    <3>3. tracked[generation] \in Nat /\ ledger[generation] \in Nat
      BY <1>2
    <3> QED BY <1>2, <2>1, <3>1, <3>2, <3>3
  <2>2. CASE Moves(l, "placing", FALSE, generation, 0)
    <3>1. loops'[l].engine = generation /\ loops'[l].unrecorded = 0
      BY <2>2 DEF Moves
    <3>2. /\ tracked'[generation] \in Nat /\ ledger'[generation] \in Nat
          /\ tracked'[generation] <= ledger'[generation]
      BY <1>2, <1>4, TypesOfFilled
    <3>3. tracked'[generation] + 0 <= ledger'[generation]
      BY <3>2
    <3> QED BY <3>1, <3>3
  <2>3. CASE Moves(l, "resting", FALSE, loops[l].engine, 0)
    <3>1. loops'[l].pc = "resting"
      BY <2>3, Moved
    <3> QED BY <3>1
  <2> QED BY <2>1, <2>2, <2>3 DEF Executes, e, u
<1> QED BY <1>1, <1>4, <1>5, <1>6, <1>7 DEF OwnBooks

\* A call that does not overlap is the only one.
LEMMA CallKeepsOne ==
  ASSUME SessionTyped, FileIsBehind, OneAtATime, NEW c \in Calls, CallEffect(c),
         \A d \in Calls \ {c} : calls[d] = Idle
  PROVE  /\ OneAtATime'
         /\ \A l \in Loops : Active(l)' => loops'[l].pc # "placing" \/ Active(l)
         /\ ~running' => \A l \in Loops : ~Active(l)'
         /\ Cancels(c) <=> running
<1>1. \A d \in Calls \ {c} : calls'[d] = Idle
  BY DEF CallEffect, Launches, Hydrates, Cancels, Ends, Goes
<1>2. CASE Launches(c)
  <2>1. PICK l \in Loops, engine \in Generations :
          task' = l /\ loops[l].pc = "none" /\ Moves(l, "ready", FALSE, engine, 0)
    BY <1>2 DEF Launches
  <2>2. ~running /\ running' = TRUE /\ calls'[c] = Idle
    BY <1>2, IdleIsOne DEF Launches, OneAtATime, Goes
  <2>3. \A k \in Loops : ~Active(k)
    BY <2>2 DEF OneAtATime
  <2>4. /\ loops'[l].pc = "ready" /\ loops'[l].cancelled = FALSE
        /\ \A k \in Loops \ {l} : loops'[k] = loops[k]
    BY <2>1 DEF Moves
  <2>5. Active(l)' /\ \A k \in Loops \ {l} : ~Active(k)'
    BY <2>3, <2>4 DEF Active, Live
  <2>6. \A d \in Calls : calls'[d] = Idle
    BY <1>1, <2>2
  <2>7. OneAtATime'
    BY <2>1, <2>2, <2>5, <2>6 DEF OneAtATime
  <2>8. ~Cancels(c)
    BY <2>2 DEF Cancels
  <2> QED BY <2>2, <2>4, <2>5, <2>7, <2>8
<1>3. CASE Hydrates(c)
  <2>1. ~running /\ UNCHANGED <<running, task, loops>>
    BY <1>3, IdleIsOne DEF Hydrates, OneAtATime
  <2>2. \A k \in Loops : ~Active(k) /\ ~Active(k)'
    BY <2>1 DEF OneAtATime, Active, Live
  <2>3. ~Cancels(c)
    BY <2>1 DEF Cancels
  <2> QED BY <1>1, <2>1, <2>2, <2>3 DEF OneAtATime
<1>4. CASE Cancels(c)
  <2>1. /\ running /\ running' = FALSE /\ task \in Loops
        /\ Moves(task, loops[task].pc, Live(task), loops[task].engine, loops[task].unrecorded)
    BY <1>4 DEF Cancels
  <2>2. /\ loops'[task].pc = loops[task].pc /\ loops'[task].cancelled = Live(task)
        /\ \A k \in Loops \ {task} : loops'[k] = loops[k]
    BY <2>1, Moved
  <2>3. \A k \in Loops : ~Active(k)'
    BY <2>1, <2>2 DEF OneAtATime, Active, Live
  <2> QED BY <1>1, <1>4, <2>1, <2>3 DEF OneAtATime
<1>5. CASE Ends(c)
  <2>1. ~running /\ running' = running /\ loops' = loops
    <3>1. running => task # NoTask
      BY Names DEF OneAtATime
    <3> QED BY <1>5, <3>1, IdleIsOne DEF Ends, OneAtATime
  <2>2. \A k \in Loops : ~Active(k) /\ ~Active(k)'
    BY <2>1 DEF OneAtATime, Active, Live
  <2>3. ~Cancels(c)
    BY <2>1 DEF Cancels
  <2> QED BY <1>1, <2>1, <2>2, <2>3 DEF OneAtATime
<1> QED BY <1>2, <1>3, <1>4, <1>5 DEF CallEffect

LEMMA CallKeepsBooks ==
  ASSUME SessionTyped, FileIsBehind, OneAtATime, OwnBooks, NEW c \in Calls, CallEffect(c),
         \A d \in Calls \ {c} : calls[d] = Idle, UNCHANGED <<ledger, tracked>>, FileIsBehind'
  PROVE  OwnBooks'
<1>1. /\ ~running' => \A l \in Loops : ~Active(l)'
      /\ \A l \in Loops : Active(l)' => loops'[l].pc # "placing" \/ Active(l)
      /\ Cancels(c) <=> running
  BY CallKeepsOne
<1>2. generation' \in Generations /\ \A g \in Generations : tracked'[g] <= ledger'[g]
  BY DEF OwnBooks, FileIsBehind
<1>3. \A l \in Loops : Active(l)' => loops'[l].pc # "placing"
  <2>1. CASE running
    <3>1. running' = FALSE
      BY <1>1, <2>1 DEF Cancels
    <3> QED BY <1>1, <3>1
  <2>2. CASE ~running
    BY <1>1, <2>2 DEF OneAtATime
  <2> QED BY <2>1, <2>2
<1>4. \A saved \in disk' : saved.tracked <= saved.ledger
  <2>1. CASE Fresh
    BY <1>2, <2>1 DEF Fresh
  <2>2. CASE disk' = disk
    BY <2>2 DEF OwnBooks
  <2> QED BY <2>1, <2>2 DEF CallEffect, Launches, Hydrates, Cancels, Ends
<1>5. ~running' /\ (\A d \in Calls : calls'[d].pc # "joining") => Saved'
  <2>1. CASE Fresh
    BY <2>1 DEF Saved, Fresh
  <2>2. CASE Hydrates(c)
    <3>1. ~running /\ disk' = disk /\ generation' = generation
      BY <1>1, <2>2, IdleIsOne DEF Hydrates, OneAtATime
    <3>2. \A d \in Calls : calls[d].pc # "joining"
      BY <2>2, IdleIsOne DEF Hydrates
    <3>3. Saved
      BY <3>1, <3>2 DEF OwnBooks
    <3> QED BY <3>1, <3>3 DEF Saved
  <2>3. CASE Cancels(c)
    <3>1. calls'[c].pc = "joining"
      BY <2>3 DEF Cancels, Goes
    <3> QED BY <3>1
  <2> QED BY <2>1, <2>2, <2>3 DEF CallEffect, Launches, Ends
<1> QED BY <1>2, <1>3, <1>4, <1>5 DEF OwnBooks

\* After a crash no loop is active.
LEMMA CrashKeepsOne ==
  ASSUME Anew
  PROVE  OneAtATime' /\ \A l \in Loops : ~Active(l)'
<1>1. \A l \in Loops : ~Active(l)'
  BY DEF Anew, Active, Live
<1> QED BY <1>1 DEF Anew, OneAtATime

LEMMA CrashKeepsBooks ==
  ASSUME SessionTyped, FileIsBehind, OwnBooks, crashes \in Nat, Crash \/ CrashInReset
  PROVE  OwnBooks'
<1>1. Anew /\ generation' \in Generations
  BY CrashIs, CrashInResetIs DEF FileIsBehind
<1>2. PICK filled \in Nat, recorded \in Nat :
        /\ TakesUp(filled, recorded) /\ recorded <= filled
        /\ \/ disk' = {} /\ filled = 0 /\ recorded = 0
           \/ /\ disk' = disk
              /\ \A saved \in disk : saved.ledger = filled /\ saved.tracked = recorded
              /\ disk # {}
  <2>1. CASE Crash
    <3>1. \A saved \in disk : /\ saved.ledger \in Nat /\ saved.tracked \in Nat
                              /\ saved.tracked <= saved.ledger
      BY DEF SessionTyped, SavedType, OwnBooks
    <3>2. \A saved, other \in disk : saved = other
      BY DEF FileIsBehind
    <3>3. CASE \E saved \in disk : TakesUp(saved.ledger, saved.tracked)
      BY <2>1, <3>1, <3>2, <3>3, CrashIs
    <3>4. CASE disk = {} /\ TakesUp(0, 0)
      BY <2>1, <3>4, CrashIs
    <3> QED BY <2>1, <3>3, <3>4, CrashIs
  <2>2. CASE CrashInReset
    BY <2>2, CrashInResetIs
  <2> QED BY <2>1, <2>2
<1>3. /\ ledger'[generation'] = filled /\ tracked'[generation'] = recorded
      /\ \A g \in Generations \ {generation'} : ledger'[g] = ledger[g] /\ tracked'[g] = tracked[g]
  BY <1>1, <1>2, TookUp
<1>4. \A g \in Generations : tracked'[g] <= ledger'[g]
  BY <1>2, <1>3 DEF OwnBooks
<1>5. \A saved \in disk' : saved.tracked <= saved.ledger
  BY <1>2 DEF OwnBooks
<1>6. Saved'
  BY <1>2, <1>3 DEF Saved
<1>7. \A l \in Loops : ~Active(l)'
  BY <1>1, CrashKeepsOne
<1> QED BY <1>4, <1>5, <1>6, <1>7 DEF OwnBooks

\* The kill switch is no part of the invariant.
LEMMA SameState ==
  ASSUME SInv, UNCHANGED <<callVars, loops, bookVars, disk>>, blocked' \in BOOLEAN
  PROVE  SInv'
<1>1. UNCHANGED <<running, task, loops, calls, marketStarted, overlapped, crashes, generation, ledger,
                  tracked, rows, disk>>
  BY DEF callVars, bookVars, records
<1>2. SessionTyped' /\ FileIsBehind'
  BY <1>1 DEF SInv, SessionInv, SessionTyped, FileIsBehind
<1>3. ~overlapped' => OneAtATime' /\ OwnBooks'
  BY <1>1 DEF SInv, SessionInv, OneAtATime, OwnBooks, Saved, Active, Live
<1> QED BY <1>1, <1>2, <1>3 DEF SInv, SessionInv

\* The invariant is inductive.
LEMMA NextKeepsFine == SInv /\ [Next]_vars => SInv'
<1> SUFFICES ASSUME SInv, [Next]_vars PROVE SInv'
  OBVIOUS
<1>0. /\ SessionTyped /\ FileIsBehind /\ crashes \in Nat
      /\ ~overlapped => OneAtATime /\ OwnBooks
  BY DEF SInv, SessionInv
<1>1. ASSUME NEW c \in Calls, Call(c) PROVE SInv'
  <2>1. SessionTyped' /\ FileIsBehind'
    BY <1>0, <1>1, CallKeepsTypes
  <2>2. /\ UNCHANGED <<crashes, ledger, tracked>> /\ CallEffect(c)
        /\ overlapped' = (overlapped \/ \E d \in Calls \ {c} : calls[d] # Idle)
    BY <1>0, <1>1, CallSteps
  <2>3. ~overlapped' => OneAtATime' /\ OwnBooks'
    BY <1>0, <2>1, <2>2, CallKeepsOne, CallKeepsBooks
  <2> QED BY <1>0, <2>1, <2>2, <2>3 DEF SInv, SessionInv
<1>2. ASSUME NEW l \in Loops, Loop(l) PROVE SInv'
  <2>1. /\ UNCHANGED <<callVars, blocked, generation>>
        /\ Turns(l) \/ \E filled \in 0 .. 1 : Executes(l, filled)
    BY <1>0, <1>2, LoopSteps
  <2>2. overlapped' = overlapped /\ crashes' = crashes
    BY <2>1 DEF callVars
  <2>3. SessionTyped' /\ FileIsBehind'
    BY <1>0, <2>1, TurnKeepsTypes, FillKeepsTypes
  <2>4. 0 \in 0 .. 1
    OBVIOUS
  <2>5. ~overlapped' => OneAtATime' /\ OwnBooks'
    BY <1>0, <2>1, <2>2, <2>4, LoopKeepsOne, TurnKeepsBooks, FillKeepsBooks
  <2> QED BY <1>0, <2>2, <2>3, <2>5 DEF SInv, SessionInv
<1>3. CASE Switch \/ UNCHANGED vars
  <2>1. UNCHANGED <<callVars, loops, bookVars, disk>> /\ blocked' \in BOOLEAN
    BY <1>0, <1>3 DEF Switch, vars, SessionTyped
  <2> QED BY <2>1, SameState
<1>4. CASE Crash \/ CrashInReset
  <2>1. SessionTyped' /\ FileIsBehind'
    BY <1>0, <1>4, CrashKeepsTypes
  <2>2. Anew
    BY <1>0, <1>4, CrashIs, CrashInResetIs
  <2>3. overlapped' = overlapped /\ OneAtATime'
    BY <2>2, CrashKeepsOne DEF Anew
  <2>4. crashes' \in Nat
    BY <1>0, <1>4 DEF Crash, CrashInReset, NewProcess
  <2>5. ~overlapped' => OwnBooks'
    BY <1>0, <1>4, <2>3, CrashKeepsBooks
  <2> QED BY <2>1, <2>3, <2>4, <2>5 DEF SInv, SessionInv
<1> QED BY <1>1, <1>2, <1>3, <1>4 DEF Next

LEMMA SessionInvariance == Spec => []SInv
  BY InitIsFine, NextKeepsFine, PTL DEF Spec

-----------------------------------------------------------------------------
(* The theorems.                                                           *)

\* A session that says it runs has a loop that will go on, however many calls
\* overlap: a stop that races a start never leaves it flagged as running with
\* nothing behind the flag (start, stop).
THEOREM FlagHasLoop == Spec => []RunningHasLoop
<1>1. Init => RunningHasLoop
  BY DEF Init, RunningHasLoop
<1>2. SInv /\ RunningHasLoop /\ [Next]_vars => RunningHasLoop'
  <2> SUFFICES ASSUME SInv, RunningHasLoop, [Next]_vars, running'
               PROVE  \E l \in Loops : Active(l)'
    BY DEF RunningHasLoop, Active, Live
  <2>0. SessionTyped /\ FileIsBehind /\ crashes \in Nat /\ (running => \E l \in Loops : Active(l))
    BY DEF SInv, SessionInv, RunningHasLoop, Active
  <2>1. ASSUME NEW c \in Calls, Call(c) PROVE \E l \in Loops : Active(l)'
    <3>1. CallEffect(c)
      BY <2>0, <2>1, CallSteps
    <3>2. CASE Launches(c)
      <4>1. PICK l \in Loops, engine \in Generations : Moves(l, "ready", FALSE, engine, 0)
        BY <3>2 DEF Launches
      <4>2. loops'[l].pc = "ready" /\ loops'[l].cancelled = FALSE
        BY <4>1, Moved
      <4> QED BY <4>2 DEF Active, Live
    <3>3. CASE Hydrates(c) \/ Ends(c)
      <4>1. running /\ loops' = loops
        BY <3>3 DEF Hydrates, Ends
      <4> QED BY <2>0, <4>1 DEF Active, Live
    <3>4. CASE Cancels(c)
      BY <3>4 DEF Cancels
    <3> QED BY <3>1, <3>2, <3>3, <3>4 DEF CallEffect
  <2>2. ASSUME NEW l \in Loops, Loop(l) PROVE \E k \in Loops : Active(k)'
    <3>1. /\ running
          /\ Turns(l) \/ \E filled \in 0 .. 1 : Executes(l, filled)
      BY <2>0, <2>2, LoopSteps DEF callVars
    <3>2. 0 \in 0 .. 1
      OBVIOUS
    <3> QED BY <2>0, <3>1, <3>2, StillActive
  <2>3. CASE Switch \/ UNCHANGED vars
    BY <2>0, <2>3 DEF Switch, vars, callVars, Active, Live
  <2>4. CASE Crash \/ CrashInReset
    BY <2>4 DEF Crash, CrashInReset, NewProcess
  <2> QED BY <2>1, <2>2, <2>3, <2>4 DEF Next
<1> QED BY <1>1, <1>2, SessionInvariance, PTL DEF Spec

\* While API calls do not overlap, no two loops trade: a second one would run
\* cycles over the same portfolio (start cancels none that runs).
THEOREM NoTwoLoops == Spec => []OneLoop
<1>1. SInv => OneLoop
  BY DEF SInv, SessionInv, OneAtATime, OneLoop, Active
<1> QED BY <1>1, SessionInvariance, PTL

\* While API calls do not overlap, the tracker of a session never records more
\* fills than its portfolio has ("Never fabricates values", tracker.py), across
\* stops, resets and processes that die.
THEOREM TrackerNeverFabricates == Spec => []NeverFabricates
<1>1. SInv => NeverFabricates
  BY DEF SInv, SessionInv, OwnBooks, NeverFabricates
<1> QED BY <1>1, SessionInvariance, PTL

\* The ledgers after a step of a call, and after one of a loop that fills nothing.
LEMMA NothingFilled ==
  ASSUME SInv, NEW c \in Calls, Call(c)
  PROVE  ledger' = ledger
  BY CallSteps DEF SInv, SessionInv

\* A process that dies leaves no portfolio with more fills than it had.
LEMMA CrashFillsNone ==
  ASSUME SInv, Crash \/ CrashInReset
  PROVE  \A g \in Generations : ledger'[g] <= ledger[g]
<1>0. SessionTyped /\ FileIsBehind /\ crashes \in Nat /\ generation \in Generations
  BY DEF SInv, SessionInv, FileIsBehind
<1>1. \A g \in Generations : ledger[g] \in Nat
  BY <1>0 DEF SessionTyped
<1>2. generation' \in Generations
  BY <1>0, CrashIs, CrashInResetIs
<1>3. PICK filled \in Nat, recorded \in Nat :
        TakesUp(filled, recorded) /\ filled <= ledger[generation']
  <2>1. CASE Crash
    <3>1. \A saved \in disk : /\ saved.ledger \in Nat /\ saved.tracked \in Nat
                              /\ saved.ledger <= ledger[generation]
      BY <1>0 DEF SessionTyped, SavedType, FileIsBehind
    <3> QED BY <1>0, <1>1, <2>1, <3>1, CrashIs
  <2>2. CASE CrashInReset
    BY <1>0, <1>1, <2>2, CrashInResetIs
  <2> QED BY <2>1, <2>2
<1>4. /\ ledger'[generation'] = filled
      /\ \A g \in Generations \ {generation'} : ledger'[g] = ledger[g]
  BY <1>0, <1>2, <1>3, TookUp
<1> QED BY <1>1, <1>3, <1>4

\* While API calls do not overlap, only a running session trades, and only
\* the portfolio it has by now (Place, with the engine of the run under way).
THEOREM OwnPortfolioOnly == Spec => TradesOwnPortfolio
<1>1. SInv /\ [Next]_vars =>
        [~overlapped => \A g \in Generations : ledger'[g] > ledger[g] => running /\ g = generation]_vars
  <2> SUFFICES ASSUME SInv, Next, ~overlapped, NEW g \in Generations, ledger'[g] > ledger[g]
               PROVE  running /\ g = generation
    OBVIOUS
  <2>0. /\ SessionTyped /\ FileIsBehind /\ OneAtATime /\ OwnBooks
        /\ ledger[g] \in Nat
    BY DEF SInv, SessionInv, SessionTyped
  <2>1. ASSUME NEW l \in Loops, Loop(l) PROVE running /\ g = generation
    <3>1. Turns(l) \/ \E filled \in 0 .. 1 : Executes(l, filled)
      BY <2>0, <2>1, LoopSteps
    <3>2. CASE Turns(l)
      <4>1. ledger' = ledger
        BY <3>2 DEF Turns, SameBooks
      <4> QED BY <2>0, <4>1
    <3>3. CASE \E filled \in 0 .. 1 : Executes(l, filled)
      <4>1. PICK filled \in 0 .. 1 : Executes(l, filled)
        BY <3>3
      <4>2. g = loops[l].engine
        BY <2>0, <4>1, TypesOfFilled
      <4>3. Active(l) /\ loops[l].pc = "placing"
        BY <4>1 DEF Executes
      <4> QED BY <2>0, <4>2, <4>3 DEF OneAtATime, OwnBooks
    <3> QED BY <3>1, <3>2, <3>3
  <2>2. CASE \E c \in Calls : Call(c)
    BY <2>0, <2>2, NothingFilled
  <2>3. CASE Switch
    BY <2>0, <2>3 DEF Switch, bookVars
  <2>4. CASE Crash \/ CrashInReset
    <3>1. ledger'[g] <= ledger[g] /\ ledger'[g] \in Nat
      BY <2>0, <2>4, CrashFillsNone, CrashKeepsTypes DEF SInv, SessionTyped
    <3> QED BY <2>0, <3>1
  <2> QED BY <2>1, <2>2, <2>3, <2>4 DEF Next
<1> QED BY <1>1, SessionInvariance, PTL DEF Spec, TradesOwnPortfolio

\* No process ever goes back behind a reset, neither behind one that returned
\* nor behind one that died after it had removed the file (reset, load).
THEOREM ResetsStick == Spec => ResetSticks
<1>1. SInv /\ [Next]_vars => [generation' >= generation]_vars
  <2> SUFFICES ASSUME SInv, Next PROVE generation' >= generation
    OBVIOUS
  <2>0. SessionTyped /\ FileIsBehind /\ crashes \in Nat /\ generation \in Nat
    BY Names DEF SInv, SessionInv, FileIsBehind
  <2>1. generation' = generation \/ generation' = generation + 1
    <3>1. ASSUME NEW c \in Calls, Call(c) PROVE generation' = generation \/ generation' = generation + 1
      <4>1. CallEffect(c)
        BY <2>0, <3>1, CallSteps
      <4> QED BY <4>1 DEF CallEffect, Launches, Hydrates, Cancels, Ends
    <3>2. ASSUME NEW l \in Loops, Loop(l) PROVE generation' = generation
      BY <2>0, <3>2, LoopSteps
    <3>3. CASE Switch
      BY <3>3 DEF Switch, bookVars
    <3>4. CASE Crash \/ CrashInReset
      BY <2>0, <3>4, CrashIs, CrashInResetIs
    <3> QED BY <3>1, <3>2, <3>3, <3>4 DEF Next
  <2> QED BY <2>0, <2>1
<1> QED BY <1>1, SessionInvariance, PTL DEF Spec, ResetSticks

\* Once the switch blocks, only orders already in their latency are filled,
\* each loop's one, and none is added, however calls overlap (run_once evaluates
\* each opportunity against the switch; the executor does not).
THEOREM BlockedDrains == Spec => BlockDrains
<1>1. SInv /\ [Next]_vars =>
        [blocked /\ blocked' =>
           Placing' \subseteq Placing /\ (ledger' # ledger => Placing' # Placing)]_vars
  <2> SUFFICES ASSUME SInv, Next, blocked, blocked'
               PROVE  Placing' \subseteq Placing /\ (ledger' # ledger => Placing' # Placing)
    OBVIOUS
  <2>0. SessionTyped /\ FileIsBehind
    BY DEF SInv, SessionInv
  <2>1. ASSUME NEW c \in Calls, Call(c)
        PROVE  Placing' \subseteq Placing /\ ledger' = ledger
    <3>1. CallEffect(c) /\ ledger' = ledger
      BY <2>0, <2>1, CallSteps
    <3>2. CASE Launches(c)
      <4>1. PICK l \in Loops, engine \in Generations : Moves(l, "ready", FALSE, engine, 0)
        BY <3>2 DEF Launches
      <4>2. loops'[l].pc = "ready" /\ \A k \in Loops \ {l} : loops'[k] = loops[k]
        BY <4>1, Moved
      <4> QED BY <3>1, <4>2 DEF Placing
    <3>3. CASE Cancels(c)
      <4>1. /\ task \in Loops
            /\ Moves(task, loops[task].pc, Live(task), loops[task].engine, loops[task].unrecorded)
        BY <3>3 DEF Cancels
      <4>2. loops'[task].pc = loops[task].pc /\ \A k \in Loops \ {task} : loops'[k] = loops[k]
        BY <4>1, Moved
      <4> QED BY <3>1, <4>2 DEF Placing
    <3>4. CASE Hydrates(c) \/ Ends(c)
      BY <3>1, <3>4 DEF Hydrates, Ends, Placing
    <3> QED BY <3>1, <3>2, <3>3, <3>4 DEF CallEffect
  <2>2. ASSUME NEW l \in Loops, Loop(l)
        PROVE  Placing' \subseteq Placing /\ (ledger' # ledger => Placing' # Placing)
    <3>1. Turns(l) \/ \E filled \in 0 .. 1 : Executes(l, filled)
      BY <2>0, <2>2, LoopSteps
    <3>2. loops'[l].pc # "placing" /\ \A k \in Loops \ {l} : loops'[k] = loops[k]
      <4>1. PICK pc \in {"ready", "resting", "over"} :
              \E cancelled, engine : Moves(l, pc, cancelled, engine, 0)
        BY <3>1 DEF Turns, Executes
      <4>2. PICK cancelled, engine : Moves(l, pc, cancelled, engine, 0)
        BY <4>1
      <4> QED BY <4>1, <4>2, Moved
    <3>3. ledger' # ledger => loops[l].pc = "placing"
      BY <3>1 DEF Turns, Executes, SameBooks
    <3>4. Placing' \subseteq Placing /\ l \notin Placing'
      BY <3>2 DEF Placing
    <3>5. loops[l].pc = "placing" => l \in Placing
      BY DEF Placing
    <3> QED BY <3>3, <3>4, <3>5
  <2>3. CASE Switch
    BY <2>3 DEF Switch
  <2>4. CASE Crash \/ CrashInReset
    BY <2>4 DEF Crash, CrashInReset, NewProcess
  <2> QED BY <2>1, <2>2, <2>3, <2>4 DEF Next
<1> QED BY <1>1, SessionInvariance, PTL DEF Spec, BlockDrains

\* After calls that did not overlap a session at rest loses nothing when the
\* process dies, unless it dies in a reset ("stop loop and persist state",
\* runner.py; "guarantees restart survival", store.py).
THEOREM RestIsSurvived == Spec => RestSurvives
<1>1. SInv /\ [Next]_vars =>
        [AtRest /\ ~overlapped /\ crashes' # crashes /\ generation' = generation
           => UNCHANGED <<ledger, tracked>>]_vars
  <2> SUFFICES ASSUME SInv, Next, AtRest, ~overlapped, crashes' # crashes, generation' = generation
               PROVE  UNCHANGED <<ledger, tracked>>
    OBVIOUS
  <2>0. /\ SessionTyped /\ FileIsBehind /\ OwnBooks /\ crashes \in Nat
        /\ generation \in Nat /\ generation \in Generations
    BY Names DEF SInv, SessionInv, FileIsBehind
  <2>1. Crash
    <3>1. ~Switch /\ ~\E l \in Loops : Loop(l)
      BY <2>0, LoopSteps DEF Switch, callVars
    <3>2. ~\E c \in Calls : Call(c)
      BY <2>0, CallSteps
    <3>3. ~CrashInReset
      <4>1. CrashInReset => generation' = generation + 1
        BY DEF CrashInReset
      <4> QED BY <2>0, <4>1
    <3> QED BY <3>1, <3>2, <3>3 DEF Next
  <2>2. Saved
    BY <2>0, IdleIsOne DEF AtRest, OwnBooks
  <2>3. TakesUp(ledger[generation], tracked[generation])
    <3>1. CASE \E saved \in disk : TakesUp(saved.ledger, saved.tracked)
      BY <2>2, <3>1 DEF Saved
    <3>2. CASE disk = {} /\ TakesUp(0, 0)
      BY <2>2, <3>2 DEF Saved
    <3> QED BY <2>0, <2>1, <3>1, <3>2, CrashIs
  <2>4. ledger \in [Generations -> Nat] /\ tracked \in [Generations -> Nat]
    BY <2>0 DEF SessionTyped
  <2> QED BY <2>0, <2>3, <2>4 DEF TakesUp
<1> QED BY <1>1, SessionInvariance, PTL DEF Spec, RestSurvives

-----------------------------------------------------------------------------
(* The performance tracker: the folds that record a run and add up trades. *)

SumFold(seq, g) ==
  g = [s \in SUBSET DOMAIN seq |-> IF s = {} THEN 0 ELSE g[s \ {Top(s)}] + seq[Top(s)]]

\* The sum of a sequence, by its recursive equation over sets of indices.
LEMMA SumOfIsChosen ==
  ASSUME NEW seq
  PROVE  SumOf(seq) = (CHOOSE g : SumFold(seq, g))[DOMAIN seq]
  BY DEF SumOf, FoldLeft, MapThenFoldSet, Max, Top, SumFold

RecordFold(t, seq, g) ==
  g = [s \in SUBSET DOMAIN seq |-> IF s = {} THEN t ELSE Record(g[s \ {Top(s)}], seq[Top(s)])]

Recorded(t, results) == FoldLeft(Record, t, results)

\* Likewise for the tracker that a run's results lead to.
LEMMA RecordIsChosen ==
  ASSUME NEW t, NEW seq
  PROVE  Recorded(t, seq) = (CHOOSE g : RecordFold(t, seq, g))[DOMAIN seq]
  BY DEF Recorded, FoldLeft, MapThenFoldSet, Max, Top, RecordFold

\* Folding a sequence of integers by addition runs through the sums of its
\* first i elements.
LEMMA SumIsOfSteps ==
  ASSUME NEW seq \in Seq(Int)
  PROVE  \E h \in [0 .. Len(seq) -> Int] :
           /\ h[0] = 0 /\ h[Len(seq)] = SumOf(seq)
           /\ \A i \in 1 .. Len(seq) : h[i] = h[i - 1] + seq[i]
<1> DEFINE S == 1 .. Len(seq)
           step == [p \in Int \X S |-> p[1] + seq[p[2]]]
<1>1. /\ Len(seq) \in Nat /\ DOMAIN seq = S /\ IsFiniteSet(S)
      /\ \A s \in SUBSET S : s # {} => Top(s) \in s
      /\ \A i \in S : seq[i] \in Int
  <2>1. IsFiniteSet(S)
    BY FS_Interval
  <2>2. ASSUME NEW s \in SUBSET S, s # {} PROVE Top(s) \in s
    BY <2>2, TopIsLargest
  <2> QED BY <2>1, <2>2
<1>2. step \in [Int \X S -> Int] /\ \A a \in Int, i \in S : step[<<a, i>>] = a + seq[i]
  BY <1>1
<1>3. PICK f \in [SUBSET S -> Int] : Folded(0, step, S, f)
  <2> DEFINE T == Int
             base == 0
  <2>1. base \in T /\ step \in [T \X S -> T]
    BY <1>2
  <2> HIDE DEF S, step, T, base
  <2>2. \E f \in [SUBSET S -> T] : Folded(base, step, S, f)
    BY <1>1, <2>1, FoldsExist
  <2> QED BY <2>2 DEF T, base
<1>4. SumFold(seq, f)
  <2>1. \A s \in SUBSET S : s # {} => f[s \ {Top(s)}] \in Int /\ Top(s) \in S
    BY <1>1, <1>3
  <2> HIDE DEF S, step
  <2>2. f = [s \in SUBSET S |-> IF s = {} THEN 0 ELSE f[s \ {Top(s)}] + seq[Top(s)]]
    BY <1>2, <1>3, <2>1 DEF Folded
  <2> QED BY <1>1, <2>2 DEF SumFold
<1> DEFINE g == CHOOSE g : SumFold(seq, g)
<1>5. SumFold(seq, g) /\ SumOf(seq) = g[S]
  BY <1>1, <1>4, SumOfIsChosen
<1> HIDE DEF g, step
<1>6. \A s \in SUBSET S : g[s] = IF s = {} THEN 0 ELSE g[s \ {Top(s)}] + seq[Top(s)]
  BY <1>1, <1>5 DEF SumFold
<1> DEFINE h == [i \in 0 .. Len(seq) |-> g[1 .. i]]
<1>7. h[0] = 0 /\ h[Len(seq)] = SumOf(seq)
  <2>1. 1 .. 0 = {}
    OBVIOUS
  <2>2. g[{}] = 0
    <3> HIDE DEF S
    <3> QED BY <1>6
  <2>3. h[0] = g[1 .. 0] /\ h[Len(seq)] = g[S]
    BY <1>1
  <2> QED BY <1>5, <2>1, <2>2, <2>3
<1>8. \A i \in 1 .. Len(seq) : h[i] = h[i - 1] + seq[i]
  <2> SUFFICES ASSUME NEW i \in 1 .. Len(seq) PROVE h[i] = h[i - 1] + seq[i]
    OBVIOUS
  <2>1. g[1 .. i] = g[1 .. (i - 1)] + seq[i]
    BY <1>1, <1>6, FirstIndices
  <2> QED BY <1>1, <2>1
<1>9. h \in [0 .. Len(seq) -> Int]
  <2> DEFINE N == {k \in Nat : k <= Len(seq) => h[k] \in Int}
  <2>1. 0 \in N
    BY <1>7
  <2>2. ASSUME NEW k \in Nat, k \in N PROVE k + 1 \in N
    <3> HIDE DEF h
    <3>1. CASE k + 1 <= Len(seq)
      <4>1. k + 1 \in 1 .. Len(seq) /\ (k + 1) - 1 = k /\ h[k] \in Int
        BY <1>1, <2>2, <3>1
      <4>2. h[k + 1] = h[k] + seq[k + 1]
        BY <1>8, <4>1
      <4> QED BY <1>1, <4>1, <4>2
    <3> QED BY <3>1
  <2>3. Nat \subseteq N
    <3> HIDE DEF N
    <3> QED BY <2>1, <2>2, NatByInduction
  <2>4. \A k \in 0 .. Len(seq) : h[k] \in Int
    <3> HIDE DEF h
    <3> QED BY <1>1, <2>3
  <2> QED BY <2>4
<1> HIDE DEF h
<1> QED BY <1>7, <1>8, <1>9

\* One integer more adds itself.
LEMMA SumOfAppend ==
  ASSUME NEW seq \in Seq(Int), NEW n \in Int
  PROVE  /\ SumOf(seq) \in Int
         /\ SumOf(Append(seq, n)) = SumOf(seq) + n
<1> DEFINE more == Append(seq, n)
           l == Len(seq)
<1>1. /\ more \in Seq(Int) /\ l \in Nat /\ Len(more) = l + 1 /\ more[l + 1] = n
      /\ \A i \in 1 .. l : more[i] = seq[i]
  OBVIOUS
<1>2. PICK h \in [0 .. l -> Int] :
        /\ h[0] = 0 /\ h[l] = SumOf(seq) /\ \A i \in 1 .. l : h[i] = h[i - 1] + seq[i]
  BY SumIsOfSteps
<1>3. PICK m \in [0 .. Len(more) -> Int] :
        /\ m[0] = 0 /\ m[Len(more)] = SumOf(more)
        /\ \A i \in 1 .. Len(more) : m[i] = m[i - 1] + more[i]
  <2> HIDE DEF more
  <2> QED BY <1>1, SumIsOfSteps
<1> HIDE DEF more, l
<1> DEFINE N == {k \in Nat : k <= l => h[k] = m[k]}
<1>4. 0 \in N
  BY <1>2, <1>3
<1>5. ASSUME NEW k \in Nat, k \in N PROVE k + 1 \in N
  <2>1. CASE k + 1 <= l
    <3>1. k + 1 \in 1 .. l /\ k + 1 \in 1 .. Len(more) /\ (k + 1) - 1 = k /\ h[k] = m[k]
      BY <1>1, <1>5, <2>1
    <3> QED BY <1>1, <1>2, <1>3, <3>1
  <2> QED BY <2>1
<1>6. Nat \subseteq N
  <2> HIDE DEF N
  <2> QED BY <1>4, <1>5, NatByInduction
<1>7. h[l] = m[l] /\ h[l] \in Int
  BY <1>1, <1>2, <1>6
<1>8. m[l + 1] = m[(l + 1) - 1] + more[l + 1] /\ (l + 1) - 1 = l
  BY <1>1, <1>3
<1>9. SumOf(more) = SumOf(seq) + n
  BY <1>1, <1>2, <1>3, <1>7, <1>8
<1> QED BY <1>2, <1>7, <1>9 DEF more

\* Nothing adds up to nothing.
LEMMA SumOfEmpty == SumOf(<<>>) = 0
<1>1. <<>> \in Seq(Int) /\ Len(<<>>) = 0
  OBVIOUS
<1>2. PICK h \in [0 .. Len(<<>>) -> Int] : h[0] = 0 /\ h[Len(<<>>)] = SumOf(<<>>)
  BY <1>1, SumIsOfSteps
<1> QED BY <1>1, <1>2

\* h holds the tracker after each of the results that are recorded.
Steps(h, t, results) ==
  /\ h[0] = t /\ h[Len(results)] = Recorded(t, results)
  /\ \A i \in 1 .. Len(results) : h[i] = Record(h[i - 1], results[i])

\* Recording the results of a run passes through trackers of any set that is
\* closed under recording one of them.
LEMMA RecordedStepwise ==
  ASSUME NEW T, NEW t \in T, NEW R, NEW seq \in Seq(R), \A u \in T, o \in R : Record(u, o) \in T
  PROVE  \E h \in [0 .. Len(seq) -> T] : Steps(h, t, seq)
<1> DEFINE S == 1 .. Len(seq)
           step == [p \in T \X S |-> Record(p[1], seq[p[2]])]
<1>1. /\ Len(seq) \in Nat /\ DOMAIN seq = S /\ IsFiniteSet(S)
      /\ \A s \in SUBSET S : s # {} => Top(s) \in s
      /\ \A i \in S : seq[i] \in R
  <2>1. IsFiniteSet(S)
    BY FS_Interval
  <2>2. ASSUME NEW s \in SUBSET S, s # {} PROVE Top(s) \in s
    BY <2>2, TopIsLargest
  <2> QED BY <2>1, <2>2
<1>2. step \in [T \X S -> T] /\ \A a \in T, i \in S : step[<<a, i>>] = Record(a, seq[i])
  BY <1>1
<1>3. PICK f \in [SUBSET S -> T] : Folded(t, step, S, f)
  <2> HIDE DEF S, step
  <2> QED BY <1>1, <1>2, FoldsExist
<1>4. RecordFold(t, seq, f)
  <2>1. \A s \in SUBSET S : s # {} => f[s \ {Top(s)}] \in T /\ Top(s) \in S
    BY <1>1, <1>3
  <2> HIDE DEF S, step
  <2>2. f = [s \in SUBSET S |-> IF s = {} THEN t ELSE Record(f[s \ {Top(s)}], seq[Top(s)])]
    BY <1>2, <1>3, <2>1 DEF Folded
  <2> QED BY <1>1, <2>2 DEF RecordFold
<1> DEFINE g == CHOOSE g : RecordFold(t, seq, g)
<1>5. RecordFold(t, seq, g) /\ Recorded(t, seq) = g[S]
  BY <1>1, <1>4, RecordIsChosen
<1> HIDE DEF g, step
<1>6. \A s \in SUBSET S : g[s] = IF s = {} THEN t ELSE Record(g[s \ {Top(s)}], seq[Top(s)])
  BY <1>1, <1>5 DEF RecordFold
<1> DEFINE h == [i \in 0 .. Len(seq) |-> g[1 .. i]]
<1>7. h[0] = t /\ h[Len(seq)] = Recorded(t, seq)
  <2>1. 1 .. 0 = {}
    OBVIOUS
  <2>2. g[{}] = t
    <3> HIDE DEF S
    <3> QED BY <1>6
  <2>3. h[0] = g[1 .. 0] /\ h[Len(seq)] = g[S]
    BY <1>1
  <2> QED BY <1>5, <2>1, <2>2, <2>3
<1>8. \A i \in 1 .. Len(seq) : h[i] = Record(h[i - 1], seq[i])
  <2> SUFFICES ASSUME NEW i \in 1 .. Len(seq) PROVE h[i] = Record(h[i - 1], seq[i])
    OBVIOUS
  <2>1. g[1 .. i] = Record(g[1 .. (i - 1)], seq[i])
    BY <1>1, <1>6, FirstIndices
  <2>2. h[i] = g[1 .. i] /\ h[i - 1] = g[1 .. (i - 1)]
    BY <1>1
  <2> QED BY <2>1, <2>2
<1>9. h \in [0 .. Len(seq) -> T]
  <2> DEFINE N == {k \in Nat : k <= Len(seq) => h[k] \in T}
  <2>1. 0 \in N
    BY <1>7
  <2>2. ASSUME NEW k \in Nat, k \in N PROVE k + 1 \in N
    <3> HIDE DEF h
    <3>1. CASE k + 1 <= Len(seq)
      <4>1. k + 1 \in 1 .. Len(seq) /\ (k + 1) - 1 = k /\ h[k] \in T
        BY <1>1, <2>2, <3>1
      <4>2. h[k + 1] = Record(h[k], seq[k + 1])
        BY <1>8, <4>1
      <4> QED BY <1>1, <4>1, <4>2
    <3> QED BY <3>1
  <2>3. Nat \subseteq N
    <3> HIDE DEF N
    <3> QED BY <2>1, <2>2, NatByInduction
  <2>4. \A k \in 0 .. Len(seq) : h[k] \in T
    <3> HIDE DEF h
    <3> QED BY <1>1, <2>3
  <2> QED BY <2>4
<1> HIDE DEF h
<1> QED BY <1>7, <1>8, <1>9 DEF Steps

\* Of a set of trackers that recording keeps, a run's results lead to no other.
LEMMA RecordedWithin ==
  ASSUME NEW T, NEW t \in T, NEW R, NEW seq \in Seq(R), \A u \in T, o \in R : Record(u, o) \in T
  PROVE  Recorded(t, seq) \in T
<1>1. PICK h \in [0 .. Len(seq) -> T] : h[Len(seq)] = Recorded(t, seq)
  BY RecordedStepwise DEF Steps
<1>2. Len(seq) \in 0 .. Len(seq)
  OBVIOUS
<1> QED BY <1>1, <1>2

-----------------------------------------------------------------------------
(* Types of the tracker, and what recording a result does to it.           *)

OpportunityType == [pair : Pairs, status : Statuses]
ResultType == [pair : Pairs, outcome : Outcomes]
StatsType ==
  [opportunities : Nat, approved : Nat, executed : Nat, failures : Nat,
   trades : Nat, wins : Nat, net : Int]
DayType == [date : Nat, start : Int, end : Int, net : Int, trades : Nat]
TrackerType ==
  [opportunities : Seq(OpportunityType), approved : Nat, rejected : Nat, executed : Nat,
   failures : Nat, fees : Nat, pnls : Seq(Int), realized : Int, pairs : [Pairs -> StatsType],
   equity : Equities, peak : Equities, worst : Int, days : Seq(DayType)]

\* What becomes of an opportunity in the end.
Final(outcome) ==
  CASE outcome = "rejected" -> "REJECTED"
    [] outcome \in {"failed", "resting"} -> "EXECUTED"
    [] outcome = "gain" -> "PROFITABLE"
    [] outcome \in {"even", "loss"} -> "UNPROFITABLE"

One(condition) == IF condition THEN 1 ELSE 0

\* What replacing the last element of a sequence gives.
LEMMA LastReplaced ==
  ASSUME NEW X, NEW s \in Seq(X), NEW x \in X, NEW y \in X, NEW n, n = Len(s) + 1
  PROVE  /\ Len(Append(s, x)) = n /\ Append(s, x)[n] = x
         /\ [Append(s, x) EXCEPT ![n] = y] = Append(s, y)
<1>1. n \in Nat
  OBVIOUS
<1> DEFINE m == Append(s, x)
           v == Append(s, y)
           u == [m EXCEPT ![n] = y]
<1>2. /\ m \in Seq(X) /\ Len(m) = n /\ DOMAIN m = 1 .. n /\ m[n] = x
      /\ \A i \in 1 .. n : i # n => m[i] = s[i]
  OBVIOUS
<1>3. /\ v \in Seq(X) /\ Len(v) = n /\ DOMAIN v = 1 .. n /\ v[n] = y
      /\ \A i \in 1 .. n : i # n => v[i] = s[i]
  OBVIOUS
<1>4. m \in [1 .. n -> X] /\ v = [i \in 1 .. n |-> v[i]]
  <2> HIDE DEF m, v
  <2> QED BY <1>2, <1>3, LenProperties
<1> HIDE DEF m, v
<1>5. u = [i \in 1 .. n |-> IF i = n THEN y ELSE m[i]]
  BY <1>1, <1>4
<1>6. u = v
  BY <1>2, <1>3, <1>4, <1>5
<1> QED BY <1>2, <1>6 DEF m, v

\* The status that is set is that of the last opportunity.
LEMMA SetStatusEffect ==
  ASSUME NEW t \in TrackerType, NEW opps \in Seq(OpportunityType), NEW x \in OpportunityType,
         t.opportunities = Append(opps, x), NEW status \in Statuses
  PROVE  /\ SetStatus(t, status) \in TrackerType
         /\ SetStatus(t, status) =
              [t EXCEPT !.opportunities = Append(opps, [pair |-> x.pair, status |-> status])]
<1> DEFINE n == Len(opps) + 1
           y == [pair |-> x.pair, status |-> status]
<1>1. y \in OpportunityType /\ [x EXCEPT !.status = status] = y
  BY DEF OpportunityType
<1>2. /\ Len(t.opportunities) = n /\ t.opportunities[n] = x
      /\ [t.opportunities EXCEPT ![n] = y] = Append(opps, y)
  <2> HIDE DEF n, y
  <2> QED BY <1>1, LastReplaced DEF n
<1>3. [t.opportunities EXCEPT ![n].status = status] = Append(opps, y)
  <2> HIDE DEF n, y
  <2> QED BY <1>1, <1>2
<1>4. SetStatus(t, status) = [t EXCEPT !.opportunities = Append(opps, y)]
  <2> HIDE DEF y
  <2> QED BY <1>2, <1>3 DEF SetStatus
<1>5. Append(opps, y) \in Seq(OpportunityType)
  BY <1>1
<1> HIDE DEF n, y
<1> QED BY <1>4, <1>5 DEF TrackerType, y

Opportunity(o, status) == [pair |-> o.pair, status |-> status]

\* The statistics by pair `u` are `s` with a `field` of the pair `q` one higher.
Counted(u, s, q, field) ==
  /\ u \in [Pairs -> StatsType]
  /\ \A p \in Pairs :
       /\ u[p].opportunities = s[p].opportunities + One(p = q /\ field = "opportunities")
       /\ u[p].executed = s[p].executed + One(p = q /\ field = "executed")
       /\ u[p].trades = s[p].trades + One(p = q /\ field = "trades")
       /\ u[p].wins = s[p].wins + One(p = q /\ field = "wins")

\* What is known of statistics of which one field of one pair has grown by one.
LEMMA CountedType ==
  ASSUME NEW u, NEW s, NEW q, NEW field, Counted(u, s, q, field)
  PROVE  u \in [Pairs -> StatsType]
  BY DEF Counted

\* ... of which only four are followed.
LEMMA CountedOther ==
  ASSUME NEW s \in [Pairs -> StatsType], NEW u, NEW q,
         Counted(u, s, q, "approved") \/ Counted(u, s, q, "failures"), NEW p \in Pairs
  PROVE  /\ u[p].opportunities = s[p].opportunities /\ u[p].executed = s[p].executed
         /\ u[p].trades = s[p].trades /\ u[p].wins = s[p].wins
<1>1. s[p].opportunities \in Nat /\ s[p].executed \in Nat /\ s[p].trades \in Nat /\ s[p].wins \in Nat
  BY DEF StatsType
<1> QED BY <1>1 DEF Counted, One

\* ... and what they are then.
LEMMA CountedOne ==
  ASSUME NEW s \in [Pairs -> StatsType], NEW u, NEW q,
         NEW field \in {"opportunities", "executed"}, Counted(u, s, q, field), NEW p \in Pairs
  PROVE  /\ u[p].opportunities = s[p].opportunities + One(p = q /\ field = "opportunities")
         /\ u[p].executed = s[p].executed + One(p = q /\ field = "executed")
         /\ u[p].trades = s[p].trades /\ u[p].wins = s[p].wins
<1>1. s[p].trades \in Nat /\ s[p].wins \in Nat
  BY DEF StatsType
<1> QED BY <1>1 DEF Counted, One

\* The updates of the actions are of this kind.
LEMMA CountedFields ==
  ASSUME NEW s \in [Pairs -> StatsType], NEW q \in Pairs
  PROVE  /\ Counted([s EXCEPT ![q].opportunities = @ + 1], s, q, "opportunities")
         /\ Counted([s EXCEPT ![q].approved = @ + 1], s, q, "approved")
         /\ Counted([s EXCEPT ![q].executed = @ + 1], s, q, "executed")
         /\ Counted([s EXCEPT ![q].failures = @ + 1], s, q, "failures")
<1>1. Counted([s EXCEPT ![q].opportunities = @ + 1], s, q, "opportunities")
  <2> DEFINE r == [s[q] EXCEPT !.opportunities = @ + 1]
             u == [s EXCEPT ![q] = r]
  <2>1. /\ r \in StatsType
        /\ r.opportunities = s[q].opportunities + One("opportunities" = "opportunities")
        /\ r.executed = s[q].executed + One("opportunities" = "executed")
        /\ r.trades = s[q].trades /\ r.wins = s[q].wins
    BY DEF StatsType, One
  <2>2. \A p \in Pairs : /\ s[p].opportunities \in Nat /\ s[p].executed \in Nat
                         /\ s[p].trades \in Nat /\ s[p].wins \in Nat
    BY DEF StatsType
  <2> HIDE DEF r
  <2>3. u \in [Pairs -> StatsType] /\ u[q] = r /\ \A p \in Pairs : p # q => u[p] = s[p]
    BY <2>1
  <2> HIDE DEF u
  <2>4. Counted(u, s, q, "opportunities")
    BY <2>1, <2>2, <2>3 DEF Counted, One
  <2>5. [s EXCEPT ![q].opportunities = @ + 1] = u
    BY DEF u, r
  <2> QED BY <2>4, <2>5
<1>2. Counted([s EXCEPT ![q].approved = @ + 1], s, q, "approved")
  <2> DEFINE r == [s[q] EXCEPT !.approved = @ + 1]
             u == [s EXCEPT ![q] = r]
  <2>1. /\ r \in StatsType
        /\ r.opportunities = s[q].opportunities + One("approved" = "opportunities")
        /\ r.executed = s[q].executed + One("approved" = "executed")
        /\ r.trades = s[q].trades /\ r.wins = s[q].wins
    BY DEF StatsType, One
  <2>2. \A p \in Pairs : /\ s[p].opportunities \in Nat /\ s[p].executed \in Nat
                         /\ s[p].trades \in Nat /\ s[p].wins \in Nat
    BY DEF StatsType
  <2> HIDE DEF r
  <2>3. u \in [Pairs -> StatsType] /\ u[q] = r /\ \A p \in Pairs : p # q => u[p] = s[p]
    BY <2>1
  <2> HIDE DEF u
  <2>4. Counted(u, s, q, "approved")
    BY <2>1, <2>2, <2>3 DEF Counted, One
  <2>5. [s EXCEPT ![q].approved = @ + 1] = u
    BY DEF u, r
  <2> QED BY <2>4, <2>5
<1>3. Counted([s EXCEPT ![q].executed = @ + 1], s, q, "executed")
  <2> DEFINE r == [s[q] EXCEPT !.executed = @ + 1]
             u == [s EXCEPT ![q] = r]
  <2>1. /\ r \in StatsType
        /\ r.opportunities = s[q].opportunities + One("executed" = "opportunities")
        /\ r.executed = s[q].executed + One("executed" = "executed")
        /\ r.trades = s[q].trades /\ r.wins = s[q].wins
    BY DEF StatsType, One
  <2>2. \A p \in Pairs : /\ s[p].opportunities \in Nat /\ s[p].executed \in Nat
                         /\ s[p].trades \in Nat /\ s[p].wins \in Nat
    BY DEF StatsType
  <2> HIDE DEF r
  <2>3. u \in [Pairs -> StatsType] /\ u[q] = r /\ \A p \in Pairs : p # q => u[p] = s[p]
    BY <2>1
  <2> HIDE DEF u
  <2>4. Counted(u, s, q, "executed")
    BY <2>1, <2>2, <2>3 DEF Counted, One
  <2>5. [s EXCEPT ![q].executed = @ + 1] = u
    BY DEF u, r
  <2> QED BY <2>4, <2>5
<1>4. Counted([s EXCEPT ![q].failures = @ + 1], s, q, "failures")
  <2> DEFINE r == [s[q] EXCEPT !.failures = @ + 1]
             u == [s EXCEPT ![q] = r]
  <2>1. /\ r \in StatsType
        /\ r.opportunities = s[q].opportunities + One("failures" = "opportunities")
        /\ r.executed = s[q].executed + One("failures" = "executed")
        /\ r.trades = s[q].trades /\ r.wins = s[q].wins
    BY DEF StatsType, One
  <2>2. \A p \in Pairs : /\ s[p].opportunities \in Nat /\ s[p].executed \in Nat
                         /\ s[p].trades \in Nat /\ s[p].wins \in Nat
    BY DEF StatsType
  <2> HIDE DEF r
  <2>3. u \in [Pairs -> StatsType] /\ u[q] = r /\ \A p \in Pairs : p # q => u[p] = s[p]
    BY <2>1
  <2> HIDE DEF u
  <2>4. Counted(u, s, q, "failures")
    BY <2>1, <2>2, <2>3 DEF Counted, One
  <2>5. [s EXCEPT ![q].failures = @ + 1] = u
    BY DEF u, r
  <2> QED BY <2>4, <2>5
<1> QED BY <1>1, <1>2, <1>3, <1>4

\* Trackers that differ from one in the fields the operations write.
LEMMA TrackerWith ==
  ASSUME NEW v \in TrackerType
  PROVE  /\ \A n \in Nat :
              [v EXCEPT !.rejected = n] \in TrackerType
         /\ \A n \in Nat :
              [v EXCEPT !.fees = n] \in TrackerType
         /\ \A n \in Nat, s \in [Pairs -> StatsType] :
              [v EXCEPT !.approved = n, !.pairs = s] \in TrackerType
         /\ \A n \in Nat, s \in [Pairs -> StatsType] :
              [v EXCEPT !.executed = n, !.pairs = s] \in TrackerType
         /\ \A n \in Nat, s \in [Pairs -> StatsType] :
              [v EXCEPT !.failures = n, !.pairs = s] \in TrackerType
         /\ \A l \in Seq(Int), r \in Int, s \in [Pairs -> StatsType] :
              [v EXCEPT !.pnls = l, !.realized = r, !.pairs = s] \in TrackerType
<1>1. \A n \in Nat :
        [v EXCEPT !.rejected = n] \in TrackerType
  BY DEF TrackerType
<1>2. \A n \in Nat :
        [v EXCEPT !.fees = n] \in TrackerType
  BY DEF TrackerType
<1>3. \A n \in Nat, s \in [Pairs -> StatsType] :
        [v EXCEPT !.approved = n, !.pairs = s] \in TrackerType
  BY DEF TrackerType
<1>4. \A n \in Nat, s \in [Pairs -> StatsType] :
        [v EXCEPT !.executed = n, !.pairs = s] \in TrackerType
  BY DEF TrackerType
<1>5. \A n \in Nat, s \in [Pairs -> StatsType] :
        [v EXCEPT !.failures = n, !.pairs = s] \in TrackerType
  BY DEF TrackerType
<1>6. \A l \in Seq(Int), r \in Int, s \in [Pairs -> StatsType] :
        [v EXCEPT !.pnls = l, !.realized = r, !.pairs = s] \in TrackerType
  BY DEF TrackerType
<1> QED BY <1>1, <1>2, <1>3, <1>4, <1>5, <1>6

\* The types of a tracker's fields.
LEMMA TrackerFields ==
  ASSUME NEW v \in TrackerType
  PROVE  /\ v.rejected \in Nat /\ v.fees \in Nat /\ v.approved \in Nat /\ v.executed \in Nat
         /\ v.failures \in Nat /\ v.realized \in Int /\ v.pnls \in Seq(Int)
         /\ v.pairs \in [Pairs -> StatsType] /\ v.opportunities \in Seq(OpportunityType)
         /\ v.days \in Seq(DayType) /\ v.equity \in Equities /\ v.peak \in Equities /\ v.worst \in Int
  BY DEF TrackerType

Kept(u, t, fields) == \A f \in fields : u[f] = t[f]
Untouched == {"equity", "peak", "worst", "days"}

\* record_detected.
LEMMA DetectedEffect ==
  ASSUME NEW t \in TrackerType, NEW o \in ResultType
  PROVE  LET u == RecordDetected(t, o) IN
         /\ u \in TrackerType
         /\ u.opportunities = Append(t.opportunities, Opportunity(o, "DETECTED"))
         /\ Counted(u.pairs, t.pairs, o.pair, "opportunities")
         /\ Kept(u, t, {"approved", "rejected", "executed", "failures", "fees", "pnls",
                        "realized"} \cup Untouched)
<1> DEFINE opps == Append(t.opportunities, Opportunity(o, "DETECTED"))
           pairs == [t.pairs EXCEPT ![o.pair].opportunities = @ + 1]
<1>1. opps \in Seq(OpportunityType)
  BY DEF TrackerType, ResultType, OpportunityType, Opportunity, Statuses
<1>2. o.pair \in Pairs /\ t.pairs \in [Pairs -> StatsType]
  BY DEF TrackerType, ResultType
<1>3. Counted(pairs, t.pairs, o.pair, "opportunities") /\ pairs \in [Pairs -> StatsType]
  BY <1>2, CountedFields, CountedType
<1>4. RecordDetected(t, o) = [t EXCEPT !.opportunities = opps, !.pairs = pairs]
  BY DEF RecordDetected, Opportunity
<1> HIDE DEF opps, pairs
<1>5. [t EXCEPT !.opportunities = opps, !.pairs = pairs] \in TrackerType
  BY <1>1, <1>3 DEF TrackerType
<1> QED BY <1>3, <1>4, <1>5 DEF TrackerType, opps, Kept, Untouched

\* record_risk, of an opportunity that is rejected.
LEMMA RejectedEffect ==
  ASSUME NEW t \in TrackerType, NEW o \in ResultType, NEW opps \in Seq(OpportunityType),
         t.opportunities = Append(opps, Opportunity(o, "DETECTED")), o.outcome = "rejected"
  PROVE  LET u == RecordRisk(t, o) IN
         /\ u \in TrackerType
         /\ u.opportunities = Append(opps, Opportunity(o, "REJECTED"))
         /\ u.rejected = t.rejected + 1
         /\ Kept(u, t, {"approved", "executed", "failures", "fees", "pnls", "realized", "pairs"}
                       \cup Untouched)
<1> DEFINE x == Opportunity(o, "DETECTED")
           after == Append(opps, Opportunity(o, "REJECTED"))
           v == SetStatus(t, "REJECTED")
<1>1. x \in OpportunityType /\ "REJECTED" \in Statuses /\ x.pair = o.pair
  BY DEF ResultType, OpportunityType, Opportunity, Statuses
<1>2. v \in TrackerType /\ v = [t EXCEPT !.opportunities = after]
  <2> HIDE DEF x, v
  <2> QED BY <1>1, SetStatusEffect DEF Opportunity, x, v
<1>3. RecordRisk(t, o) = [v EXCEPT !.rejected = @ + 1]
  BY DEF RecordRisk
<1> HIDE DEF v, after
<1>4. [v EXCEPT !.rejected = @ + 1] \in TrackerType
  <2> DEFINE n == v.rejected + 1
  <2>1. n \in Nat
    BY <1>2, TrackerFields
  <2> HIDE DEF n
  <2>2. [v EXCEPT !.rejected = n] \in TrackerType
    BY <1>2, <2>1, TrackerWith
  <2> QED BY <2>2 DEF n
<1> QED BY <1>2, <1>3, <1>4 DEF TrackerType, after, Kept, Untouched

\* record_risk, of one that is approved.
LEMMA ApprovedEffect ==
  ASSUME NEW t \in TrackerType, NEW o \in ResultType, NEW opps \in Seq(OpportunityType),
         t.opportunities = Append(opps, Opportunity(o, "DETECTED")), o.outcome # "rejected"
  PROVE  LET u == RecordRisk(t, o) IN
         /\ u \in TrackerType
         /\ u.opportunities = Append(opps, Opportunity(o, "APPROVED"))
         /\ u.approved = t.approved + 1
         /\ Counted(u.pairs, t.pairs, o.pair, "approved")
         /\ Kept(u, t, {"rejected", "executed", "failures", "fees", "pnls", "realized"}
                       \cup Untouched)
<1> DEFINE x == Opportunity(o, "DETECTED")
           after == Append(opps, Opportunity(o, "APPROVED"))
           v == SetStatus(t, "APPROVED")
           pairs == [t.pairs EXCEPT ![o.pair].approved = @ + 1]
<1>1. x \in OpportunityType /\ "APPROVED" \in Statuses /\ x.pair = o.pair
  BY DEF ResultType, OpportunityType, Opportunity, Statuses
<1>2. v \in TrackerType /\ v = [t EXCEPT !.opportunities = after]
  <2> HIDE DEF x, v
  <2> QED BY <1>1, SetStatusEffect DEF Opportunity, x, v
<1>3. o.pair \in Pairs /\ t.pairs \in [Pairs -> StatsType]
  BY DEF TrackerType, ResultType
<1>4. Counted(pairs, t.pairs, o.pair, "approved") /\ pairs \in [Pairs -> StatsType]
  BY <1>3, CountedFields, CountedType
<1>5. v.pairs = t.pairs
  <2> HIDE DEF v, after
  <2> QED BY <1>2 DEF TrackerType
<1>6. RecordRisk(t, o) = [v EXCEPT !.approved = @ + 1, !.pairs = pairs]
  BY <1>5 DEF RecordRisk
<1> HIDE DEF v, after, pairs
<1>7. [v EXCEPT !.approved = @ + 1, !.pairs = pairs] \in TrackerType
  <2> DEFINE n == v.approved + 1
  <2>1. n \in Nat
    BY <1>2, TrackerFields
  <2> HIDE DEF n
  <2>2. [v EXCEPT !.approved = n, !.pairs = pairs] \in TrackerType
    BY <1>2, <1>4, <2>1, TrackerWith
  <2> QED BY <2>2 DEF n
<1> QED BY <1>2, <1>4, <1>6, <1>7 DEF TrackerType, after, Kept, Untouched

\* What the executor's answer leaves, before it is looked at.
Executed(t, o) ==
  [SetStatus(t, "EXECUTED") EXCEPT !.executed = @ + 1, !.pairs[o.pair].executed = @ + 1]

\* record_execution, up to what became of the order.
LEMMA ExecutedEffect ==
  ASSUME NEW t \in TrackerType, NEW o \in ResultType, NEW opps \in Seq(OpportunityType),
         t.opportunities = Append(opps, Opportunity(o, "APPROVED"))
  PROVE  LET u == Executed(t, o) IN
         /\ u \in TrackerType
         /\ u.opportunities = Append(opps, Opportunity(o, "EXECUTED"))
         /\ u.executed = t.executed + 1
         /\ Counted(u.pairs, t.pairs, o.pair, "executed")
         /\ Kept(u, t, {"approved", "rejected", "failures", "fees", "pnls", "realized"}
                       \cup Untouched)
<1> DEFINE x == Opportunity(o, "APPROVED")
           after == Append(opps, Opportunity(o, "EXECUTED"))
           v == SetStatus(t, "EXECUTED")
           pairs == [t.pairs EXCEPT ![o.pair].executed = @ + 1]
<1>1. x \in OpportunityType /\ "EXECUTED" \in Statuses /\ x.pair = o.pair
  BY DEF ResultType, OpportunityType, Opportunity, Statuses
<1>2. v \in TrackerType /\ v = [t EXCEPT !.opportunities = after]
  <2> HIDE DEF x, v
  <2> QED BY <1>1, SetStatusEffect DEF Opportunity, x, v
<1>3. o.pair \in Pairs /\ t.pairs \in [Pairs -> StatsType]
  BY DEF TrackerType, ResultType
<1>4. Counted(pairs, t.pairs, o.pair, "executed") /\ pairs \in [Pairs -> StatsType]
  BY <1>3, CountedFields, CountedType
<1>5. v.pairs = t.pairs
  <2> HIDE DEF v, after
  <2> QED BY <1>2 DEF TrackerType
<1>6. Executed(t, o) = [v EXCEPT !.executed = @ + 1, !.pairs = pairs]
  BY <1>5 DEF Executed
<1> HIDE DEF v, after, pairs
<1>7. [v EXCEPT !.executed = @ + 1, !.pairs = pairs] \in TrackerType
  <2> DEFINE n == v.executed + 1
  <2>1. n \in Nat
    BY <1>2, TrackerFields
  <2> HIDE DEF n
  <2>2. [v EXCEPT !.executed = n, !.pairs = pairs] \in TrackerType
    BY <1>2, <1>4, <2>1, TrackerWith
  <2> QED BY <2>2 DEF n
<1> QED BY <1>2, <1>4, <1>6, <1>7 DEF TrackerType, after, Kept, Untouched

\* ... of an order that failed,
LEMMA FailedEffect ==
  ASSUME NEW t \in TrackerType, NEW o \in ResultType
  PROVE  LET u == [t EXCEPT !.failures = @ + 1, !.pairs[o.pair].failures = @ + 1] IN
         /\ u \in TrackerType
         /\ u.failures = t.failures + 1
         /\ Counted(u.pairs, t.pairs, o.pair, "failures")
         /\ Kept(u, t, {"opportunities", "approved", "rejected", "executed", "fees", "pnls",
                        "realized"} \cup Untouched)
<1> DEFINE pairs == [t.pairs EXCEPT ![o.pair].failures = @ + 1]
           n == t.failures + 1
<1>1. o.pair \in Pairs /\ t.pairs \in [Pairs -> StatsType] /\ n \in Nat
  BY TrackerFields DEF ResultType
<1>2. Counted(pairs, t.pairs, o.pair, "failures") /\ pairs \in [Pairs -> StatsType]
  BY <1>1, CountedFields, CountedType
<1>3. [t EXCEPT !.failures = @ + 1, !.pairs[o.pair].failures = @ + 1] =
        [t EXCEPT !.failures = n, !.pairs = pairs]
  BY DEF TrackerType
<1> HIDE DEF pairs, n
<1>4. [t EXCEPT !.failures = n, !.pairs = pairs] \in TrackerType
  BY <1>1, <1>2, TrackerWith
<1> QED BY <1>2, <1>3, <1>4 DEF TrackerType, Kept, Untouched, n

\* The statistics of a pair after a trade that brings `r`.
Traded(s, q, r) ==
  [s EXCEPT ![q].trades = @ + 1, ![q].net = @ + r, ![q].wins = IF r > 0 THEN @ + 1 ELSE @]

\* ... of one that was filled: the statistics of its pair,
LEMMA TradedCounts ==
  ASSUME NEW s \in [Pairs -> StatsType], NEW q \in Pairs, NEW r \in Int
  PROVE  LET u == Traded(s, q, r) IN
         /\ u \in [Pairs -> StatsType]
         /\ \A p \in Pairs :
              /\ u[p].opportunities = s[p].opportunities /\ u[p].executed = s[p].executed
              /\ u[p].trades = s[p].trades + IF p = q THEN 1 ELSE 0
              /\ u[p].wins = s[p].wins + IF p = q /\ r > 0 THEN 1 ELSE 0
<1> DEFINE v == [s[q] EXCEPT !.trades = @ + 1, !.net = @ + r, !.wins = IF r > 0 THEN @ + 1 ELSE @]
           u == [s EXCEPT ![q] = v]
<1>1. /\ v \in StatsType /\ v.opportunities = s[q].opportunities /\ v.executed = s[q].executed
      /\ v.trades = s[q].trades + 1 /\ v.wins = s[q].wins + IF r > 0 THEN 1 ELSE 0
  <2> DEFINE a == s[q].trades + 1
             b == s[q].net + r
             c == IF r > 0 THEN s[q].wins + 1 ELSE s[q].wins
  <2>1. /\ s[q] \in StatsType /\ a \in Nat /\ b \in Int /\ c \in Nat
        /\ c = s[q].wins + IF r > 0 THEN 1 ELSE 0
    BY DEF StatsType
  <2> HIDE DEF a, b, c
  <2>2. LET w == [s[q] EXCEPT !.trades = a, !.net = b, !.wins = c] IN
        /\ w \in StatsType /\ w.opportunities = s[q].opportunities /\ w.executed = s[q].executed
        /\ w.trades = a /\ w.wins = c
    BY <2>1 DEF StatsType
  <2> QED BY <2>1, <2>2 DEF a, b, c
<1>2. Traded(s, q, r) = u
  BY DEF Traded
<1>3. \A p \in Pairs : s[p].trades \in Nat /\ s[p].wins \in Nat
  BY DEF StatsType
<1> HIDE DEF v
<1>4. u \in [Pairs -> StatsType] /\ u[q] = v /\ \A p \in Pairs : p # q => u[p] = s[p]
  BY <1>1
<1> QED BY <1>1, <1>2, <1>3, <1>4

\* ... the trade,
LEMMA RegisteredEffect ==
  ASSUME NEW t \in TrackerType, NEW o \in ResultType, NEW opps \in Seq(OpportunityType),
         t.opportunities = Append(opps, Opportunity(o, "EXECUTED")), NEW r \in Int
  PROVE  LET u == RegisterTrade(t, o, r)
             status == IF r > 0 THEN "PROFITABLE" ELSE "UNPROFITABLE" IN
         /\ u \in TrackerType
         /\ u.opportunities = Append(opps, Opportunity(o, status))
         /\ u.pnls = Append(t.pnls, r) /\ u.realized = t.realized + r
         /\ u.pairs = Traded(t.pairs, o.pair, r)
         /\ Kept(u, t, {"approved", "rejected", "executed", "failures", "fees"} \cup Untouched)
<1> DEFINE x == Opportunity(o, "EXECUTED")
           status == IF r > 0 THEN "PROFITABLE" ELSE "UNPROFITABLE"
           after == Append(opps, Opportunity(o, status))
           v == SetStatus(t, status)
           pairs == Traded(t.pairs, o.pair, r)
           pnls == Append(t.pnls, r)
           realized == t.realized + r
<1>1. x \in OpportunityType /\ status \in Statuses /\ x.pair = o.pair
  BY DEF ResultType, OpportunityType, Opportunity, Statuses
<1>2. v \in TrackerType /\ v = [t EXCEPT !.opportunities = after]
  <2> HIDE DEF x, v, status
  <2> QED BY <1>1, SetStatusEffect DEF Opportunity, x, v
<1>3. o.pair \in Pairs /\ t.pairs \in [Pairs -> StatsType] /\ pnls \in Seq(Int) /\ realized \in Int
  BY TrackerFields DEF ResultType
<1>4. pairs \in [Pairs -> StatsType]
  BY <1>3, TradedCounts
<1>5. v.pairs = t.pairs /\ v.pnls = t.pnls /\ v.realized = t.realized
  <2> HIDE DEF v, after
  <2> QED BY <1>2 DEF TrackerType
<1>6. RegisterTrade(t, o, r) = [v EXCEPT !.pnls = pnls, !.realized = realized, !.pairs = pairs]
  <2> DEFINE q == o.pair
             a == v.pairs[q].trades + 1
             b == v.pairs[q].net + r
             c == IF r > 0 THEN v.pairs[q].wins + 1 ELSE v.pairs[q].wins
             l == Append(v.pnls, r)
             m == v.realized + r
  <2>1. RegisterTrade(t, o, r) =
          [v EXCEPT !.pnls = l, !.realized = m, !.pairs[q].trades = a, !.pairs[q].net = b,
                    !.pairs[q].wins = c]
    BY DEF RegisterTrade
  <2>2. [v.pairs EXCEPT ![q].trades = a, ![q].net = b, ![q].wins = c] = pairs
    BY <1>5 DEF Traded
  <2> HIDE DEF v, a, b, c, l, m, pairs
  <2>3. RegisterTrade(t, o, r) = [v EXCEPT !.pnls = l, !.realized = m, !.pairs = pairs]
    <3>1. q \in Pairs /\ v \in TrackerType
      BY <1>2, <1>3
    <3> HIDE DEF q
    <3>2. [v EXCEPT !.pnls = l, !.realized = m, !.pairs[q].trades = a, !.pairs[q].net = b,
                    !.pairs[q].wins = c] =
          [v EXCEPT !.pnls = l, !.realized = m, !.pairs = pairs]
      BY <2>2, <3>1, ZenonT(60) DEF TrackerType
    <3> QED BY <2>1, <3>2
  <2>4. l = pnls /\ m = realized
    BY <1>5 DEF l, m
  <2> HIDE DEF pnls, realized
  <2> QED BY <2>3, <2>4
<1> HIDE DEF v, after, pairs, pnls, realized
<1>7. [v EXCEPT !.pnls = pnls, !.realized = realized, !.pairs = pairs] \in TrackerType
  BY <1>2, <1>3, <1>4, TrackerWith
<1> DEFINE u == [v EXCEPT !.pnls = pnls, !.realized = realized, !.pairs = pairs]
<1>8. u.pnls = pnls /\ u.realized = realized /\ u.pairs = pairs /\ u.opportunities = v.opportunities
  BY <1>2 DEF TrackerType
<1>9. \A f \in {"approved", "rejected", "executed", "failures", "fees"} \cup Untouched : u[f] = v[f]
  BY <1>2 DEF TrackerType, Untouched
<1>10. v.opportunities = after
  BY <1>2 DEF TrackerType
<1>11. \A f \in {"approved", "rejected", "executed", "failures", "fees"} \cup Untouched : v[f] = t[f]
  BY <1>2 DEF TrackerType, Untouched
<1>12. u \in TrackerType /\ RegisterTrade(t, o, r) = u
  BY <1>6, <1>7
<1> HIDE DEF u
<1>13. Kept(u, t, {"approved", "rejected", "executed", "failures", "fees"} \cup Untouched)
  BY <1>9, <1>11 DEF Kept
<1> QED BY <1>8, <1>10, <1>12, <1>13 DEF after, pairs, pnls, realized

\* ... and its fee.
LEMMA PaidEffect ==
  ASSUME NEW t \in TrackerType
  PROVE  LET u == [t EXCEPT !.fees = @ + 1] IN
         /\ u \in TrackerType /\ u.fees = t.fees + 1
         /\ Kept(u, t, {"opportunities", "approved", "rejected", "executed", "failures", "pnls",
                        "realized", "pairs"} \cup Untouched)
<1> DEFINE n == t.fees + 1
<1>1. n \in Nat
  BY TrackerFields
<1> HIDE DEF n
<1>2. [t EXCEPT !.fees = n] \in TrackerType
  BY <1>1, TrackerWith
<1>3. LET u == [t EXCEPT !.fees = n] IN
      /\ u.fees = n
      /\ Kept(u, t, {"opportunities", "approved", "rejected", "executed", "failures", "pnls",
                     "realized", "pairs"} \cup Untouched)
  BY DEF TrackerType, Kept, Untouched
<1> QED BY <1>2, <1>3 DEF n

\* What recording one opportunity adds, to the totals and to the statistics.
AddsToTotals(u, t, o) ==
  LET rejected == o.outcome = "rejected"
      filled == o.outcome \in Fills
      r == EstimateRealized(o.outcome) IN
  /\ u.opportunities = Append(t.opportunities, Opportunity(o, Final(o.outcome)))
  /\ u.approved = t.approved + One(~rejected) /\ u.rejected = t.rejected + One(rejected)
  /\ u.executed = t.executed + One(~rejected)
  /\ u.failures = t.failures + One(o.outcome = "failed")
  /\ u.fees = t.fees + One(filled)
  /\ IF filled THEN u.pnls = Append(t.pnls, r) /\ u.realized = t.realized + r
               ELSE u.pnls = t.pnls /\ u.realized = t.realized
  /\ u.equity = t.equity /\ u.days = t.days /\ u.peak = t.peak /\ u.worst = t.worst

AddsToStats(u, t, o) ==
  \A p \in Pairs :
    /\ u.pairs[p].opportunities = t.pairs[p].opportunities + One(p = o.pair)
    /\ u.pairs[p].executed = t.pairs[p].executed + One(p = o.pair /\ o.outcome # "rejected")
    /\ u.pairs[p].trades = t.pairs[p].trades + One(p = o.pair /\ o.outcome \in Fills)
    /\ u.pairs[p].wins = t.pairs[p].wins + One(p = o.pair /\ o.outcome = "gain")

\* What the whole life of an opportunity adds to the tracker.
LEMMA RecordEffect ==
  ASSUME NEW t \in TrackerType, NEW o \in ResultType
  PROVE  LET u == Record(t, o) IN u \in TrackerType /\ AddsToTotals(u, t, o) /\ AddsToStats(u, t, o)
<1> DEFINE opps == t.opportunities
           detected == RecordDetected(t, o)
           judged == RecordRisk(detected, o)
           executed == Executed(judged, o)
           r == EstimateRealized(o.outcome)
<1>0. /\ opps \in Seq(OpportunityType) /\ o.pair \in Pairs /\ o.outcome \in Outcomes
      /\ t.approved \in Nat /\ t.rejected \in Nat /\ t.executed \in Nat /\ t.failures \in Nat
      /\ t.fees \in Nat
      /\ \A p \in Pairs : t.pairs[p].opportunities \in Nat /\ t.pairs[p].executed \in Nat
                          /\ t.pairs[p].trades \in Nat /\ t.pairs[p].wins \in Nat
  BY DEF TrackerType, ResultType, StatsType
<1>1. /\ detected \in TrackerType
      /\ detected.opportunities = Append(opps, Opportunity(o, "DETECTED"))
      /\ Counted(detected.pairs, t.pairs, o.pair, "opportunities")
      /\ Kept(detected, t, {"approved", "rejected", "executed", "failures", "fees", "pnls",
                            "realized"} \cup Untouched)
  BY DetectedEffect
<1> HIDE DEF detected
<1>2. CASE o.outcome = "rejected"
  <2>1. /\ judged \in TrackerType
        /\ judged.opportunities = Append(opps, Opportunity(o, "REJECTED"))
        /\ judged.rejected = detected.rejected + 1
        /\ Kept(judged, detected, {"approved", "executed", "failures", "fees", "pnls", "realized",
                                   "pairs"} \cup Untouched)
    BY <1>0, <1>1, <1>2, RejectedEffect
  <2>2. Record(t, o) = judged
    BY <1>2 DEF Record, detected
  <2> HIDE DEF judged
  <2>3. /\ judged.approved = t.approved /\ judged.rejected = t.rejected + 1
        /\ \A f \in {"executed", "failures", "fees", "pnls", "realized", "equity", "peak", "worst",
                   "days"} :
             judged[f] = t[f]
    BY <1>1, <2>1 DEF Kept, Untouched
  <2>4. \A p \in Pairs :
          /\ judged.pairs[p].opportunities = t.pairs[p].opportunities + One(p = o.pair)
          /\ judged.pairs[p].executed = t.pairs[p].executed
          /\ judged.pairs[p].trades = t.pairs[p].trades
          /\ judged.pairs[p].wins = t.pairs[p].wins
    <3>1. judged.pairs = detected.pairs
      BY <2>1 DEF Kept
    <3> QED BY <1>0, <1>1, <3>1 DEF Counted, One
  <2>5. AddsToTotals(judged, t, o)
    BY <1>0, <1>2, <2>1, <2>3 DEF AddsToTotals, Final, Fills, One
  <2>6. AddsToStats(judged, t, o)
    BY <1>0, <1>2, <2>4 DEF AddsToStats, Fills, One
  <2> QED BY <2>1, <2>2, <2>5, <2>6
<1>3. CASE o.outcome # "rejected"
  <2>1. /\ judged \in TrackerType
        /\ judged.opportunities = Append(opps, Opportunity(o, "APPROVED"))
        /\ judged.approved = detected.approved + 1
        /\ Counted(judged.pairs, detected.pairs, o.pair, "approved")
        /\ Kept(judged, detected, {"rejected", "executed", "failures", "fees", "pnls", "realized"}
                                  \cup Untouched)
    BY <1>0, <1>1, <1>3, ApprovedEffect
  <2>2. Record(t, o) = RecordExecution(judged, o)
    BY <1>3 DEF Record, detected
  <2> HIDE DEF judged
  <2>3. /\ executed \in TrackerType
        /\ executed.opportunities = Append(opps, Opportunity(o, "EXECUTED"))
        /\ executed.executed = judged.executed + 1
        /\ Counted(executed.pairs, judged.pairs, o.pair, "executed")
        /\ Kept(executed, judged, {"approved", "rejected", "failures", "fees", "pnls", "realized"}
                                  \cup Untouched)
    BY <1>0, <2>1, ExecutedEffect
  <2> HIDE DEF executed
  <2>7. /\ executed.approved = t.approved + 1 /\ executed.executed = t.executed + 1
        /\ \A f \in {"rejected", "failures", "fees", "pnls", "realized", "equity", "peak", "worst",
                   "days"} :
             executed[f] = t[f]
    BY <1>1, <2>1, <2>3 DEF Kept, Untouched
  <2>8. \A p \in Pairs :
          /\ executed.pairs[p].opportunities = t.pairs[p].opportunities + One(p = o.pair)
          /\ executed.pairs[p].executed = t.pairs[p].executed + One(p = o.pair)
          /\ executed.pairs[p].trades = t.pairs[p].trades
          /\ executed.pairs[p].wins = t.pairs[p].wins
    <3> SUFFICES ASSUME NEW p \in Pairs
                 PROVE  /\ executed.pairs[p].opportunities = t.pairs[p].opportunities + One(p = o.pair)
                        /\ executed.pairs[p].executed = t.pairs[p].executed + One(p = o.pair)
                        /\ executed.pairs[p].trades = t.pairs[p].trades
                        /\ executed.pairs[p].wins = t.pairs[p].wins
      OBVIOUS
    <3>1. /\ t.pairs \in [Pairs -> StatsType] /\ detected.pairs \in [Pairs -> StatsType]
          /\ judged.pairs \in [Pairs -> StatsType]
      BY <1>1, <2>1, TrackerFields
    <3>2. /\ detected.pairs[p].opportunities = t.pairs[p].opportunities + One(p = o.pair)
          /\ detected.pairs[p].executed = t.pairs[p].executed + 0
          /\ detected.pairs[p].trades = t.pairs[p].trades
          /\ detected.pairs[p].wins = t.pairs[p].wins
      BY <1>1, <3>1, CountedOne DEF One
    <3>3. /\ judged.pairs[p].opportunities = detected.pairs[p].opportunities
          /\ judged.pairs[p].executed = detected.pairs[p].executed
          /\ judged.pairs[p].trades = detected.pairs[p].trades
          /\ judged.pairs[p].wins = detected.pairs[p].wins
      BY <2>1, <3>1, CountedOther
    <3>4. /\ executed.pairs[p].opportunities = judged.pairs[p].opportunities + 0
          /\ executed.pairs[p].executed = judged.pairs[p].executed + One(p = o.pair)
          /\ executed.pairs[p].trades = judged.pairs[p].trades
          /\ executed.pairs[p].wins = judged.pairs[p].wins
      BY <2>3, <3>1, CountedOne DEF One
    <3> QED BY <1>0, <3>2, <3>3, <3>4 DEF One
  <2>4. CASE o.outcome = "failed"
    <3> DEFINE u == [executed EXCEPT !.failures = @ + 1, !.pairs[o.pair].failures = @ + 1]
    <3>1. RecordExecution(judged, o) = u
      BY <2>4 DEF RecordExecution, Executed, Fills, executed
    <3>2. /\ u \in TrackerType
          /\ u.failures = executed.failures + 1
          /\ Counted(u.pairs, executed.pairs, o.pair, "failures")
          /\ Kept(u, executed, {"opportunities", "approved", "rejected", "executed", "fees", "pnls",
                                "realized"} \cup Untouched)
      BY <2>3, FailedEffect
    <3> HIDE DEF u
    <3>3. /\ u.failures = t.failures + 1
          /\ u.opportunities = executed.opportunities
          /\ \A f \in {"approved", "rejected", "executed", "fees", "pnls", "realized", "equity",
                       "peak", "worst", "days"} : u[f] = executed[f]
      BY <2>7, <3>2 DEF Kept, Untouched
    <3>4. \A p \in Pairs :
            /\ u.pairs[p].opportunities = executed.pairs[p].opportunities
            /\ u.pairs[p].executed = executed.pairs[p].executed
            /\ u.pairs[p].trades = executed.pairs[p].trades
            /\ u.pairs[p].wins = executed.pairs[p].wins
      <4>1. executed.pairs \in [Pairs -> StatsType]
        BY <2>3, TrackerFields
      <4> QED BY <3>2, <4>1, CountedOther
    <3>5. AddsToTotals(u, t, o)
      BY <1>0, <2>3, <2>4, <2>7, <3>3 DEF AddsToTotals, Final, Fills, One
    <3>6. AddsToStats(u, t, o)
      BY <1>0, <2>4, <2>8, <3>4 DEF AddsToStats, Fills, One
    <3> QED BY <2>2, <3>1, <3>2, <3>5, <3>6
  <2>5. CASE o.outcome = "resting"
    <3>1. RecordExecution(judged, o) = executed
      BY <2>5 DEF RecordExecution, Executed, Fills, executed
    <3>2. AddsToTotals(executed, t, o)
      BY <1>0, <2>3, <2>5, <2>7 DEF AddsToTotals, Final, Fills, One
    <3>3. AddsToStats(executed, t, o)
      BY <1>0, <2>5, <2>8 DEF AddsToStats, Fills, One
    <3> QED BY <2>2, <2>3, <3>1, <3>2, <3>3
  <2>6. CASE o.outcome \in Fills
    <3> DEFINE paid == [executed EXCEPT !.fees = @ + 1]
               u == RegisterTrade(paid, o, r)
               status == IF r > 0 THEN "PROFITABLE" ELSE "UNPROFITABLE"
    <3>1. RecordExecution(judged, o) = u
      BY <2>6 DEF RecordExecution, Executed, Fills, executed
    <3>2. /\ paid \in TrackerType /\ paid.fees = executed.fees + 1
          /\ Kept(paid, executed, {"opportunities", "approved", "rejected", "executed", "failures",
                                   "pnls", "realized", "pairs"} \cup Untouched)
      BY <2>3, PaidEffect
    <3>3. /\ r \in Int /\ (r > 0 <=> o.outcome = "gain") /\ Final(o.outcome) = status
      BY <2>6 DEF EstimateRealized, Fills, Final
    <3>4. paid.opportunities = Append(opps, Opportunity(o, "EXECUTED"))
      BY <2>3, <3>2 DEF Kept
    <3> HIDE DEF paid, r
    <3>5. /\ u \in TrackerType
          /\ u.opportunities = Append(opps, Opportunity(o, status))
          /\ u.pnls = Append(paid.pnls, r) /\ u.realized = paid.realized + r
          /\ u.pairs = Traded(paid.pairs, o.pair, r)
          /\ Kept(u, paid, {"approved", "rejected", "executed", "failures", "fees"} \cup Untouched)
      BY <1>0, <3>2, <3>3, <3>4, RegisteredEffect
    <3> HIDE DEF u
    <3>6. \A p \in Pairs :
            /\ u.pairs[p].opportunities = paid.pairs[p].opportunities
            /\ u.pairs[p].executed = paid.pairs[p].executed
            /\ u.pairs[p].trades = paid.pairs[p].trades + One(p = o.pair)
            /\ u.pairs[p].wins = paid.pairs[p].wins + One(p = o.pair /\ o.outcome = "gain")
      <4>1. paid.pairs \in [Pairs -> StatsType]
        BY <3>2, TrackerFields
      <4> DEFINE s == paid.pairs
                 q == o.pair
                 v == Traded(s, q, r)
      <4>2. u.pairs = v /\ s \in [Pairs -> StatsType] /\ q \in Pairs /\ r \in Int
        BY <1>0, <3>3, <3>5, <4>1
      <4> HIDE DEF s, q
      <4>3. \A p \in Pairs :
              /\ v[p].opportunities = s[p].opportunities /\ v[p].executed = s[p].executed
              /\ v[p].trades = s[p].trades + IF p = q THEN 1 ELSE 0
              /\ v[p].wins = s[p].wins + IF p = q /\ r > 0 THEN 1 ELSE 0
        BY <4>2, TradedCounts
      <4> HIDE DEF v
      <4> QED BY <3>3, <4>2, <4>3 DEF One, s, q
    <3>7. paid.pairs = executed.pairs
      BY <3>2 DEF Kept
    <3>8. /\ u.fees = t.fees + 1 /\ u.pnls = Append(t.pnls, r) /\ u.realized = t.realized + r
          /\ \A f \in {"approved", "rejected", "executed", "failures", "equity", "peak", "worst",
                   "days"} :
               u[f] = executed[f]
      BY <2>7, <3>2, <3>5 DEF Kept, Untouched
    <3>9. o.outcome # "rejected" /\ o.outcome # "failed" /\ Record(t, o) = u
      BY <2>2, <2>6, <3>1 DEF Fills
    <3>10. AddsToTotals(u, t, o)
      <4>1. /\ u.opportunities = Append(opps, Opportunity(o, Final(o.outcome)))
            /\ u.approved = t.approved + 1 /\ u.rejected = t.rejected + 0
            /\ u.executed = t.executed + 1 /\ u.failures = t.failures + 0
            /\ u.equity = t.equity /\ u.days = t.days /\ u.peak = t.peak /\ u.worst = t.worst
        BY <1>0, <2>7, <3>3, <3>5, <3>8
      <4> HIDE DEF opps
      <4>2. /\ One(o.outcome # "rejected") = 1 /\ One(o.outcome = "rejected") = 0
            /\ One(o.outcome = "failed") = 0 /\ One(o.outcome \in Fills) = 1
        BY <2>6, <3>9 DEF One
      <4>3. u.fees = t.fees + 1 /\ u.pnls = Append(t.pnls, r) /\ u.realized = t.realized + r
        BY <3>8
      <4> QED BY <2>6, <4>1, <4>2, <4>3, Zenon DEF AddsToTotals, opps, r
    <3>11. AddsToStats(u, t, o)
      BY <1>0, <2>6, <2>8, <3>6, <3>7, <3>9 DEF AddsToStats, One
    <3> QED BY <3>5, <3>9, <3>10, <3>11
  <2> QED BY <1>0, <1>3, <2>4, <2>5, <2>6 DEF Outcomes, Executions
<1> QED BY <1>2, <1>3

-----------------------------------------------------------------------------
(* The totals, the statistics and the trades.                              *)

CountIn(s, G) == Cardinality({i \in DOMAIN s : s[i] \in G})

\* One element more is counted when it belongs.
LEMMA CountOfAppend ==
  ASSUME NEW X, NEW s \in Seq(X), NEW x \in X, NEW G
  PROVE  CountIn(s, G) \in Nat /\ CountIn(Append(s, x), G) = CountIn(s, G) + One(x \in G)
<1> DEFINE n == Len(s) + 1
           m == Append(s, x)
           S == {i \in DOMAIN s : s[i] \in G}
           M == {i \in DOMAIN m : m[i] \in G}
<1>1. /\ n \in Nat /\ DOMAIN s = 1 .. (n - 1) /\ DOMAIN m = 1 .. n /\ m[n] = x
      /\ \A i \in 1 .. (n - 1) : m[i] = s[i]
  OBVIOUS
<1>2. IsFiniteSet(S) /\ n \notin S
  <2>1. S \subseteq 1 .. (n - 1)
    BY <1>1
  <2> HIDE DEF n, S
  <2>2. IsFiniteSet(1 .. (n - 1))
    BY <1>1, FS_Interval
  <2>3. IsFiniteSet(S)
    BY <2>1, <2>2, FS_Subset
  <2>4. n \notin 1 .. (n - 1)
    BY <1>1
  <2> QED BY <2>1, <2>3, <2>4
<1>3. M = IF x \in G THEN S \cup {n} ELSE S
  <2>1. M = {i \in 1 .. n : m[i] \in G} /\ S = {i \in 1 .. (n - 1) : s[i] \in G}
    BY <1>1
  <2>2. \A i : i \in 1 .. n <=> i \in 1 .. (n - 1) \/ i = n
    BY <1>1
  <2> HIDE DEF m, n, S, M
  <2>3. \A i : i \in M <=> (i \in S \/ (i = n /\ x \in G))
    BY <1>1, <2>1, <2>2
  <2> QED BY <2>3
<1>4. Cardinality(S) \in Nat /\ Cardinality(S \cup {n}) = Cardinality(S) + 1
  <2> HIDE DEF n, S
  <2> QED BY <1>2, FS_CardinalityType, FS_AddElement
<1>5. CountIn(s, G) = Cardinality(S) /\ CountIn(m, G) = Cardinality(M)
  BY DEF CountIn
<1> HIDE DEF S, M, n, m
<1> QED BY <1>3, <1>4, <1>5 DEF One, m

In(statuses) == {x \in OpportunityType : x.status \in statuses}
Between(p) == {x \in OpportunityType : x.pair = p}

\* TotalsAgree, of any tracker.
TotalsOf(t) ==
  LET opps == t.opportunities IN
  /\ Len(opps) = t.approved + t.rejected
  /\ t.rejected = CountIn(opps, In({"REJECTED"}))
  /\ t.executed = t.approved
  /\ t.executed = Len(t.pnls) + CountIn(opps, In({"EXECUTED"}))
  /\ t.failures <= CountIn(opps, In({"EXECUTED"}))
  /\ t.realized = SumOf(t.pnls)
  /\ \A p \in Pairs :
       /\ t.pairs[p].opportunities = CountIn(opps, Between(p))
       /\ t.pairs[p].executed = CountIn(opps, Between(p) \ In({"REJECTED"}))
       /\ t.pairs[p].trades = CountIn(opps, Between(p) \cap In(TradeStatuses))
       /\ t.pairs[p].wins = CountIn(opps, Between(p) \cap In({"PROFITABLE"}))

\* The counts are those of the property.
LEMMA TotalsAreOfTracker ==
  ASSUME tracker \in TrackerType, TotalsOf(tracker)
  PROVE  TotalsAgree
<1> DEFINE opps == tracker.opportunities
<1>1. \A i \in DOMAIN opps : opps[i] \in OpportunityType
  BY DEF TrackerType
<1>2. \A G : {i \in DOMAIN opps : opps[i] \in In(G)} = Having(G)
  BY <1>1 DEF In, Having
<1>3. \A p \in Pairs :
        /\ {i \in DOMAIN opps : opps[i] \in Between(p)} = Of(p)
        /\ {i \in DOMAIN opps : opps[i] \in Between(p) \ In({"REJECTED"})} = Of(p) \ Having({"REJECTED"})
        /\ {i \in DOMAIN opps : opps[i] \in Between(p) \cap In(TradeStatuses)} =
             Of(p) \cap Having(TradeStatuses)
        /\ {i \in DOMAIN opps : opps[i] \in Between(p) \cap In({"PROFITABLE"})} =
             Of(p) \cap Having({"PROFITABLE"})
  BY <1>1 DEF In, Between, Having, Of
<1> QED BY <1>2, <1>3 DEF TotalsOf, TotalsAgree, CountIn

\* One opportunity more keeps the totals in agreement.
LEMMA RecordKeepsTotals ==
  ASSUME NEW t \in TrackerType, TotalsOf(t), NEW o \in ResultType
  PROVE  TotalsOf(Record(t, o))
<1> DEFINE u == Record(t, o)
           opps == t.opportunities
           x == Opportunity(o, Final(o.outcome))
           r == EstimateRealized(o.outcome)
<1>1. u \in TrackerType /\ AddsToTotals(u, t, o) /\ AddsToStats(u, t, o)
  BY RecordEffect
<1>2. /\ opps \in Seq(OpportunityType) /\ x \in OpportunityType /\ o.pair \in Pairs
      /\ x.pair = o.pair /\ x.status = Final(o.outcome) /\ o.outcome \in Outcomes
      /\ t.pnls \in Seq(Int) /\ t.approved \in Nat /\ t.rejected \in Nat /\ t.failures \in Nat
  BY DEF TrackerType, ResultType, OpportunityType, Opportunity, Final, Outcomes, Executions,
         Fills, Statuses
<1>3. \A G : CountIn(opps, G) \in Nat /\ CountIn(Append(opps, x), G) = CountIn(opps, G) + One(x \in G)
  <2> HIDE DEF opps, x
  <2> QED BY <1>2, CountOfAppend
<1> HIDE DEF u, x
<1>4. u.opportunities = Append(opps, x)
  BY <1>1 DEF AddsToTotals, x
<1> HIDE DEF opps
<1>5. /\ (x \in In({"REJECTED"}) <=> o.outcome = "rejected")
      /\ (x \in In({"EXECUTED"}) <=> o.outcome \in {"failed", "resting"})
      /\ (x \in In(TradeStatuses) <=> o.outcome \in Fills)
      /\ (x \in In({"PROFITABLE"}) <=> o.outcome = "gain")
      /\ \A p \in Pairs : x \in Between(p) <=> p = o.pair
  BY <1>2 DEF In, Between, TradeStatuses, Final, Outcomes, Executions, Fills
<1>6. Len(u.opportunities) = u.approved + u.rejected
  <2>1. Len(u.opportunities) = Len(opps) + 1 /\ Len(opps) \in Nat
    BY <1>2, <1>4
  <2>2. Len(opps) = t.approved + t.rejected
    BY DEF TotalsOf, opps
  <2>3. u.approved = t.approved + One(o.outcome # "rejected") /\ u.rejected = t.rejected + One(o.outcome = "rejected")
    BY <1>1 DEF AddsToTotals
  <2> QED BY <1>2, <2>1, <2>2, <2>3 DEF One
<1>7. /\ u.rejected = CountIn(u.opportunities, In({"REJECTED"}))
      /\ u.executed = u.approved
      /\ u.failures <= CountIn(u.opportunities, In({"EXECUTED"}))
  <2>1. /\ t.rejected = CountIn(opps, In({"REJECTED"})) /\ t.executed = t.approved
        /\ t.failures <= CountIn(opps, In({"EXECUTED"}))
    BY DEF TotalsOf, opps
  <2>2. /\ u.approved = t.approved + One(o.outcome # "rejected")
        /\ u.executed = t.executed + One(o.outcome # "rejected")
        /\ u.rejected = t.rejected + One(o.outcome = "rejected")
        /\ u.failures = t.failures + One(o.outcome = "failed")
    BY <1>1 DEF AddsToTotals
  <2>3. /\ CountIn(u.opportunities, In({"REJECTED"})) =
             CountIn(opps, In({"REJECTED"})) + One(x \in In({"REJECTED"}))
        /\ CountIn(u.opportunities, In({"EXECUTED"})) =
             CountIn(opps, In({"EXECUTED"})) + One(x \in In({"EXECUTED"}))
        /\ CountIn(opps, In({"EXECUTED"})) \in Nat
    BY <1>3, <1>4
  <2> QED BY <1>2, <1>5, <2>1, <2>2, <2>3 DEF One
<1>8. /\ u.executed = Len(u.pnls) + CountIn(u.opportunities, In({"EXECUTED"}))
      /\ u.realized = SumOf(u.pnls)
  <2>1. r \in Int \/ o.outcome \notin Fills
    BY DEF EstimateRealized, Fills
  <2>2. Len(t.pnls) \in Nat /\ (r \in Int => Len(Append(t.pnls, r)) = Len(t.pnls) + 1)
    BY <1>2
  <2>3. r \in Int => SumOf(Append(t.pnls, r)) = SumOf(t.pnls) + r
    BY <1>2, SumOfAppend
  <2>4. t.executed = Len(t.pnls) + CountIn(opps, In({"EXECUTED"})) /\ t.realized = SumOf(t.pnls)
    BY DEF TotalsOf, opps
  <2>5. CASE o.outcome \in Fills
    <3>1. /\ u.pnls = Append(t.pnls, r) /\ u.realized = t.realized + r /\ u.executed = t.executed + 1
          /\ o.outcome \notin {"failed", "resting"}
      BY <1>1, <2>5 DEF AddsToTotals, One, Fills
    <3> HIDE DEF r
    <3> QED BY <1>3, <1>4, <1>5, <2>1, <2>2, <2>3, <2>4, <2>5, <3>1 DEF One
  <2>6. CASE o.outcome \notin Fills
    <3>1. /\ u.pnls = t.pnls /\ u.realized = t.realized /\ u.executed = t.executed + One(o.outcome # "rejected")
          /\ (o.outcome \in {"failed", "resting"} <=> o.outcome # "rejected")
      BY <1>1, <1>2, <2>6 DEF AddsToTotals, Outcomes, Executions
    <3> QED BY <1>3, <1>4, <1>5, <2>2, <2>4, <3>1 DEF One
  <2> QED BY <2>5, <2>6
<1>9. ASSUME NEW p \in Pairs
      PROVE  /\ u.pairs[p].opportunities = CountIn(u.opportunities, Between(p))
             /\ u.pairs[p].executed = CountIn(u.opportunities, Between(p) \ In({"REJECTED"}))
             /\ u.pairs[p].trades = CountIn(u.opportunities, Between(p) \cap In(TradeStatuses))
             /\ u.pairs[p].wins = CountIn(u.opportunities, Between(p) \cap In({"PROFITABLE"}))
  <2>1. /\ t.pairs[p].opportunities = CountIn(opps, Between(p))
        /\ t.pairs[p].executed = CountIn(opps, Between(p) \ In({"REJECTED"}))
        /\ t.pairs[p].trades = CountIn(opps, Between(p) \cap In(TradeStatuses))
        /\ t.pairs[p].wins = CountIn(opps, Between(p) \cap In({"PROFITABLE"}))
    BY DEF TotalsOf, opps
  <2>2. /\ x \in Between(p) <=> p = o.pair
        /\ x \in Between(p) \ In({"REJECTED"}) <=> p = o.pair /\ o.outcome # "rejected"
        /\ x \in Between(p) \cap In(TradeStatuses) <=> p = o.pair /\ o.outcome \in Fills
        /\ x \in Between(p) \cap In({"PROFITABLE"}) <=> p = o.pair /\ o.outcome = "gain"
    BY <1>5
  <2>3. /\ CountIn(u.opportunities, Between(p)) =
             CountIn(opps, Between(p)) + One(x \in Between(p))
        /\ CountIn(u.opportunities, Between(p) \ In({"REJECTED"})) =
             CountIn(opps, Between(p) \ In({"REJECTED"})) + One(x \in Between(p) \ In({"REJECTED"}))
        /\ CountIn(u.opportunities, Between(p) \cap In(TradeStatuses)) =
             CountIn(opps, Between(p) \cap In(TradeStatuses)) + One(x \in Between(p) \cap In(TradeStatuses))
        /\ CountIn(u.opportunities, Between(p) \cap In({"PROFITABLE"})) =
             CountIn(opps, Between(p) \cap In({"PROFITABLE"})) + One(x \in Between(p) \cap In({"PROFITABLE"}))
    BY <1>3, <1>4
  <2>4. /\ u.pairs[p].opportunities = t.pairs[p].opportunities + One(p = o.pair)
        /\ u.pairs[p].executed = t.pairs[p].executed + One(p = o.pair /\ o.outcome # "rejected")
        /\ u.pairs[p].trades = t.pairs[p].trades + One(p = o.pair /\ o.outcome \in Fills)
        /\ u.pairs[p].wins = t.pairs[p].wins + One(p = o.pair /\ o.outcome = "gain")
    BY <1>1 DEF AddsToStats
  <2> QED BY <2>1, <2>2, <2>3, <2>4 DEF One
<1> QED BY <1>6, <1>7, <1>8, <1>9 DEF TotalsOf, u

-----------------------------------------------------------------------------
(* The portfolio's figures, and the days.                                  *)

PortfolioType == [equity : Equities, fees : Nat, peak : Equities, worst : Int]

Nets(days) == [i \in DOMAIN days |-> days[i].net]

\* The results of the days when one is appended.
LEMMA NetsOfAppend ==
  ASSUME NEW days \in Seq(DayType), NEW day \in DayType
  PROVE  /\ Nets(days) \in Seq(Int)
         /\ Nets(Append(days, day)) = Append(Nets(days), day.net)
<1> DEFINE n == Len(days)
           a == Nets(Append(days, day))
           b == Append(Nets(days), day.net)
<1>1. n \in Nat /\ DOMAIN days = 1 .. n /\ (\A i \in 1 .. n : days[i] \in DayType) /\ day.net \in Int
  <2>1. day.net \in Int
    BY DEF DayType
  <2> QED BY <2>1
<1>2. Nets(days) \in [1 .. n -> Int] /\ \A i \in 1 .. n : Nets(days)[i] = days[i].net
  BY <1>1 DEF Nets, DayType
<1>3. Nets(days) \in Seq(Int) /\ Len(Nets(days)) = n
  <2> DEFINE l == Nets(days)
  <2>1. n \in Nat /\ l \in [1 .. n -> Int]
    BY <1>1, <1>2
  <2> HIDE DEF n, l
  <2>2. l \in Seq(Int) /\ Len(l) = n
    BY <2>1
  <2> QED BY <2>2 DEF l
<1>4. /\ Append(days, day) \in Seq(DayType) /\ DOMAIN Append(days, day) = 1 .. n + 1
      /\ Append(days, day)[n + 1] = day /\ \A i \in 1 .. n : Append(days, day)[i] = days[i]
  OBVIOUS
<1>5. /\ b \in Seq(Int) /\ Len(b) = n + 1 /\ b[n + 1] = day.net
      /\ \A i \in 1 .. n : b[i] = Nets(days)[i]
  <2> DEFINE l == Nets(days)
             m == day.net
  <2>1. l \in Seq(Int) /\ Len(l) = n /\ m \in Int
    BY <1>1, <1>3
  <2> HIDE DEF l, m, n
  <2>2. /\ Append(l, m) \in Seq(Int) /\ Len(Append(l, m)) = n + 1 /\ Append(l, m)[n + 1] = m
        /\ \A i \in 1 .. n : Append(l, m)[i] = l[i]
    BY <2>1
  <2> QED BY <2>2 DEF l, m
<1>6. a = [i \in 1 .. n + 1 |-> Append(days, day)[i].net]
  BY <1>4 DEF Nets
<1>7. b = [i \in 1 .. n + 1 |-> b[i]]
  <2> HIDE DEF b, n
  <2> QED BY <1>5, LenProperties
<1>8. \A i \in 1 .. n + 1 : Append(days, day)[i].net = b[i]
  <2> SUFFICES ASSUME NEW i \in 1 .. n + 1 PROVE Append(days, day)[i].net = b[i]
    OBVIOUS
  <2>1. CASE i = n + 1
    BY <1>4, <1>5, <2>1
  <2>2. CASE i # n + 1
    <3>1. i \in 1 .. n
      BY <1>1, <2>2
    <3> QED BY <1>2, <1>4, <1>5, <3>1
  <2> QED BY <2>1, <2>2
<1> HIDE DEF a, b, n
<1> QED BY <1>3, <1>6, <1>7, <1>8 DEF a, b

\* DaysAddUp, of any tracker, with what the next day relies on.
DaysOf(t) ==
  t.days # <<>> =>
    /\ SumOf(Nets(t.days)) = t.equity - StartingEquity
    /\ Last(t.days).end = t.equity
    /\ Last(t.days).net = Last(t.days).end - Last(t.days).start

\* The larger of two numbers is one of them.
LEMMA LargerOf ==
  ASSUME NEW a \in Int, NEW b \in Int
  PROVE  Larger(a, b) \in {a, b} /\ Larger(a, b) \in Int /\ Larger(a, b) >= a /\ Larger(a, b) >= b
  BY DEF Larger

LEMMA DrawdownType ==
  ASSUME NEW peak \in Equities, NEW equity \in Equities
  PROVE  Drawdown(peak, equity) \in Int
<1> DEFINE k == 100 * (peak - equity)
<1>1. peak \in Int /\ peak > 0 /\ k \in Int
  BY TrackerAssumption DEF Equities
<1> HIDE DEF k
<1>2. k \div peak \in Int
  BY <1>1
<1> QED BY <1>2 DEF Drawdown, k

\* A portfolio whose marks or holdings have changed.
LEMMA ValuedType ==
  ASSUME NEW p \in PortfolioType, NEW equity \in Equities
  PROVE  Valued(p, equity) \in PortfolioType /\ Valued(p, equity).fees = p.fees
<1> DEFINE peak == Larger(p.peak, equity)
           worst == Larger(p.worst, Drawdown(peak, equity))
<1>1. p.peak \in Equities /\ p.worst \in Int
  BY DEF PortfolioType
<1>2. peak \in Equities
  BY <1>1 DEF Larger
<1>3. worst \in Int
  <2>1. Drawdown(peak, equity) \in Int
    BY <1>2, DrawdownType
  <2> QED BY <1>1, <2>1, LargerOf
<1>4. Valued(p, equity) = [p EXCEPT !.equity = equity, !.peak = peak, !.worst = worst]
  BY DEF Valued
<1> HIDE DEF peak, worst
<1> QED BY <1>1, <1>2, <1>3, <1>4 DEF PortfolioType

\* What was exported comes back as it was.
LEMMA ImportedWhole == ASSUME NEW v \in TrackerType PROVE Imported(v) = v
  BY DEF TrackerType, Imported

\* What sync_portfolio does before it rolls the days.
Synced(t, p) ==
  LET peak == Larger(t.peak, p.equity) IN
  [t EXCEPT !.equity = p.equity, !.fees = FeesKnown(t, p), !.peak = peak,
            !.worst = WorstKnown(t, p, Drawdown(peak, p.equity))]

\* The equity and the fees that are taken from the portfolio.
LEMMA SyncedEffect ==
  ASSUME NEW t \in TrackerType, NEW p \in PortfolioType
  PROVE  LET u == Synced(t, p) IN
         /\ u \in TrackerType /\ u.equity = p.equity /\ u.fees = FeesKnown(t, p)
         /\ Kept(u, t, {"opportunities", "approved", "rejected", "executed", "failures", "pnls",
                        "realized", "pairs", "days"})
<1> DEFINE peak == Larger(t.peak, p.equity)
           worst == WorstKnown(t, p, Drawdown(peak, p.equity))
           fees == FeesKnown(t, p)
           equity == p.equity
<1>1. t.peak \in Equities /\ p.equity \in Equities /\ p.fees \in Nat /\ t.fees \in Nat
      /\ t.worst \in Int /\ p.worst \in Int
  BY TrackerFields DEF PortfolioType
<1>2. peak \in Equities /\ fees \in Nat /\ equity \in Equities
  BY <1>1 DEF Larger, FeesKnown
<1>4. worst \in Int
  <2>1. Drawdown(peak, p.equity) \in Int
    BY <1>1, <1>2, DrawdownType
  <2> QED BY <1>1, <2>1, LargerOf DEF WorstKnown
<1>5. Synced(t, p) = [t EXCEPT !.equity = equity, !.fees = fees, !.peak = peak, !.worst = worst]
  BY DEF Synced
<1> HIDE DEF peak, worst, fees, equity
<1>6. [t EXCEPT !.equity = equity, !.fees = fees, !.peak = peak, !.worst = worst] \in TrackerType
  BY <1>2, <1>4 DEF TrackerType
<1>7. LET u == [t EXCEPT !.equity = equity, !.fees = fees, !.peak = peak, !.worst = worst] IN
      /\ u.equity = equity /\ u.fees = fees
      /\ Kept(u, t, {"opportunities", "approved", "rejected", "executed", "failures", "pnls",
                     "realized", "pairs", "days"})
  BY DEF TrackerType, Kept
<1> QED BY <1>5, <1>6, <1>7 DEF equity, fees

\* A sequence is its front and its last element.
LEMMA FrontAndLast ==
  ASSUME NEW X, NEW s \in Seq(X), s # <<>>
  PROVE  Front(s) \in Seq(X) /\ Last(s) \in X /\ s = Append(Front(s), Last(s))
<1> DEFINE n == Len(s) - 1
           f == Front(s)
           l == Last(s)
           m == Append(f, l)
<1>1. n \in Nat /\ n + 1 = Len(s) /\ Len(s) \in 1 .. Len(s)
  BY EmptySeq
<1>2. f \in Seq(X) /\ Len(f) = n /\ \A i \in 1 .. n : f[i] = s[i]
  BY <1>1 DEF Front
<1>3. l \in X /\ l = s[n + 1]
  BY <1>1 DEF Last
<1> HIDE DEF f, l, n
<1>4. m \in Seq(X) /\ Len(m) = n + 1 /\ m[n + 1] = l /\ \A i \in 1 .. n : m[i] = f[i]
  BY <1>1, <1>2, <1>3
<1> HIDE DEF m
<1>5. \A i \in 1 .. Len(s) : s[i] = m[i]
  <2> SUFFICES ASSUME NEW i \in 1 .. Len(s) PROVE s[i] = m[i]
    OBVIOUS
  <2>1. i = n + 1 \/ i \in 1 .. n
    BY <1>1
  <2> QED BY <1>2, <1>3, <1>4, <2>1
<1>6. s = m
  BY <1>1, <1>4, <1>5, SeqEqual
<1> QED BY <1>2, <1>3, <1>6 DEF f, l, m

LEMMA LastOfAppend ==
  ASSUME NEW X, NEW s \in Seq(X), NEW x \in X
  PROVE  Append(s, x) \in Seq(X) /\ Append(s, x) # <<>> /\ Last(Append(s, x)) = x
<1>1. Append(s, x) \in Seq(X) /\ Len(Append(s, x)) = Len(s) + 1 /\ Append(s, x)[Len(s) + 1] = x /\ Len(s) \in Nat
  OBVIOUS
<1>2. Len(<<>>) = 0
  OBVIOUS
<1> QED BY <1>1, <1>2 DEF Last

\* The day that _roll_daily writes follows on what was before the cycle: on
\* `end`, when there is a day.
LEMMA RolledEffect ==
  ASSUME NEW t \in TrackerType, NEW end \in Int, NEW date \in Nat,
         t.days # <<>> =>
           /\ SumOf(Nets(t.days)) = end - StartingEquity /\ Last(t.days).end = end
           /\ Last(t.days).net = Last(t.days).end - Last(t.days).start
  PROVE  LET u == RollDaily(t, t.equity, date) IN
         /\ u \in TrackerType /\ DaysOf(u)
         /\ Kept(u, t, {"opportunities", "approved", "rejected", "executed", "failures", "fees",
                        "pnls", "realized", "pairs", "equity"})
<1> DEFINE days == t.days
           new == days = <<>> \/ Last(days).date # date
           start == IF new THEN StartOfDay(t, t.equity) ELSE Last(days).start
           day == [date |-> date, start |-> start, end |-> t.equity, net |-> t.equity - start,
                   trades |-> Len(t.pnls)]
           before == IF new THEN days ELSE Front(days)
           after == Append(before, day)
<1>1. /\ days \in Seq(DayType) /\ t.equity \in Int /\ Len(t.pnls) \in Nat /\ StartingEquity \in Int
  BY TrackerFields, TrackerAssumption DEF Equities
<1>2. start \in Int /\ before \in Seq(DayType) /\ SumOf(Nets(before)) = start - StartingEquity
  <2>1. CASE days # <<>>
    <3>1. /\ Front(days) \in Seq(DayType) /\ Last(days) \in DayType
          /\ days = Append(Front(days), Last(days))
      BY <1>1, <2>1, FrontAndLast
    <3>2. Last(days).start \in Int /\ Last(days).end \in Int /\ Last(days).net \in Int
      BY <3>1 DEF DayType
    <3>3. /\ SumOf(Nets(days)) = SumOf(Nets(Front(days))) + Last(days).net
          /\ SumOf(Nets(Front(days))) \in Int
      <4> DEFINE f == Front(days)
                 l == Last(days)
      <4>1. f \in Seq(DayType) /\ l \in DayType /\ days = Append(f, l) /\ l.net \in Int
        BY <3>1, <3>2
      <4> HIDE DEF f, l, days
      <4>2. Nets(f) \in Seq(Int) /\ Nets(days) = Append(Nets(f), l.net)
        BY <4>1, NetsOfAppend
      <4>3. SumOf(Nets(f)) \in Int /\ SumOf(Append(Nets(f), l.net)) = SumOf(Nets(f)) + l.net
        BY <4>1, <4>2, SumOfAppend
      <4> QED BY <4>2, <4>3 DEF f, l
    <3>4. /\ SumOf(Nets(days)) = end - StartingEquity /\ Last(days).end = end
          /\ Last(days).net = Last(days).end - Last(days).start
      BY <2>1
    <3>5. CASE new
      <4>1. start = end /\ before = days
        BY <2>1, <3>4, <3>5 DEF StartOfDay
      <4> HIDE DEF start, before, days
      <4> QED BY <1>1, <3>4, <4>1
    <3>6. CASE ~new
      <4>1. start = Last(days).start /\ before = Front(days)
        BY <3>6
      <4> HIDE DEF start, before, days
      <4>2. SumOf(Nets(Front(days))) = Last(days).start - StartingEquity
        <5> DEFINE first == Last(days).start
                   net == Last(days).net
                   sum == SumOf(Nets(Front(days)))
        <5>1. first \in Int /\ net \in Int /\ sum \in Int /\ StartingEquity \in Int
          BY <1>1, <3>2, <3>3
        <5>2. sum + net = end - StartingEquity /\ net = end - first
          BY <3>3, <3>4
        <5> HIDE DEF first, net, sum
        <5>3. sum = first - StartingEquity
          BY <5>1, <5>2
        <5> QED BY <5>3 DEF first, sum
      <4> QED BY <3>1, <3>2, <4>1, <4>2
    <3> QED BY <3>5, <3>6
  <2>2. CASE days = <<>>
    <3>1. Nets(<<>>) = <<>>
      BY DEF Nets
    <3>2. start = StartingEquity /\ before = <<>>
      BY <2>2 DEF StartOfDay
    <3>3. <<>> \in Seq(DayType)
      OBVIOUS
    <3> HIDE DEF start, before, days
    <3> QED BY <1>1, <3>1, <3>2, <3>3, SumOfEmpty
  <2> QED BY <2>1, <2>2
<1>3. RollDaily(t, t.equity, date) = [t EXCEPT !.days = after]
  BY DEF RollDaily
<1> HIDE DEF start, before, new
<1>4. day \in DayType /\ day.net = t.equity - start /\ day.end = t.equity /\ day.start = start
  BY <1>1, <1>2 DEF DayType
<1> HIDE DEF day, days
<1>5. after \in Seq(DayType) /\ after # <<>> /\ Last(after) = day
  BY <1>2, <1>4, LastOfAppend
<1>6. SumOf(Nets(after)) = (start - StartingEquity) + (t.equity - start)
  <2>1. Nets(before) \in Seq(Int) /\ Nets(after) = Append(Nets(before), day.net)
    BY <1>2, <1>4, NetsOfAppend
  <2>2. day.net \in Int
    BY <1>1, <1>2, <1>4
  <2>3. SumOf(Append(Nets(before), day.net)) = SumOf(Nets(before)) + day.net
    BY <2>1, <2>2, SumOfAppend
  <2> QED BY <1>2, <1>4, <2>1, <2>3
<1> HIDE DEF after
<1>7. [t EXCEPT !.days = after] \in TrackerType
  BY <1>5 DEF TrackerType
<1>8. LET u == [t EXCEPT !.days = after] IN
      /\ u.days = after
      /\ Kept(u, t, {"opportunities", "approved", "rejected", "executed", "failures", "fees",
                     "pnls", "realized", "pairs", "equity"})
  BY DEF TrackerType, Kept
<1>9. DaysOf([t EXCEPT !.days = after])
  <2>1. [t EXCEPT !.days = after].days = after /\ [t EXCEPT !.days = after].equity = t.equity
    BY DEF TrackerType
  <2> QED BY <1>1, <1>2, <1>4, <1>5, <1>6, <2>1 DEF DaysOf
<1> QED BY <1>3, <1>7, <1>8, <1>9

-----------------------------------------------------------------------------
(* The invariant.                                                          *)

\* Totals, statistics, trades and days of a tracker agree.
Agrees(t) == t \in TrackerType /\ TotalsOf(t) /\ DaysOf(t)

\* Recording a whole run keeps the totals in agreement, and the days alone.
LEMMA RunIsRecorded ==
  ASSUME NEW t, Agrees(t), NEW results \in Seq(ResultType)
  PROVE  /\ Recorded(t, results) \in TrackerType /\ TotalsOf(Recorded(t, results))
         /\ Recorded(t, results).days = t.days /\ Recorded(t, results).equity = t.equity
         /\ Recorded(t, results).peak = t.peak /\ Recorded(t, results).worst = t.worst
<1> DEFINE T == {u \in TrackerType : /\ TotalsOf(u) /\ u.days = t.days /\ u.equity = t.equity
                                     /\ u.peak = t.peak /\ u.worst = t.worst}
<1>1. t \in T
  BY DEF Agrees
<1>2. ASSUME NEW u \in T, NEW o \in ResultType PROVE Record(u, o) \in T
  <2>1. Record(u, o) \in TrackerType /\ AddsToTotals(Record(u, o), u, o)
    BY RecordEffect
  <2>2. TotalsOf(Record(u, o))
    BY RecordKeepsTotals
  <2> QED BY <2>1, <2>2 DEF AddsToTotals
<1>3. Recorded(t, results) \in T
  <2> HIDE DEF T
  <2> QED BY <1>1, <1>2, RecordedWithin
<1> QED BY <1>3

\* Taking over the portfolio's figures keeps all of it.
LEMMA SyncAgrees ==
  ASSUME NEW t \in TrackerType, TotalsOf(t), NEW p \in PortfolioType, NEW date \in Nat, DaysOf(t)
  PROVE  LET u == SyncPortfolio(t, p, date) IN
         Agrees(u) /\ u.fees = FeesKnown(t, p) /\ u.opportunities = t.opportunities
<1> DEFINE s == Synced(t, p)
           u == RollDaily(s, s.equity, date)
           end == t.equity
<1>1. /\ s \in TrackerType /\ s.equity = p.equity /\ s.fees = FeesKnown(t, p)
      /\ Kept(s, t, {"opportunities", "approved", "rejected", "executed", "failures", "pnls",
                     "realized", "pairs", "days"})
  BY SyncedEffect
<1>2. SyncPortfolio(t, p, date) = u
  <2>1. SyncPortfolio(t, p, date) = RollDaily(s, p.equity, date)
    BY DEF SyncPortfolio, Synced
  <2> QED BY <1>1, <2>1
<1>3. end \in Int
  BY TrackerFields, TrackerAssumption DEF Equities
<1> HIDE DEF s, end
<1>4. s.days # <<>> =>
        /\ SumOf(Nets(s.days)) = end - StartingEquity /\ Last(s.days).end = end
        /\ Last(s.days).net = Last(s.days).end - Last(s.days).start
  BY <1>1 DEF DaysOf, Kept, end
<1>5. /\ u \in TrackerType /\ DaysOf(u)
      /\ Kept(u, s, {"opportunities", "approved", "rejected", "executed", "failures", "fees",
                     "pnls", "realized", "pairs", "equity"})
  BY <1>1, <1>3, <1>4, RolledEffect
<1> HIDE DEF u
<1>6. TotalsOf(u)
  <2>1. \A f \in {"opportunities", "approved", "rejected", "executed", "failures", "pnls",
                  "realized", "pairs"} : u[f] = t[f]
    BY <1>1, <1>5 DEF Kept
  <2> QED BY <2>1 DEF TotalsOf
<1> QED BY <1>1, <1>2, <1>5, <1>6 DEF Agrees, Kept

\* A session begins in agreement.
LEMMA NewAgrees == Agrees(NewTracker) /\ NewPortfolio \in PortfolioType
<1> DEFINE t == NewTracker
<1>1. NewPortfolio \in PortfolioType /\ StartingEquity \in Equities
  BY TrackerAssumption DEF NewPortfolio, PortfolioType, Equities
<1>2. t \in TrackerType
  BY <1>1 DEF NewTracker, NoStats, TrackerType, StatsType
<1>3. \A G : CountIn(<<>>, G) = 0
  <2>1. \A G : {i \in DOMAIN <<>> : <<>>[i] \in G} = {}
    OBVIOUS
  <2> QED BY <2>1, FS_EmptySet DEF CountIn
<1>4. TotalsOf(t)
  BY <1>3, SumOfEmpty DEF TotalsOf, NewTracker, NoStats
<1>5. DaysOf(t)
  BY DEF DaysOf, NewTracker
<1> QED BY <1>1, <1>2, <1>4, <1>5 DEF Agrees

TrackerInv ==
  /\ portfolio \in PortfolioType
  /\ \A l \in Tasks : Running(l) => runs[l] \in Seq(ResultType)
  /\ runs \in [Tasks -> {runs[l] : l \in Tasks}]
  /\ Agrees(tracker) /\ today \in Nat
  /\ file # None => file.portfolio \in PortfolioType /\ Agrees(file.tracker)

\* What ingesting a run makes of the tracker.
LEMMA IngestedAgrees ==
  ASSUME TrackerInv, NEW l \in Tasks, Running(l)
  PROVE  /\ Agrees(Ingested(runs[l]))
         /\ Ingested(runs[l]).fees = FeesKnown(Recorded(tracker, runs[l]), portfolio)
         /\ Ingested(runs[l]).opportunities = Recorded(tracker, runs[l]).opportunities
<1> DEFINE results == runs[l]
           t == Recorded(tracker, results)
<1>1. results \in Seq(ResultType) /\ Agrees(tracker) /\ portfolio \in PortfolioType /\ today \in Nat
  BY DEF TrackerInv
<1>2. t \in TrackerType /\ TotalsOf(t) /\ t.days = tracker.days /\ t.equity = tracker.equity
  <2> HIDE DEF results
  <2> QED BY <1>1, RunIsRecorded
<1>3. DaysOf(t)
  BY <1>1, <1>2 DEF Agrees, DaysOf
<1>4. Ingested(runs[l]) = SyncPortfolio(t, portfolio, today)
  BY DEF Ingested, Recorded
<1> HIDE DEF t
<1> QED BY <1>1, <1>2, <1>3, <1>4, SyncAgrees DEF t

\* The invariant is inductive.
LEMMA TrackerInvariance == TrackerSpec => []TrackerInv
<1>1. TrackerInit => TrackerInv
  BY NewAgrees DEF TrackerInit, TrackerInv, Running
<1>2. TrackerInv /\ [TrackerNext]_trackerVars => TrackerInv'
  <2> SUFFICES ASSUME TrackerInv, [TrackerNext]_trackerVars PROVE TrackerInv'
    OBVIOUS
  <2>1. ASSUME NEW l \in Tasks, BeginRun(l) PROVE TrackerInv'
    BY <2>1 DEF TrackerInv, BeginRun, Running
  <2>2. ASSUME NEW l \in Tasks, EndRun(l) PROVE TrackerInv'
    <3>1. Agrees(tracker') /\ (file' # None => file'.portfolio \in PortfolioType /\ Agrees(file'.tracker))
      <4>1. tracker' = Ingested(runs[l]) /\ Agrees(Ingested(runs[l]))
        BY <2>2, IngestedAgrees DEF EndRun
      <4>2. \/ file' = [portfolio |-> portfolio, tracker |-> tracker']
            \/ file' = file
        BY <2>2 DEF EndRun
      <4> QED BY <4>1, <4>2 DEF TrackerInv
    <3> QED BY <2>2, <3>1 DEF TrackerInv, EndRun, Running
  <2>3. ASSUME NEW l \in Tasks, LoseRun(l) PROVE TrackerInv'
    BY <2>3 DEF TrackerInv, LoseRun, Running
  <2>4. ASSUME NEW l \in Tasks, NEW pair \in Pairs, NEW outcome \in Outcomes, Evaluate(l, pair, outcome)
        PROVE  TrackerInv'
    <3>1. [pair |-> pair, outcome |-> outcome] \in ResultType
      BY DEF ResultType
    <3>2. Append(runs[l], [pair |-> pair, outcome |-> outcome]) \in Seq(ResultType)
      BY <2>4, <3>1 DEF TrackerInv, Evaluate
    <3>3. portfolio' \in PortfolioType
      <4>1. PICK marked \in Equities, equity \in Equities :
              portfolio' = [Valued(Valued(portfolio, marked), equity) EXCEPT
                              !.fees = @ + IF outcome \in Fills THEN 1 ELSE 0]
        BY <2>4 DEF Evaluate
      <4>2. Valued(Valued(portfolio, marked), equity) \in PortfolioType
        BY ValuedType DEF TrackerInv
      <4> QED BY <4>1, <4>2 DEF PortfolioType
    <3> QED BY <2>4, <3>2, <3>3 DEF TrackerInv, Evaluate, Running
  <2>5. ASSUME SaveSession PROVE TrackerInv'
    BY <2>5 DEF TrackerInv, SaveSession, Running
  <2>6. ASSUME Reset PROVE TrackerInv'
    BY <2>6, NewAgrees DEF TrackerInv, Reset, Running
  <2>7. ASSUME Restart PROVE TrackerInv'
    <3>1. Agrees(tracker') /\ portfolio' \in PortfolioType
      <4>1. CASE file = None
        BY <2>7, <4>1, NewAgrees DEF Restart
      <4>2. CASE file # None
        <5>1. Agrees(file.tracker) /\ file.portfolio \in PortfolioType /\ today \in Nat
          BY <4>2 DEF TrackerInv
        <5>2. tracker' = SyncPortfolio(file.tracker, file.portfolio, today) /\ portfolio' = file.portfolio
          BY <2>7, <4>2, <5>1, ImportedWhole DEF Restart, Reloaded, Agrees
        <5> QED BY <5>1, <5>2, SyncAgrees DEF Agrees
      <4> QED BY <4>1, <4>2
    <3> QED BY <2>7, <3>1 DEF TrackerInv, Restart, Running
  <2>8. ASSUME Midnight PROVE TrackerInv'
    BY <2>8 DEF TrackerInv, Midnight, Running
  <2>9. CASE UNCHANGED trackerVars
    BY <2>9 DEF TrackerInv, trackerVars, Running
  <2> QED BY <2>1, <2>2, <2>3, <2>4, <2>5, <2>6, <2>7, <2>8, <2>9 DEF TrackerNext
<1> QED BY <1>1, <1>2, PTL DEF TrackerSpec

\* Whatever runs are lost, whenever the session is saved and the process dies,
\* the totals, the statistics by pair and the list of trades tell of the same
\* opportunities (record_detected, record_risk, record_execution,
\* _register_trade, import_state), whether one loop ingests its runs or several
\* do.
THEOREM TotalsStayInAgreement == TrackerSpec => []TotalsAgree
<1>1. TrackerInv => TotalsAgree
  BY TotalsAreOfTracker DEF TrackerInv, Agrees
<1> QED BY <1>1, TrackerInvariance, PTL

\* The results of the days add up to the result of the session, over nights in
\* the middle of a run, days without a cycle and restarts (_roll_daily).
THEOREM DaysTellAll == TrackerSpec => []DaysAddUp
<1>1. TrackerInv => DaysAddUp
  BY DEF TrackerInv, Agrees, DaysOf, DaysAddUp, Nets
<1> QED BY <1>1, TrackerInvariance, PTL

-----------------------------------------------------------------------------
(* The fees, of a session that one loop ingests.                           *)

FilledOnes == {o \in ResultType : o.outcome \in Fills}

\* Recording a run adds a fee for each of its fills.
LEMMA FeesOfRun ==
  ASSUME NEW t, Agrees(t), NEW results \in Seq(ResultType)
  PROVE  Recorded(t, results).fees = t.fees + CountIn(results, FilledOnes)
<1> DEFINE T == TrackerType
           l == Len(results)
           C(k) == {i \in 1 .. k : results[i] \in FilledOnes}
<1>1. t \in T /\ l \in Nat /\ \A i \in 1 .. l : results[i] \in ResultType
  BY DEF Agrees
<1>2. \A u \in T, o \in ResultType :
        Record(u, o) \in T /\ Record(u, o).fees = u.fees + One(o.outcome \in Fills)
  BY RecordEffect DEF AddsToTotals
<1>3. \A u \in T : u.fees \in Nat
  BY DEF TrackerType
<1> HIDE DEF T
<1>4. PICK h \in [0 .. l -> T] :
        /\ h[0] = t /\ h[l] = Recorded(t, results)
        /\ \A i \in 1 .. l : h[i] = Record(h[i - 1], results[i])
  <2> DEFINE R == ResultType
  <2>1. t \in T /\ results \in Seq(R) /\ \A u \in T, o \in R : Record(u, o) \in T
    BY <1>1, <1>2
  <2> HIDE DEF R
  <2>2. \E h \in [0 .. Len(results) -> T] : Steps(h, t, results)
    BY <2>1, RecordedStepwise
  <2> QED BY <2>2 DEF Steps
<1> DEFINE N == {k \in Nat : k <= l => IsFiniteSet(C(k)) /\ h[k].fees = t.fees + Cardinality(C(k))}
<1>5. 0 \in N
  <2>1. C(0) = {}
    OBVIOUS
  <2>2. h[0].fees = t.fees + 0
    BY <1>1, <1>3, <1>4
  <2> HIDE DEF C
  <2> QED BY <2>1, <2>2, FS_EmptySet
<1>6. ASSUME NEW k \in Nat, k \in N PROVE k + 1 \in N
  <2> SUFFICES ASSUME k + 1 <= l
               PROVE  IsFiniteSet(C(k + 1)) /\ h[k + 1].fees = t.fees + Cardinality(C(k + 1))
    OBVIOUS
  <2> DEFINE o == results[k + 1]
  <2>1. /\ k + 1 \in 1 .. l /\ k \in 0 .. l /\ (k + 1) - 1 = k
        /\ IsFiniteSet(C(k)) /\ h[k].fees = t.fees + Cardinality(C(k))
    BY <1>1, <1>6
  <2>2. h[k] \in T /\ o \in ResultType /\ h[k + 1] = Record(h[k], o)
    BY <1>1, <1>4, <2>1
  <2>3. h[k + 1].fees = h[k].fees + One(o.outcome \in Fills)
    BY <1>2, <2>2
  <2>4. C(k + 1) = IF o.outcome \in Fills THEN C(k) \cup {k + 1} ELSE C(k)
    <3>1. \A i : i \in 1 .. (k + 1) <=> i \in 1 .. k \/ i = k + 1
      OBVIOUS
    <3>2. o \in FilledOnes <=> o.outcome \in Fills
      BY <2>2 DEF FilledOnes
    <3> QED BY <3>1, <3>2
  <2>5. k + 1 \notin C(k)
    OBVIOUS
  <2> HIDE DEF C, o
  <2>6. /\ Cardinality(C(k)) \in Nat /\ IsFiniteSet(C(k) \cup {k + 1})
        /\ Cardinality(C(k) \cup {k + 1}) = Cardinality(C(k)) + 1
    BY <2>1, <2>5, FS_CardinalityType, FS_AddElement
  <2>7. t.fees \in Nat
    BY <1>1, <1>3
  <2> DEFINE n == Cardinality(C(k))
             m == h[k].fees
             f == t.fees
  <2>8. n \in Nat /\ m \in Nat /\ f \in Nat /\ m = f + n
    BY <2>1, <2>6, <2>7
  <2> HIDE DEF n, m, f
  <2>9. m + 1 = f + (n + 1) /\ m + 0 = f + n
    BY <2>8
  <2>10. CASE o.outcome \in Fills
    <3>1. C(k + 1) = C(k) \cup {k + 1} /\ h[k + 1].fees = m + 1
      BY <2>3, <2>4, <2>10 DEF One, m
    <3> QED BY <2>6, <2>9, <3>1 DEF n, f
  <2>11. CASE o.outcome \notin Fills
    <3>1. C(k + 1) = C(k) /\ h[k + 1].fees = m + 0
      BY <2>3, <2>4, <2>11 DEF One, m
    <3> QED BY <2>1, <2>9, <3>1 DEF n, f
  <2> QED BY <2>10, <2>11
<1>7. h[l].fees = t.fees + Cardinality(C(l))
  <2>1. l \in N
    <3> HIDE DEF N
    <3> QED BY <1>1, <1>5, <1>6, NatByInduction
  <2> HIDE DEF C, l
  <2> QED BY <1>1, <2>1
<1>8. C(l) = {i \in DOMAIN results : results[i] \in FilledOnes}
  OBVIOUS
<1>9. CountIn(results, FilledOnes) = Cardinality(C(l))
  BY <1>8 DEF CountIn
<1> HIDE DEF C, l, N
<1> QED BY <1>4, <1>7, <1>9

\* A run that has begun is one that is not over.
Unrecorded(l) == IF Running(l) THEN CountIn(runs[l], FilledOnes) ELSE 0

\* What is recorded and what the run under way has filled has been paid for.
FeesInv(one) ==
  /\ tracker.fees + Unrecorded(one) <= portfolio.fees
  /\ file # None => file.tracker.fees <= file.portfolio.fees

\* The fees of a tracker, of which the portfolio's are as many or more, are
\* the portfolio's once they are synchronized.
LEMMA FeesKnownAre ==
  ASSUME NEW t, NEW p, t.fees \in Nat, p.fees \in Nat, t.fees <= p.fees
  PROVE  FeesKnown(t, p) = p.fees
  BY DEF FeesKnown, Larger

\* What is counted are numbers.
LEMMA RunCounts ==
  ASSUME TrackerInv, NEW l \in Tasks
  PROVE  /\ Unrecorded(l) \in Nat /\ tracker.fees \in Nat /\ portfolio.fees \in Nat
         /\ Len(tracker.opportunities) \in Nat
<1>1. Running(l) => CountIn(runs[l], FilledOnes) \in Nat
  <2> SUFFICES ASSUME Running(l) PROVE CountIn(runs[l], FilledOnes) \in Nat
    OBVIOUS
  <2> DEFINE results == runs[l]
             S == {i \in DOMAIN results : results[i] \in FilledOnes}
  <2>1. results \in Seq(ResultType)
    BY DEF TrackerInv
  <2>2. Len(results) \in Nat /\ S \subseteq 1 .. Len(results)
    BY <2>1
  <2>3. IsFiniteSet(S)
    <3>1. IsFiniteSet(1 .. Len(results))
      BY <2>2, FS_Interval
    <3> HIDE DEF S, results
    <3> QED BY <2>2, <3>1, FS_Subset
  <2>4. Cardinality(S) \in Nat
    <3> HIDE DEF S
    <3> QED BY <2>3, FS_CardinalityType
  <2> QED BY <2>4 DEF CountIn
<1> QED BY <1>1 DEF Unrecorded, TrackerInv, Agrees, TrackerType, PortfolioType

\* What every step does to the fees, of one loop.
LEMMA FeesStep ==
  ASSUME NEW one, Tasks = {one}, TrackerInv, FeesInv(one), [TrackerNext]_trackerVars
  PROVE  /\ FeesInv(one)'
         /\ tracker'.fees <= portfolio'.fees
         /\ Len(tracker'.opportunities) > Len(tracker.opportunities)
              => tracker'.fees = portfolio'.fees
<1>0. /\ Unrecorded(one) \in Nat /\ tracker.fees \in Nat /\ portfolio.fees \in Nat
      /\ Len(tracker.opportunities) \in Nat
      /\ tracker.fees + Unrecorded(one) <= portfolio.fees
      /\ file # None => file.tracker.fees <= file.portfolio.fees
      /\ runs \in [Tasks -> {runs[l] : l \in Tasks}]
      /\ ~(Len(tracker.opportunities) > Len(tracker.opportunities))
  BY RunCounts DEF FeesInv, TrackerInv
<1>a. CountIn(<<>>, FilledOnes) = 0
  <2>1. {i \in DOMAIN <<>> : <<>>[i] \in FilledOnes} = {}
    OBVIOUS
  <2> QED BY <2>1, FS_EmptySet DEF CountIn
<1>1. CASE BeginRun(one)
  <2>1. runs'[one] = <<>> /\ Unrecorded(one) = 0
    BY <1>0, <1>1 DEF BeginRun, Unrecorded
  <2>2. Unrecorded(one)' = 0
    BY <1>a, <2>1 DEF Unrecorded
  <2> QED BY <1>0, <1>1, <2>1, <2>2 DEF BeginRun, FeesInv
<1>2. CASE EndRun(one)
  <2> DEFINE t == Recorded(tracker, runs[one])
  <2>1. tracker' = Ingested(runs[one]) /\ portfolio' = portfolio /\ Unrecorded(one)' = 0
    BY <1>0, <1>2 DEF EndRun, Unrecorded, Running
  <2>2. /\ Ingested(runs[one]).fees = FeesKnown(t, portfolio)
        /\ Unrecorded(one) = CountIn(runs[one], FilledOnes) /\ runs[one] \in Seq(ResultType)
    BY <1>2, IngestedAgrees DEF EndRun, Unrecorded, TrackerInv
  <2>3. t.fees = tracker.fees + Unrecorded(one)
    <3> DEFINE results == runs[one]
    <3>1. results \in Seq(ResultType) /\ Agrees(tracker)
      BY <2>2 DEF TrackerInv
    <3> HIDE DEF results
    <3>2. Recorded(tracker, results).fees = tracker.fees + CountIn(results, FilledOnes)
      BY <3>1, FeesOfRun
    <3> QED BY <2>2, <3>2 DEF results
  <2> HIDE DEF t
  <2>4. FeesKnown(t, portfolio) = portfolio.fees
    BY <1>0, <2>3, FeesKnownAre
  <2>5. tracker'.fees = portfolio'.fees /\ portfolio'.fees \in Nat
    BY <1>0, <2>1, <2>2, <2>4
  <2>6. file' = [portfolio |-> portfolio, tracker |-> tracker'] \/ file' = file
    BY <1>2 DEF EndRun
  <2>7. file' # None => file'.tracker.fees <= file'.portfolio.fees
    BY <1>0, <2>1, <2>5, <2>6
  <2>8. tracker'.fees + Unrecorded(one)' <= portfolio'.fees /\ tracker'.fees <= portfolio'.fees
    BY <2>1, <2>5
  <2> QED BY <2>5, <2>7, <2>8 DEF FeesInv
<1>3. CASE LoseRun(one)
  <2>1. Unrecorded(one)' = 0
    BY <1>0, <1>3 DEF LoseRun, Unrecorded, Running
  <2> QED BY <1>0, <1>3, <2>1 DEF LoseRun, FeesInv
<1>4. ASSUME NEW pair \in Pairs, NEW outcome \in Outcomes, Evaluate(one, pair, outcome)
      PROVE  /\ FeesInv(one)' /\ tracker'.fees <= portfolio'.fees
             /\ Len(tracker'.opportunities) > Len(tracker.opportunities)
                  => tracker'.fees = portfolio'.fees
  <2> DEFINE o == [pair |-> pair, outcome |-> outcome]
             results == runs[one]
  <2>1. /\ Running(one) /\ results \in Seq(ResultType) /\ o \in ResultType /\ o.outcome = outcome
    BY <1>4 DEF Evaluate, TrackerInv, ResultType
  <2>2. runs'[one] = Append(results, o) /\ Unrecorded(one) = CountIn(results, FilledOnes)
    BY <1>0, <1>4, <2>1 DEF Evaluate, Unrecorded
  <2>3. portfolio'.fees = portfolio.fees + One(outcome \in Fills)
    <3>1. PICK marked \in Equities, equity \in Equities :
            portfolio' = [Valued(Valued(portfolio, marked), equity) EXCEPT
                            !.fees = @ + IF outcome \in Fills THEN 1 ELSE 0]
      BY <1>4 DEF Evaluate
    <3> DEFINE p == Valued(Valued(portfolio, marked), equity)
    <3>2. p \in PortfolioType /\ p.fees = portfolio.fees
      BY ValuedType DEF TrackerInv
    <3>3. portfolio' = [p EXCEPT !.fees = @ + One(outcome \in Fills)]
      BY <3>1 DEF One
    <3> HIDE DEF p
    <3> QED BY <3>2, <3>3 DEF PortfolioType
  <2>4. o \in FilledOnes <=> outcome \in Fills
    BY <2>1 DEF FilledOnes
  <2> HIDE DEF o, results
  <2>5. CountIn(Append(results, o), FilledOnes) = CountIn(results, FilledOnes) + One(o \in FilledOnes)
    BY <2>1, CountOfAppend
  <2>6. Unrecorded(one)' \in {Unrecorded(one) + One(outcome \in Fills), 0}
    BY <2>2, <2>4, <2>5 DEF Unrecorded, One
  <2>7. tracker' = tracker /\ file' = file
    BY <1>4 DEF Evaluate
  <2>8. tracker'.fees + Unrecorded(one)' <= portfolio'.fees /\ tracker'.fees <= portfolio'.fees
    BY <1>0, <2>3, <2>6, <2>7 DEF One
  <2> QED BY <1>0, <2>7, <2>8 DEF FeesInv
<1>5. CASE SaveSession
  <2>1. Unrecorded(one)' = Unrecorded(one)
    BY <1>5 DEF SaveSession, Unrecorded, Running
  <2> QED BY <1>0, <1>5, <2>1 DEF SaveSession, FeesInv
<1>6. CASE Reset
  <2>1. Unrecorded(one)' = 0
    BY <1>6 DEF Reset, Unrecorded, Running
  <2>2. tracker'.fees = 0 /\ portfolio'.fees = 0 /\ Len(tracker'.opportunities) = 0
        /\ file'.tracker.fees = 0 /\ file'.portfolio.fees = 0
    BY <1>6 DEF Reset, NewTracker, NewPortfolio
  <2> QED BY <1>0, <2>1, <2>2 DEF FeesInv
<1>7. CASE Restart
  <2>1. Unrecorded(one)' = 0 /\ file' = file
    BY <1>7 DEF Restart, Unrecorded, Running
  <2>2. tracker'.fees = portfolio'.fees /\ portfolio'.fees \in Nat
    <3>1. CASE file = None
      BY <1>7, <3>1 DEF Restart, NewTracker, NewPortfolio
    <3>2. CASE file # None
      <4>1. Agrees(file.tracker) /\ file.portfolio \in PortfolioType /\ today \in Nat
        BY <3>2 DEF TrackerInv
      <4>2. tracker' = SyncPortfolio(file.tracker, file.portfolio, today) /\ portfolio' = file.portfolio
        BY <1>7, <3>2, <4>1, ImportedWhole DEF Restart, Reloaded, Agrees
      <4>3. tracker'.fees = FeesKnown(file.tracker, file.portfolio)
        BY <4>1, <4>2, SyncAgrees DEF Agrees
      <4>4. file.tracker.fees \in Nat /\ file.portfolio.fees \in Nat
        BY <4>1 DEF Agrees, TrackerType, PortfolioType
      <4> QED BY <1>0, <3>2, <4>2, <4>3, <4>4, FeesKnownAre
    <3> QED BY <3>1, <3>2
  <2>3. tracker'.fees + Unrecorded(one)' <= portfolio'.fees /\ tracker'.fees <= portfolio'.fees
    BY <2>1, <2>2
  <2> QED BY <1>0, <2>1, <2>2, <2>3 DEF FeesInv
<1>8. CASE Midnight
  <2>1. Unrecorded(one)' = Unrecorded(one)
    BY <1>8 DEF Midnight, Unrecorded, Running
  <2> QED BY <1>0, <1>8, <2>1 DEF Midnight, FeesInv
<1>9. CASE UNCHANGED trackerVars
  <2>1. Unrecorded(one)' = Unrecorded(one)
    BY <1>9 DEF trackerVars, Unrecorded, Running
  <2> QED BY <1>0, <1>9, <2>1 DEF trackerVars, FeesInv
<1> QED BY <1>1, <1>2, <1>3, <1>4, <1>5, <1>6, <1>7, <1>8, <1>9 DEF TrackerNext

\* One loop at a time ingests its runs (FlagHasLoop and NoTwoLoops say when a
\* session has one): then the tracker never knows of more fees than have been
\* paid, and of all of them whenever it learns of an opportunity, whatever
\* runs were lost before (record_execution and sync_portfolio write both).
THEOREM FeesStayInAgreement ==
  ASSUME NEW one, Tasks = {one}
  PROVE  TrackerSpec => FeesAgree
<1>1. TrackerInit => FeesInv(one)
  BY DEF TrackerInit, FeesInv, Unrecorded, Running, NewTracker, NewPortfolio
<1>2. TrackerInv /\ FeesInv(one) /\ [TrackerNext]_trackerVars
        => /\ FeesInv(one)'
           /\ [/\ tracker'.fees <= portfolio'.fees
               /\ Len(tracker'.opportunities) > Len(tracker.opportunities)
                    => tracker'.fees = portfolio'.fees]_trackerVars
  BY FeesStep
<1>3. TrackerSpec => [][/\ tracker'.fees <= portfolio'.fees
                        /\ Len(tracker'.opportunities) > Len(tracker.opportunities)
                             => tracker'.fees = portfolio'.fees]_trackerVars
  BY <1>1, <1>2, TrackerInvariance, PTL DEF TrackerSpec
<1> QED BY <1>3, PTL DEF FeesAgree

-----------------------------------------------------------------------------
(* The drawdown, of any number of loops.                                   *)

LEMMA QuotientIs ==
  ASSUME NEW k \in Nat, NEW n \in Nat, n > 0
  PROVE  (k \div n) \in Nat /\ n * (k \div n) <= k /\ k < n * (k \div n) + n
  BY Z3

\* From a higher peak the equity has come down further.
LEMMA DrawdownGrows ==
  ASSUME NEW low \in Equities, NEW high \in Equities, NEW e \in Equities, low <= high, e <= low
  PROVE  Drawdown(low, e) <= Drawdown(high, e)
<1> DEFINE a == (100 * (low - e)) \div low
           b == (100 * (high - e)) \div high
<1>0. low \in Nat /\ high \in Nat /\ e \in Nat /\ low > 0 /\ high > 0
  BY TrackerAssumption DEF Equities
<1>1. a \in Nat /\ low * a <= 100 * (low - e)
  <2>1. 100 * (low - e) \in Nat
    BY <1>0
  <2> QED BY <1>0, <2>1, QuotientIs
<1>2. b \in Nat /\ 100 * (high - e) < high * b + high
  <2>1. 100 * (high - e) \in Nat
    BY <1>0
  <2> QED BY <1>0, <2>1, QuotientIs
<1> HIDE DEF a, b
<1>3. ~(b < a)
  <2> SUFFICES ASSUME b < a PROVE FALSE
    OBVIOUS
  <2>1. PICK d \in Nat : high = low + d
    <3>1. high - low \in Nat /\ high = low + (high - low)
      BY <1>0
    <3> QED BY <3>1
  <2>2. high * b + high <= high * a
    <3>1. \A x, y, z \in Nat : y + 1 <= z => x * y + x <= x * z
      BY Z3
    <3> QED BY <1>0, <1>1, <1>2, <3>1
  <2>3. high * a = low * a + d * a
    BY <1>0, <1>1, <2>1
  <2>4. d * a <= d * 100
    <3>1. low * a <= low * 100
      BY <1>0, <1>1
    <3>2. a <= 100
      BY <1>0, <1>1, <3>1, Z3
    <3> QED BY <1>1, <2>1, <3>2, Z3
  <2>5. 100 * (high - e) = 100 * (low - e) + d * 100
    BY <1>0, <2>1
  <2> DEFINE hb == high * b  ha == high * a  la == low * a  da == d * a
             hk == 100 * (high - e)  lk == 100 * (low - e)
  <2>6. /\ ha \in Int /\ hb \in Int /\ la \in Int /\ da \in Int
        /\ hk \in Int /\ lk \in Int /\ d * 100 \in Int
    BY <1>0, <1>1, <1>2, <2>1
  <2> HIDE DEF hb, ha, la, da, hk, lk
  <2> QED BY <1>0, <1>1, <1>2, <2>2, <2>3, <2>4, <2>5, <2>6 DEF hb, ha, la, da, hk, lk
<1>4. a <= b
  BY <1>1, <1>2, <1>3
<1> QED BY <1>4 DEF Drawdown, a, b

\* A portfolio has been through its drawdown.
Passed(p) == p.equity <= p.peak /\ Drawdown(p.peak, p.equity) <= p.worst

\* A tracker knows no higher peak and no worse drawdown than the portfolio.
Knows(t, p) == t.peak <= p.peak /\ t.worst <= p.worst

DrawdownInv ==
  /\ Passed(portfolio) /\ Knows(tracker, portfolio)
  /\ file # None => Passed(file.portfolio) /\ Knows(file.tracker, file.portfolio)

LEMMA NewPassed == Passed(NewPortfolio) /\ Knows(NewTracker, NewPortfolio)
<1>1. StartingEquity \in Nat /\ StartingEquity > 0 /\ 100 * (StartingEquity - StartingEquity) = 0
  BY TrackerAssumption
<1>2. (0 \div StartingEquity) = 0
  <2>1. /\ 0 \div StartingEquity \in Nat
        /\ StartingEquity * (0 \div StartingEquity) <= 0
    BY <1>1, QuotientIs
  <2> DEFINE q == 0 \div StartingEquity
  <2> HIDE DEF q
  <2>2. q \in Nat /\ StartingEquity * q <= 0
    BY <2>1 DEF q
  <2>3. q = 0
    BY <1>1, <2>2, Z3
  <2> QED BY <2>3 DEF q
<1>3. Drawdown(StartingEquity, StartingEquity) = 0
  BY <1>1, <1>2 DEF Drawdown
<1> QED BY <1>1, <1>3 DEF Passed, Knows, NewPortfolio, NewTracker

\* A change of the equity is passed through, and what was known stays so.
LEMMA ValuedPasses ==
  ASSUME NEW p \in PortfolioType, NEW equity \in Equities, NEW t \in TrackerType, Knows(t, p)
  PROVE  Passed(Valued(p, equity)) /\ Knows(t, Valued(p, equity))
<1> DEFINE peak == Larger(p.peak, equity)
           dd == Drawdown(peak, equity)
           worst == Larger(p.worst, dd)
<1>1. /\ p.peak \in Equities /\ p.worst \in Int /\ p.peak \in Int /\ equity \in Int
      /\ t.peak \in Int /\ t.worst \in Int
  BY TrackerFields DEF PortfolioType, Equities
<1>2. peak \in Equities /\ peak >= p.peak /\ peak >= equity /\ peak \in Int
  BY <1>1, LargerOf DEF Larger
<1>3. dd \in Int
  BY <1>2, DrawdownType
<1> HIDE DEF peak, dd
<1>4. worst \in Int /\ worst >= p.worst /\ worst >= dd
  BY <1>1, <1>3, LargerOf
<1>5. Valued(p, equity) = [p EXCEPT !.equity = equity, !.peak = peak, !.worst = worst]
  BY DEF Valued, peak, dd
<1> HIDE DEF worst
<1>6. LET v == Valued(p, equity) IN v.equity = equity /\ v.peak = peak /\ v.worst = worst
  BY <1>5 DEF PortfolioType
<1> QED BY <1>1, <1>2, <1>3, <1>4, <1>6 DEF Passed, Knows, dd

\* sync_portfolio brings the tracker to the worst the portfolio has passed.
LEMMA SyncKnows ==
  ASSUME NEW t \in TrackerType, NEW p \in PortfolioType, Passed(p), Knows(t, p), NEW date
  PROVE  LET u == SyncPortfolio(t, p, date) IN u.worst = p.worst /\ u.peak <= p.peak
<1> DEFINE peak == Larger(t.peak, p.equity)
           dd == Drawdown(peak, p.equity)
           s == [t EXCEPT !.equity = p.equity, !.fees = FeesKnown(t, p), !.peak = peak,
                          !.worst = WorstKnown(t, p, dd)]
<1>1. /\ t.peak \in Equities /\ p.peak \in Equities /\ p.equity \in Equities
      /\ t.worst \in Int /\ p.worst \in Int
      /\ t.peak \in Int /\ p.peak \in Int /\ p.equity \in Int
  BY TrackerFields DEF PortfolioType, Equities
<1>2. peak \in Equities /\ peak >= p.equity /\ peak <= p.peak
  BY <1>1, LargerOf DEF Larger, Passed, Knows
<1>3. dd <= Drawdown(p.peak, p.equity) /\ dd \in Int /\ Drawdown(p.peak, p.equity) \in Int
  BY <1>1, <1>2, DrawdownGrows, DrawdownType
<1> HIDE DEF peak, dd
<1>4. WorstKnown(t, p, dd) = p.worst
  BY <1>1, <1>3 DEF WorstKnown, Larger, Passed, Knows
<1>5. s.worst = p.worst /\ s.peak = peak /\ DOMAIN s = DOMAIN t
  BY <1>4 DEF TrackerType
<1>6. PICK after : SyncPortfolio(t, p, date) = [s EXCEPT !.days = after]
  BY DEF SyncPortfolio, RollDaily, peak, dd
<1> HIDE DEF s
<1>7. LET u == [s EXCEPT !.days = after] IN u.worst = s.worst /\ u.peak = s.peak
  <2>1. "worst" \in DOMAIN s /\ "peak" \in DOMAIN s
    BY <1>5 DEF TrackerType
  <2> QED BY <2>1
<1> QED BY <1>2, <1>5, <1>6, <1>7

LEMMA DrawdownStep ==
  ASSUME TrackerInv, TrackerInv', DrawdownInv, [TrackerNext]_trackerVars
  PROVE  /\ DrawdownInv'
         /\ tracker'.worst <= portfolio'.worst
         /\ Len(tracker'.opportunities) > Len(tracker.opportunities)
              => tracker'.worst = portfolio'.worst
<1>0. /\ tracker \in TrackerType /\ portfolio \in PortfolioType
      /\ tracker.worst <= portfolio.worst /\ Len(tracker.opportunities) \in Nat
      /\ portfolio.worst \in Int /\ portfolio'.worst \in Int
      /\ ~(Len(tracker.opportunities) > Len(tracker.opportunities))
  <2>1. tracker \in TrackerType /\ portfolio \in PortfolioType /\ portfolio' \in PortfolioType
    BY DEF TrackerInv, Agrees
  <2>2. tracker.worst <= portfolio.worst
    BY DEF DrawdownInv, Knows
  <2>3. tracker.opportunities \in Seq(OpportunityType)
    BY <2>1, TrackerFields
  <2>4. Len(tracker.opportunities) \in Nat
    BY <2>3, LenProperties
  <2>5. portfolio.worst \in Int /\ portfolio'.worst \in Int
    BY <2>1 DEF PortfolioType
  <2> QED BY <2>1, <2>2, <2>4, <2>5, SMT
<1>1. CASE UNCHANGED <<portfolio, tracker, file>>
  BY <1>0, <1>1 DEF DrawdownInv
<1>2. ASSUME NEW l \in Tasks, EndRun(l)
      PROVE  DrawdownInv' /\ tracker'.worst = portfolio'.worst
  <2> DEFINE t == Recorded(tracker, runs[l])
  <2>1. runs[l] \in Seq(ResultType) /\ Agrees(tracker)
    BY <1>2 DEF EndRun, TrackerInv
  <2>2. t \in TrackerType /\ t.peak = tracker.peak /\ t.worst = tracker.worst
    BY <2>1, RunIsRecorded
  <2>3. tracker' = SyncPortfolio(t, portfolio, today) /\ portfolio' = portfolio
    BY <1>2 DEF EndRun, Ingested, Recorded
  <2> HIDE DEF t
  <2>4. tracker'.worst = portfolio.worst /\ tracker'.peak <= portfolio.peak
    BY <1>0, <2>2, <2>3, SyncKnows DEF DrawdownInv, Knows
  <2>5. Knows(tracker', portfolio')
    BY <1>0, <2>3, <2>4 DEF Knows
  <2>6. \/ file' = [portfolio |-> portfolio, tracker |-> tracker']
        \/ file' = file
    BY <1>2 DEF EndRun
  <2> QED BY <2>3, <2>4, <2>5, <2>6 DEF DrawdownInv
<1>3. ASSUME NEW l \in Tasks, NEW pair \in Pairs, NEW outcome \in Outcomes, Evaluate(l, pair, outcome)
      PROVE  DrawdownInv' /\ UNCHANGED tracker
  <2>1. PICK marked \in Equities, equity \in Equities :
          portfolio' = [Valued(Valued(portfolio, marked), equity) EXCEPT
                          !.fees = @ + IF outcome \in Fills THEN 1 ELSE 0]
    BY <1>3 DEF Evaluate
  <2> DEFINE once == Valued(portfolio, marked)
             twice == Valued(once, equity)
  <2>2. once \in PortfolioType /\ Knows(tracker, once)
    BY <1>0, ValuedType, ValuedPasses DEF DrawdownInv
  <2> HIDE DEF once
  <2>3. twice \in PortfolioType /\ Passed(twice) /\ Knows(tracker, twice)
    BY <1>0, <2>2, ValuedType, ValuedPasses
  <2>4. portfolio' = [twice EXCEPT !.fees = @ + IF outcome \in Fills THEN 1 ELSE 0]
    BY <2>1 DEF once
  <2> HIDE DEF twice
  <2>5. portfolio'.equity = twice.equity /\ portfolio'.peak = twice.peak /\ portfolio'.worst = twice.worst
    BY <2>3, <2>4 DEF PortfolioType
  <2>6. tracker' = tracker /\ file' = file
    BY <1>3 DEF Evaluate
  <2> QED BY <2>3, <2>5, <2>6 DEF DrawdownInv, Passed, Knows
<1>4. CASE SaveSession
  BY <1>0, <1>4 DEF SaveSession, DrawdownInv
<1>5. CASE Reset
  <2>1. /\ portfolio' = NewPortfolio /\ tracker' = NewTracker
        /\ file' = [portfolio |-> NewPortfolio, tracker |-> NewTracker]
    BY <1>5 DEF Reset
  <2>2. tracker'.worst = portfolio'.worst
    BY <2>1 DEF NewPortfolio, NewTracker
  <2> QED BY <1>0, <2>1, <2>2, NewPassed DEF DrawdownInv
<1>6. CASE Restart
  <2>1. CASE file = None
    <3>1. portfolio' = NewPortfolio /\ tracker' = NewTracker /\ file' = file
      BY <1>6, <2>1 DEF Restart
    <3>2. tracker'.worst = portfolio'.worst
      BY <3>1 DEF NewPortfolio, NewTracker
    <3> QED BY <1>0, <2>1, <3>1, <3>2, NewPassed DEF DrawdownInv
  <2>2. CASE file # None
    <3>1. /\ Agrees(file.tracker) /\ file.portfolio \in PortfolioType
          /\ Passed(file.portfolio) /\ Knows(file.tracker, file.portfolio)
      BY <2>2 DEF TrackerInv, DrawdownInv
    <3>2. /\ tracker' = SyncPortfolio(file.tracker, file.portfolio, today)
          /\ portfolio' = file.portfolio /\ file' = file
      BY <1>6, <2>2, <3>1, ImportedWhole DEF Restart, Reloaded, Agrees
    <3>3. tracker'.worst = portfolio'.worst /\ tracker'.peak <= portfolio'.peak
      BY <3>1, <3>2, SyncKnows DEF Agrees
    <3> QED BY <1>0, <3>1, <3>2, <3>3 DEF DrawdownInv, Knows
  <2> QED BY <2>1, <2>2
<1>7. ASSUME NEW l \in Tasks, BeginRun(l) \/ LoseRun(l) PROVE UNCHANGED <<portfolio, tracker, file>>
  BY <1>7 DEF BeginRun, LoseRun
<1>8. ASSUME Midnight \/ UNCHANGED trackerVars PROVE UNCHANGED <<portfolio, tracker, file>>
  BY <1>8 DEF Midnight, trackerVars
<1>9. ASSUME DrawdownInv', UNCHANGED tracker
      PROVE  /\ tracker'.worst <= portfolio'.worst
             /\ ~(Len(tracker'.opportunities) > Len(tracker.opportunities))
  BY <1>0, <1>9 DEF DrawdownInv, Knows
<1>10. CASE \E l \in Tasks : EndRun(l)
  BY <1>0, <1>2, <1>10
<1>11. CASE \E l \in Tasks : \E pair \in Pairs, outcome \in Outcomes : Evaluate(l, pair, outcome)
  BY <1>3, <1>9, <1>11
<1> QED BY <1>1, <1>4, <1>5, <1>6, <1>7, <1>8, <1>10, <1>11 DEF TrackerNext

\* However many loops ingest their runs, the tracker never reports a worse
\* drawdown than the portfolio has been through, and the worst it has been
\* through whenever it learns of an opportunity: falls within a run, of runs
\* that were lost and before a restart count (_update_drawdown, sync_portfolio,
\* load).
THEOREM DrawdownsStayInAgreement == TrackerSpec => DrawdownsAgree
<1>1. TrackerInit => DrawdownInv
  BY NewPassed DEF TrackerInit, DrawdownInv
<1>2. TrackerInv /\ TrackerInv' /\ DrawdownInv /\ [TrackerNext]_trackerVars
        => /\ DrawdownInv'
           /\ [/\ tracker'.worst <= portfolio'.worst
               /\ Len(tracker'.opportunities) > Len(tracker.opportunities)
                    => tracker'.worst = portfolio'.worst]_trackerVars
  BY DrawdownStep
<1>3. TrackerSpec => [][/\ tracker'.worst <= portfolio'.worst
                        /\ Len(tracker'.opportunities) > Len(tracker.opportunities)
                             => tracker'.worst = portfolio'.worst]_trackerVars
  BY <1>1, <1>2, TrackerInvariance, PTL DEF TrackerSpec
<1> QED BY <1>3, PTL DEF DrawdownsAgree

=============================================================================
