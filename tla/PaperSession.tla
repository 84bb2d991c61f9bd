---------------------------- MODULE PaperSession ----------------------------
(***************************************************************************)
(* The paper-trading session (bot/paper/runner.py): the API calls start,   *)
(* stop, reset and shutdown, the loop task they create and cancel, and the *)
(* cycles of that loop through the trading engine.                         *)
(*                                                                         *)
(* Everything runs on one event loop, so that a step extends from one      *)
(* suspension to the next.  A call suspends when start waits for the first *)
(* hydration of the shared market data and when stop waits for the task it *)
(* cancelled.  A loop suspends between cycles, and in the simulated        *)
(* latency of the executor (paper_simulated_latency_ms > 0) just before an *)
(* approved order is filled.                                               *)
(*                                                                         *)
(* A portfolio and the tracker of the same session have one number, which  *)
(* reset advances.  Of both only the number of fills is kept.              *)
(*                                                                         *)
(* The process may die at any suspension, or inside a step; the next one   *)
(* takes up what the session file holds (bot/paper/store.py).              *)
(***************************************************************************)
EXTENDS Integers, FiniteSets

CONSTANTS
  Calls,          \* API calls that may be under way together
  MaxLoops,       \* bound: loop tasks a process ever creates
  MaxFills,       \* bound: fills of one portfolio
  MaxGeneration,  \* bound: resets
  MaxCrashes      \* bound: processes that die

ASSUME SessionAssumption ==
  /\ IsFiniteSet(Calls)
  /\ MaxLoops \in Nat \ {0}
  /\ MaxFills \in Nat
  /\ MaxGeneration \in Nat
  /\ MaxCrashes \in Nat

Loops == 1 .. MaxLoops
NoTask == 0
Generations == 0 .. MaxGeneration

VARIABLES
  running,        \* _running
  task,           \* _task
  loops,          \* the loop tasks: where each is suspended, what it holds
  calls,          \* where each API call is suspended
  marketStarted,  \* MarketDataService._started
  blocked,        \* the kill switch blocks new orders
  generation,     \* which portfolio, tracker and engine the runner has
  ledger,         \* fills of each portfolio
  tracked,        \* fills recorded by each tracker
  rows,           \* fill rows of the store, InMemoryPaperStore.fills
  disk,           \* the session file: {} when there is none, else {what it holds}
  crashes,        \* processes that died
  overlapped      \* two API calls have been under way together (history)

callVars == <<running, task, calls, marketStarted, overlapped, crashes>>
records == <<tracked, rows>>
bookVars == <<generation, ledger, records>>
vars == <<callVars, loops, blocked, bookVars, disk>>

\* "ready": about to test its condition and run a cycle; "placing": in the
\* latency of an approved order; "resting": between cycles.  `engine` is the
\* portfolio that the cycle under way trades, `unrecorded` the fills of the
\* run of the engine under way, which are in its result only.
LoopStates ==
  [pc : {"none", "ready", "placing", "resting", "over"}, cancelled : BOOLEAN,
   engine : Generations, unrecorded : 0 .. MaxFills]

NewLoop == [pc |-> "none", cancelled |-> FALSE, engine |-> 0, unrecorded |-> 0]

Kinds == {"stop", "reset", "shutdown"}

CallStates ==
  [pc : {"idle", "hydrating", "joining"}, kind : Kinds \cup {"start"}, loop : Loops \cup {NoTask}]

Idle == [pc |-> "idle", kind |-> "start", loop |-> NoTask]

Live(l) == loops[l].pc \notin {"none", "over"}

\* What persist writes.  The flag of the running session and the runtime are
\* left out: no process starts from them.
Session ==
  [generation |-> generation, ledger |-> ledger[generation], tracked |-> tracked[generation],
   rows |-> rows]

\* The file is replaced whole, by a rename.
Persist == disk' = {Session'}

\* The histories, when call `c` does something: others may be waiting.
Overlap(c) ==
  /\ overlapped' = (overlapped \/ \E d \in Calls \ {c} : calls[d] # Idle)
  /\ UNCHANGED crashes

-----------------------------------------------------------------------------
(* start.                                                                  *)

\* The loop task is created and remembered; another one that `task` held is
\* forgotten, not cancelled.
Launch ==
  \E l \in Loops :
    /\ loops[l].pc = "none"
    /\ \A k \in Loops : k < l => loops[k].pc # "none"
    /\ loops' = [loops EXCEPT ![l].pc = "ready"]
    /\ task' = l
    /\ running' = TRUE
    /\ UNCHANGED <<blocked, bookVars>>
    /\ Persist

MayStart == ~running

\* The first start of a process hydrates the market data before the session
\* counts as running.
Start(c) ==
  /\ Overlap(c)
  /\ calls[c] = Idle
  /\ MayStart
  /\ IF marketStarted
     THEN Launch /\ UNCHANGED <<calls, marketStarted>>
     ELSE /\ marketStarted' = TRUE
          /\ calls' = [calls EXCEPT ![c].pc = "hydrating"]
          /\ UNCHANGED <<running, task, loops, blocked, bookVars, disk>>

\* The rest of start after the hydration; `running` is not looked at again.
StartHydrated(c) ==
  /\ Overlap(c)
  /\ calls[c].pc = "hydrating"
  /\ calls' = [calls EXCEPT ![c] = Idle]
  /\ Launch
  /\ UNCHANGED marketStarted

\* The hydration raises: start fails, the market data count as started.
StartFailed(c) ==
  /\ Overlap(c)
  /\ calls[c].pc = "hydrating"
  /\ calls' = [calls EXCEPT ![c] = Idle]
  /\ UNCHANGED <<running, task, marketStarted, loops, blocked, bookVars, disk>>

-----------------------------------------------------------------------------
(* stop, reset, shutdown.                                                  *)

\* Mutant: reset keeps the tracker of the old session.
ResetKeepsTracker ==
  /\ generation' = generation + 1
  /\ tracked' = [tracked EXCEPT ![generation + 1] = tracked[generation]]
  /\ rows' = 0
  /\ UNCHANGED ledger

\* A new portfolio, tracker, executor and engine, and an emptied store.
Swap ==
  /\ generation' = generation + 1
  /\ rows' = 0
  /\ UNCHANGED <<ledger, tracked>>

\* Mutant: stop leaves what it stopped unsaved.
KeepDisk == UNCHANGED disk

\* Mutant: reset saves before the new portfolio is there.
SaveFirst == disk' = {Session}

SaveStopped == Persist

\* What follows once the loop is stopped.
Finish(kind) ==
  /\ IF kind = "reset" THEN Swap ELSE UNCHANGED bookVars
  /\ SaveStopped

CancelTask(l) == loops' = [loops EXCEPT ![l].cancelled = Live(l)]

\* The bound on resets, which counts those still waiting for their loop.
MayBegin(kind) ==
  kind = "reset" =>
    generation + Cardinality({c \in Calls : calls[c].pc = "joining" /\ calls[c].kind = "reset"})
      < MaxGeneration

\* A call on a session that runs: the loop of `task` is cancelled and joined.
Stop(c, kind) ==
  /\ Overlap(c)
  /\ calls[c] = Idle /\ MayBegin(kind)
  /\ running
  /\ running' = FALSE
  /\ IF task = NoTask
     THEN Finish(kind) /\ UNCHANGED <<task, loops, calls>>
     ELSE /\ CancelTask(task)
          /\ calls' = [calls EXCEPT ![c] = [pc |-> "joining", kind |-> kind, loop |-> task]]
          /\ UNCHANGED <<task, bookVars, disk>>
  /\ UNCHANGED <<marketStarted, blocked>>

\* stop returns at once when nothing runs; shutdown saves and reset swaps.
StopIdle(c, kind) ==
  /\ Overlap(c)
  /\ calls[c] = Idle /\ MayBegin(kind)
  /\ ~running /\ kind # "stop"
  /\ UNCHANGED <<running, task, calls, marketStarted, loops, blocked>>
  /\ Finish(kind)

\* The awaited task is over.  `task` is cleared, whatever it holds by now.
Join(c) ==
  /\ Overlap(c)
  /\ calls[c].pc = "joining"
  /\ ~Live(calls[c].loop)
  /\ UNCHANGED <<running, marketStarted, loops, blocked>>
  /\ task' = NoTask
  /\ calls' = [calls EXCEPT ![c] = Idle]
  /\ Finish(calls[c].kind)

-----------------------------------------------------------------------------
(* The loop.                                                               *)

Goto(l, pc) == loops' = [loops EXCEPT ![l].pc = pc]

\* Mutant: what a cycle raises ends the loop.
RaiseEnds(l) == Goto(l, "over")

\* A cycle that raises is logged; the loop sleeps as after any other.
Raised(l) == loops' = [loops EXCEPT ![l].pc = "resting", ![l].unrecorded = 0]

\* Every fifth cycle ends with a save.
CycleEnd == Persist \/ UNCHANGED disk

\* Mutant: the loop does not look at the flag, only a cancellation ends it.
LoopForever == TRUE

LoopsOn == running

\* Mutant: reset leaves the engine that the constructor built.
FirstEngine == 0

\* The portfolio of the engine the runner has by now.
CurrentEngine == generation

\* From the test of the loop's condition to the first approved order, if the
\* switch and the market data let the cycle run and one is found.
Cycle(l) ==
  /\ loops[l].pc = "ready" /\ ~loops[l].cancelled
  /\ UNCHANGED <<callVars, blocked, bookVars>>
  /\ \/ ~LoopsOn /\ Goto(l, "over") /\ UNCHANGED disk
     \/ LoopsOn /\ blocked /\ Goto(l, "resting") /\ UNCHANGED disk
     \/ LoopsOn /\ ~blocked /\ Goto(l, "resting") /\ CycleEnd
     \/ /\ LoopsOn /\ ~blocked
        /\ loops' = [loops EXCEPT ![l].pc = "placing", ![l].engine = CurrentEngine]
        /\ UNCHANGED disk

\* _ingest_cycle, into the tracker and the store that the runner has by now
Ingest(l, filled) ==
  /\ rows' = rows + loops[l].unrecorded + filled
  /\ tracked' = [tracked EXCEPT ![generation] = @ + loops[l].unrecorded + filled]

\* Mutant: later orders of the cycle are placed without a look at the switch.
NextWhenever == TRUE

\* evaluate approves another opportunity of the same run.
NextApproved == ~blocked

\* An approved order is executed after its latency (filled = 0: not filled).
\* Then the run goes on to its next approved opportunity, or is ingested and
\* followed by a run for another symbol or by the end of the cycle, or it
\* raises and its result is lost.
Place(l, filled) ==
  /\ loops[l].pc = "placing" /\ ~loops[l].cancelled
  /\ UNCHANGED <<callVars, blocked, generation>>
  /\ LET e == loops[l].engine IN
       /\ ledger[e] + filled <= MaxFills
       /\ ledger' = [ledger EXCEPT ![e] = @ + filled]
  /\ \/ /\ NextApproved
        /\ loops' = [loops EXCEPT ![l].unrecorded = @ + filled]
        /\ UNCHANGED <<records, disk>>
     \/ /\ Ingest(l, filled)
        /\ \/ /\ NextApproved
              /\ loops' = [loops EXCEPT ![l].engine = CurrentEngine, ![l].unrecorded = 0]
              /\ UNCHANGED disk
           \/ /\ loops' = [loops EXCEPT ![l].pc = "resting", ![l].unrecorded = 0]
              /\ CycleEnd
     \/ Raised(l) /\ UNCHANGED <<records, disk>>

Wake(l) ==
  /\ loops[l].pc = "resting" /\ ~loops[l].cancelled
  /\ Goto(l, "ready")
  /\ UNCHANGED <<callVars, blocked, bookVars, disk>>

\* CancelledError at the suspension of a cancelled task.
Cancelled(l) ==
  /\ Live(l) /\ loops[l].cancelled
  /\ loops' = [loops EXCEPT ![l].pc = "over", ![l].unrecorded = 0]
  /\ UNCHANGED <<callVars, blocked, bookVars, disk>>

\* The kill switch blocks orders or is recovered.
Switch ==
  /\ blocked' = ~blocked
  /\ UNCHANGED <<callVars, loops, bookVars, disk>>

-----------------------------------------------------------------------------
(* A process that dies, and the constructor in the next one.               *)

\* Nothing but the file is left: no loop, no call, no feed, and no memory of
\* what the kill switch had blocked.
NewProcess ==
  /\ crashes < MaxCrashes
  /\ crashes' = crashes + 1
  /\ running' = FALSE
  /\ task' = NoTask
  /\ loops' = [l \in Loops |-> NewLoop]
  /\ calls' = [c \in Calls |-> Idle]
  /\ marketStarted' \in BOOLEAN
  /\ blocked' = FALSE
  /\ UNCHANGED overlapped

\* The orders and fills of the file are not read back.
Load(saved) ==
  /\ rows' = 0
  /\ generation' = saved.generation
  /\ ledger' = [ledger EXCEPT ![saved.generation] = saved.ledger]
  /\ tracked' = [tracked EXCEPT ![saved.generation] = saved.tracked]

StartAfresh ==
  /\ rows' = 0
  /\ ledger' = [ledger EXCEPT ![generation'] = 0]
  /\ tracked' = [tracked EXCEPT ![generation'] = 0]

\* A step that dies before its save has changed nothing that lasts, so that
\* it is as if the process had died before it ...
Crash ==
  /\ NewProcess
  /\ UNCHANGED disk
  /\ \/ \E saved \in disk : Load(saved)
     \/ disk = {} /\ generation' = generation /\ StartAfresh

\* ... except for a reset, which removes the file before it writes its own.
InReset(c) ==
  \/ calls[c] = Idle /\ MayBegin("reset") /\ (running => task = NoTask)
  \/ calls[c].pc = "joining" /\ calls[c].kind = "reset" /\ ~Live(calls[c].loop)

CrashInReset ==
  /\ \E c \in Calls : InReset(c)
  /\ NewProcess
  /\ disk' = {}
  /\ generation' = generation + 1
  /\ StartAfresh

-----------------------------------------------------------------------------

Init ==
  /\ running = FALSE
  /\ task = NoTask
  /\ loops = [l \in Loops |-> NewLoop]
  /\ calls = [c \in Calls |-> Idle]
  /\ marketStarted \in BOOLEAN
  /\ blocked = FALSE
  /\ generation = 0
  /\ ledger = [g \in Generations |-> 0]
  /\ tracked = [g \in Generations |-> 0]
  /\ rows = 0
  /\ disk = {}
  /\ crashes = 0
  /\ overlapped = FALSE

Call(c) ==
  \/ Start(c)
  \/ StartHydrated(c)
  \/ StartFailed(c)
  \/ \E kind \in Kinds : Stop(c, kind) \/ StopIdle(c, kind)
  \/ Join(c)

Loop(l) ==
  \/ Cycle(l)
  \/ \E filled \in 0 .. 1 : Place(l, filled)
  \/ Wake(l)
  \/ Cancelled(l)

Next ==
  \/ \E c \in Calls : Call(c)
  \/ \E l \in Loops : Loop(l)
  \/ Switch
  \/ Crash
  \/ CrashInReset

Spec == Init /\ [][Next]_vars

\* The event loop resumes whatever is ready.
Fairness ==
  /\ \A l \in Loops : WF_vars(Loop(l))
  /\ \A c \in Calls : WF_vars(Join(c))

FairSpec == Spec /\ Fairness

-----------------------------------------------------------------------------
(* Properties.                                                             *)

\* What the portfolios may be filled together: calls that overlap let one
\* tracker record the fills of another portfolio as well.
AllFills == MaxFills * (MaxGeneration + 1)

\* Every variable has its type; no fill is ever recorded twice.
TypeOK ==
  /\ {running, marketStarted, blocked, overlapped} \subseteq BOOLEAN
  /\ task \in Loops \cup {NoTask}
  /\ loops \in [Loops -> LoopStates]
  /\ calls \in [Calls -> CallStates]
  /\ generation \in Generations
  /\ ledger \in [Generations -> 0 .. MaxFills]
  /\ tracked \in [Generations -> 0 .. AllFills]
  /\ rows \in 0 .. AllFills
  /\ \A saved \in disk :
       saved \in [generation : Generations, ledger : 0 .. MaxFills, tracked : 0 .. AllFills,
                  rows : 0 .. AllFills]
  /\ crashes \in 0 .. MaxCrashes

\* A session that says it runs has a loop that will go on: a stop that races
\* a start never leaves it flagged as running with nothing behind the flag.
RunningHasLoop == running => \E l \in Loops : Live(l) /\ ~loops[l].cancelled

\* While API calls do not overlap, no two loops trade: a second one would run
\* cycles over the same portfolio.
OneLoop == ~overlapped =>
  \A k, l \in Loops :
    Live(k) /\ ~loops[k].cancelled /\ Live(l) /\ ~loops[l].cancelled => k = l

\* Nothing of the process is going on.
AtRest ==
  ~running /\ (\A c \in Calls : calls[c] = Idle) /\ (\A l \in Loops : ~Live(l))

\* After calls that did not overlap a session at rest loses nothing when the
\* process dies, unless it dies in a reset ("stop loop and persist state",
\* runner.py; "guarantees restart survival", store.py).
RestSurvives ==
  [][AtRest /\ ~overlapped /\ crashes' # crashes /\ generation' = generation
       => UNCHANGED <<ledger, tracked>>]_vars

\* No process ever goes back behind a reset, neither behind one that returned
\* nor behind one that died after it had removed the file.
ResetSticks == [][generation' >= generation]_vars

\* A save of the same session never drops what an earlier one had saved of its
\* fills ("Write full paper session state to disk (survives restart)",
\* store.py): refuted, as load leaves the store without them.
SavedRowsStay ==
  [][\A old \in disk, new \in disk' :
       ~overlapped /\ new.generation = old.generation => new.rows >= old.rows]_vars

\* The switch, once it blocks, is released by a call only ("Does not
\* automatically resume", kill_switch.py): refuted by a process that dies.
BlockSurvives == [][blocked /\ ~blocked' => crashes' = crashes]_vars

\* A stopped session does not trade: nothing is filled once stop or shutdown
\* has cleared the flag ("Graceful shutdown: stop loop and persist state").
FillsWhileRunning ==
  [][\A g \in Generations : ledger'[g] > ledger[g] => running]_vars

\* While API calls do not overlap, only a running session trades, and only
\* the portfolio it has by now.
TradesOwnPortfolio ==
  [][~overlapped =>
       \A g \in Generations : ledger'[g] > ledger[g] => running /\ g = generation]_vars

\* While API calls do not overlap, the tracker of a session never records more
\* fills than its portfolio has ("Never fabricates values", tracker.py).
NeverFabricates == ~overlapped => \A g \in Generations : tracked[g] <= ledger[g]

\* Once the switch blocks, only orders already in their latency are filled,
\* each loop's one, and none is added.
Placing == {l \in Loops : loops[l].pc = "placing"}

BlockDrains ==
  [][blocked /\ blocked' =>
       Placing' \subseteq Placing /\ (ledger' # ledger => Placing' # Placing)]_vars

\* Nothing is filled while the switch blocks ("Skips new trades when
\* RiskEngine is PAUSED or EMERGENCY_STOP", runner.py).
BlockObeyed == [][\A g \in Generations : ledger'[g] > ledger[g] => ~blocked]_vars

\* Between the cycles of a session every fill of its portfolio has been
\* recorded ("Records every opportunity", tracker.py).
AllRecorded == Placing = {} => tracked[generation] = ledger[generation]

\* A stop, reset or shutdown returns.
StopReturns == \A c \in Calls : calls[c].pc = "joining" ~> calls[c].pc = "idle"

\* A session left stopped has no loop in the end, not even one that nobody
\* cancelled: the flag ends it at its next look.
StoppedEnds == <>[]~running => <>[](\A l \in Loops : ~Live(l))

\* A session left running keeps cycling, whatever a cycle raises
\* ("Continuous 24/7 paper-trading runner").
KeepsCycling == <>[]running => []<>(\E l \in Loops : loops[l].pc = "ready")
=============================================================================
