-------------------------- MODULE WebSocketManager --------------------------
(***************************************************************************)
(* The connection of one public feed (market_data/websocket_manager.py):    *)
(* the run loop that connects, subscribes, reads and backs off, the        *)
(* heartbeat tasks it starts, and stop, which cancels it from outside.     *)
(* The socket may be dropped by the other side at any time, also while a   *)
(* frame is being handled.                                                 *)
(*                                                                         *)
(* Frames are "data", which are always new, or "beat", a small frame that  *)
(* is the same every time.                                                 *)
(***************************************************************************)
EXTENDS Integers, FiniteSets

CONSTANTS
  HasPayload,  \* a heartbeat_payload is configured
  MaxDelay,    \* how often the delay can double before reconnect_max_ms
  MaxBeats,    \* bound: heartbeat tasks alive together
  LongestSilence  \* bound: the age of the last message is told apart up to here

ASSUME ManagerAssumption ==
  /\ HasPayload \in BOOLEAN
  /\ MaxDelay \in Nat /\ MaxBeats \in Nat \ {0} /\ LongestSilence \in Nat

Beats == 1 .. MaxBeats
NoBeat == 0

VARIABLES
  running,    \* _running
  pc,         \* where the run loop is suspended
  cancelled,  \* the task of the run loop is cancelled
  stopper,    \* where stop is suspended
  state,      \* _state
  ws,         \* the socket in _ws
  delay,      \* doublings of delay_ms
  beat,       \* _heartbeat_task
  beats,      \* the heartbeat tasks that are alive
  age,        \* time since _last_message_at
  seen,       \* the beat frame is among the frames remembered
  heard       \* time since a frame arrived at the socket

loopVars == <<pc, cancelled, state, delay>>
beatVars == <<beat, beats>>
frameVars == <<age, seen, heard>>
managerVars == <<running, stopper, ws, loopVars, beatVars, frameVars>>

\* "none": no task; "loop": at the condition of the while.
LoopStates ==
  {"none", "loop", "opening", "subscribing", "reading", "handling", "closing", "backoff", "over"}

\* The property `connected`.
Connected == state = "CONNECTED" /\ ws = "open"

\* The run loop goes on, unless it has been cancelled.
At(place) == pc = place /\ ~cancelled

-----------------------------------------------------------------------------
(* start and the run loop.                                                 *)

Start ==
  /\ pc = "none" /\ stopper = "idle"
  /\ running' = TRUE
  /\ pc' = "loop"
  /\ delay' = 0
  /\ UNCHANGED <<stopper, ws, cancelled, state, beatVars, frameVars>>

DelayOnAttempt == delay

Attempt ==
  /\ At("loop")
  /\ IF running
     THEN pc' = "opening" /\ state' = "CONNECTING" /\ delay' = DelayOnAttempt
     ELSE pc' = "over" /\ UNCHANGED <<state, delay>>
  /\ UNCHANGED <<running, stopper, cancelled, ws, beatVars, frameVars>>

\* A new socket replaces what _ws holds.
Opened ==
  /\ At("opening")
  /\ ws' = "open"
  /\ state' = "CONNECTED"
  /\ pc' = "subscribing"
  /\ UNCHANGED <<running, stopper, cancelled, delay, beatVars, frameVars>>

\* A new heartbeat task is remembered instead of the one before.
StartBeat ==
  IF HasPayload
  THEN \E b \in Beats \ beats : beat' = b /\ beats' = beats \cup {b}
  ELSE UNCHANGED beatVars

\* The subscriptions are sent; the connection counts as made.
Subscribed ==
  /\ At("subscribing") /\ ws = "open"
  /\ StartBeat
  /\ delay' = 0
  /\ pc' = "reading"
  /\ UNCHANGED <<running, stopper, cancelled, state, ws, frameVars>>

\* note_message forgets a small frame when 512 others have come after it.
Forget ==
  /\ seen
  /\ seen' = FALSE
  /\ UNCHANGED <<running, stopper, ws, loopVars, beatVars, age, heard>>

Duplicate(frame) == frame = "beat" /\ seen

\* A frame is received.  A duplicate is dropped before its arrival is noted.
Frame(frame) ==
  /\ At("reading") /\ ws = "open"
  /\ heard' = 0
  /\ IF Duplicate(frame)
     THEN UNCHANGED <<age, seen, pc>>
     ELSE /\ age' = 0
          /\ seen' = (seen \/ frame = "beat")
          /\ pc' = "handling"
  /\ UNCHANGED <<running, stopper, cancelled, state, ws, delay, beatVars>>

\* The frame is handled; the loop reads on, or leaves _read_loop and connects
\* again at once if the socket has gone meanwhile.
Handled ==
  /\ At("handling")
  /\ pc' = IF running /\ ws = "open" THEN "reading" ELSE "loop"
  /\ UNCHANGED <<running, stopper, cancelled, state, ws, delay, beatVars, frameVars>>

CancelBeat ==
  /\ beats' = beats \ {beat}
  /\ beat' = NoBeat

\* Mutant: the state is not touched.
StateKept == state

StateFailed == "RECONNECTING"

\* Mutant: what the handler of a frame raises is not caught.
CaughtOutside == pc # "handling"

Caught == TRUE

\* Anything raised: no connection, a timeout, a dropped socket, a handler that
\* fails.  The socket is closed, which suspends if there is one.
Fail ==
  /\ \/ At("opening") \/ At("subscribing") \/ At("reading") \/ At("handling")
  /\ state' = StateFailed
  /\ CancelBeat
  /\ pc' = IF Caught THEN "closing" ELSE "over"
  /\ UNCHANGED <<running, stopper, cancelled, ws, delay, frameVars>>

Closed ==
  /\ At("closing")
  /\ ws' = "none"
  /\ pc' = IF running THEN "backoff" ELSE "over"
  /\ UNCHANGED <<running, stopper, cancelled, state, delay, beatVars, frameVars>>

Doubled == IF delay < MaxDelay THEN delay + 1 ELSE delay

Wake ==
  /\ At("backoff")
  /\ pc' = "loop"
  /\ delay' = Doubled
  /\ UNCHANGED <<running, stopper, cancelled, state, ws, beatVars, frameVars>>

\* CancelledError at the suspension.
CancelledThere ==
  /\ cancelled /\ pc \notin {"none", "over"}
  /\ pc' = "over"
  /\ UNCHANGED <<running, stopper, cancelled, state, ws, delay, beatVars, frameVars>>

-----------------------------------------------------------------------------
(* stop.                                                                   *)

Stop ==
  /\ stopper = "idle" /\ pc # "none"
  /\ running' = FALSE
  /\ CancelBeat
  /\ cancelled' = (pc # "over")
  /\ stopper' = "joining"
  /\ UNCHANGED <<pc, state, delay, ws, frameVars>>

\* The task is over; the socket is closed, unless it is already.
Joined ==
  /\ stopper = "joining" /\ pc = "over"
  /\ pc' = "none"
  /\ cancelled' = FALSE
  /\ CancelBeat
  /\ stopper' = "closing"
  /\ UNCHANGED <<running, state, delay, ws, frameVars>>

\* Mutant: stop leaves the socket to the run loop.
SocketKept == ws

SocketAfterStop == "none"

Stopped ==
  /\ stopper = "closing"
  /\ ws' = SocketAfterStop
  /\ state' = "DISCONNECTED"
  /\ stopper' = "idle"
  /\ UNCHANGED <<running, pc, cancelled, delay, beatVars, frameVars>>

-----------------------------------------------------------------------------
(* Heartbeats, the other side, and time.                                   *)

\* The condition of the heartbeat loop, which asks about the manager, not
\* about the connection that the heartbeat was started for.
BeatsOn == running /\ Connected

\* A heartbeat ends at its next look, or when its send raises.
BeatEnds(b) ==
  /\ b \in beats
  /\ ~BeatsOn
  /\ beats' = beats \ {b}
  /\ UNCHANGED <<running, stopper, ws, loopVars, beat, frameVars>>

BeatFails(b) ==
  /\ b \in beats
  /\ beats' = beats \ {b}
  /\ UNCHANGED <<running, stopper, ws, loopVars, beat, frameVars>>

Drop ==
  /\ ws = "open"
  /\ ws' = "closed"
  /\ UNCHANGED <<running, stopper, loopVars, beatVars, frameVars>>

Longer(a) == IF a < LongestSilence THEN a + 1 ELSE a

Tick ==
  /\ age' = Longer(age)
  /\ heard' = Longer(heard)
  /\ UNCHANGED <<running, stopper, ws, loopVars, beatVars, seen>>

-----------------------------------------------------------------------------

ManagerInit ==
  /\ running = FALSE
  /\ pc = "none"
  /\ cancelled = FALSE
  /\ stopper = "idle"
  /\ state = "DISCONNECTED"
  /\ ws = "none"
  /\ delay = 0
  /\ beat = NoBeat
  /\ beats = {}
  /\ age = LongestSilence
  /\ seen = FALSE
  /\ heard = LongestSilence

Run ==
  \/ Attempt \/ Opened \/ Subscribed
  \/ Frame("data") \/ Frame("beat") \/ Handled
  \/ Fail \/ Closed \/ Wake \/ CancelledThere

ManagerNext ==
  \/ Start \/ Run \/ Stop \/ Joined \/ Stopped
  \/ \E b \in Beats : BeatEnds(b) \/ BeatFails(b)
  \/ Forget \/ Drop \/ Tick

ManagerSpec == ManagerInit /\ [][ManagerNext]_managerVars

\* The event loop goes on; the other side accepts a connection now and then.
ManagerFairness ==
  /\ WF_managerVars(Run) /\ WF_managerVars(Joined) /\ WF_managerVars(Stopped)
  /\ SF_managerVars(Opened) /\ SF_managerVars(Subscribed)
  /\ \A b \in Beats : WF_managerVars(BeatEnds(b))

ManagerFairSpec == ManagerSpec /\ ManagerFairness

-----------------------------------------------------------------------------
(* Properties.                                                             *)

\* Every variable has its type.
ManagerTypeOK ==
  /\ running \in BOOLEAN /\ cancelled \in BOOLEAN /\ seen \in BOOLEAN
  /\ pc \in LoopStates
  /\ stopper \in {"idle", "joining", "closing"}
  /\ state \in {"DISCONNECTED", "CONNECTING", "CONNECTED", "RECONNECTING"}
  /\ ws \in {"none", "open", "closed"}
  /\ delay \in 0 .. MaxDelay
  /\ beat \in Beats \cup {NoBeat} /\ beats \subseteq Beats
  /\ age \in 0 .. LongestSilence /\ heard \in 0 .. LongestSilence

\* While the manager runs, a feed reported as connected is one whose frames
\* the loop is reading, or about to read: a connection given up is never
\* reported as up while it is closed or waited for.
ConnectedIsServed ==
  Connected /\ running => pc \in {"subscribing", "reading", "handling"}

\* A manager that was stopped holds no socket, task or heartbeat.
StoppedIsClean ==
  stopper = "idle" /\ ~running =>
    pc = "none" /\ ws = "none" /\ beat = NoBeat /\ state = "DISCONNECTED"

\* The delay falls back only when a connection has been made, and not by an
\* attempt that fails.
DelayFallsOnSuccess == [][delay' < delay => pc \in {"subscribing", "none"}]_managerVars

\* A manager left running gets its feed back, again and again.
Reconnects == <>[]running => []<>(pc = "reading")

\* No heartbeat outlives a manager that stays stopped, not even one that was
\* started for an earlier connection and forgotten.
BeatsEnd == <>[]~running => <>[](beats = {})

\* Every attempt after the first waits ("a single public WebSocket feed with
\* exponential backoff", websocket_manager.py).
BacksOff == [][pc' = "loop" /\ pc # "loop" => pc \in {"none", "backoff"}]_managerVars

\* The age of the connection is that of the last frame, heartbeats included
\* ("Heartbeats / acks: cheap path — refresh connection age only", service.py).
AgeIsOfLastFrame == age = heard
=============================================================================
