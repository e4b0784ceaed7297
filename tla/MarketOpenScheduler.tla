------------------------ MODULE MarketOpenScheduler ------------------------
(***************************************************************************)
(* The market-open scheduler (bot/market-open-scheduler.ts): one timer and *)
(* one inFlight flag decide when a bot cycle runs.                         *)
(*                                                                         *)
(* A tick is an asynchronous activation of runSchedulerTick: it waits for  *)
(* the session service, then perhaps for the cycle.  Stopping the          *)
(* scheduler does not stop an activation that is under way.                *)
(*                                                                         *)
(* Time is kept as countdowns and ages that saturate at OpenInterval, so   *)
(* the model is finite without a bound on time.                            *)
(***************************************************************************)
EXTENDS Integers, FiniteSets

CONSTANTS
  Ticks,          \* activations of runSchedulerTick that may be under way
  OpenInterval,   \* openIntervalMs, in units of CLOSED_INTERVAL_MS
  MaxStops,       \* bound: calls of stopMarketOpenScheduler
  StopInFlight    \* may it be called while an activation is under way?

ASSUME SchedulerAssumption ==
  /\ OpenInterval \in Nat \ {0}
  /\ MaxStops \in Nat /\ StopInFlight \in BOOLEAN

CLOSED_INTERVAL == 1
Never == -1
Ages == 0 .. OpenInterval
Modes == {"stopped", "waiting-for-open", "waiting-for-next-run", "running"}

VARIABLES
  started, inFlight, mode,  \* schedulerState
  lastRunAge,  \* time since lastRunAtMs, or Never
  timer,       \* time until the pending timeout fires, or Never
  phase,       \* what each activation waits for
  runAge,      \* time since it took runStartedAtMs
  open,        \* is a regular equity options session open?
  spacing,     \* history: time since the last cycle that did not fail began
  stops

flags == <<started, inFlight, mode>>
vars == <<flags, lastRunAge, timer, phase, runAge, open, spacing, stops>>

TypeOK ==
  /\ started \in BOOLEAN /\ inFlight \in BOOLEAN /\ open \in BOOLEAN
  /\ mode \in Modes
  /\ lastRunAge \in Ages \cup {Never}
  /\ spacing \in Ages \cup {Never}
  /\ timer \in Ages \cup {Never}
  /\ phase \in [Ticks -> {"done", "session", "cycle"}]
  /\ runAge \in [Ticks -> Ages]
  /\ stops \in 0 .. MaxStops

Init ==
  /\ started = FALSE /\ inFlight = FALSE /\ mode = "stopped"
  /\ lastRunAge = Never
  /\ timer = Never
  /\ phase = [t \in Ticks |-> "done"]
  /\ runAge = [t \in Ticks |-> 0]
  /\ open \in BOOLEAN
  /\ spacing = Never
  /\ stops = 0

Running(t) == phase[t] # "done"
CycleRuns == \E t \in Ticks : phase[t] = "cycle"
Later(age) == IF age = Never \/ age = OpenInterval THEN age ELSE age + 1

\* A second call while started changes nothing.
startMarketOpenScheduler ==
  /\ ~started
  /\ started' = TRUE
  /\ mode' = "waiting-for-open"
  /\ timer' = 0
  /\ UNCHANGED <<inFlight, lastRunAge, phase, runAge, open, spacing, stops>>

\* The in-flight flag is reset although the activation goes on.
Stopped ==
  /\ started' = FALSE /\ inFlight' = FALSE /\ mode' = "stopped"
  /\ timer' = Never
  /\ UNCHANGED <<lastRunAge, phase, runAge, open, spacing>>

stopMarketOpenScheduler ==
  /\ stops < MaxStops
  /\ StopInFlight \/ \A t \in Ticks : ~Running(t)
  /\ stops' = stops + 1
  /\ Stopped

\* The timeout fires.  A tick that finds the scheduler stopped or another tick
\* in flight returns at once and schedules nothing.
runSchedulerTick(t) ==
  /\ timer = 0 /\ ~Running(t)
  /\ timer' = Never
  /\ IF ~started \/ inFlight
     THEN UNCHANGED <<inFlight, phase>>
     ELSE /\ inFlight' = TRUE
          /\ phase' = [phase EXCEPT ![t] = "session"]
  /\ UNCHANGED <<started, mode, lastRunAge, runAge, open, spacing, stops>>

\* The activation ends: it has set the mode and the timer, whoever is in
\* flight by then and whether or not the scheduler was stopped.
Finish(t, m, delay) ==
  /\ phase' = [phase EXCEPT ![t] = "done"]
  /\ runAge' = [runAge EXCEPT ![t] = 0]
  /\ inFlight' = FALSE
  /\ mode' = m
  /\ timer' = delay

MarketClosed(t) ==
  /\ phase[t] = "session" /\ ~open
  /\ Finish(t, "waiting-for-open", CLOSED_INTERVAL)
  /\ UNCHANGED <<started, lastRunAge, open, spacing, stops>>

\* Mutant: the last run is not looked at.
alwaysRunNow == TRUE

shouldRunNow == lastRunAge = Never \/ lastRunAge >= OpenInterval

\* Mutant: a wake-up counts as a run.
WaitAndStamp(t) ==
  /\ phase[t] = "session" /\ open
  /\ ~shouldRunNow
  /\ lastRunAge' = 0
  /\ Finish(t, "waiting-for-next-run", OpenInterval - lastRunAge)
  /\ UNCHANGED <<started, open, spacing, stops>>

WaitForNextRun(t) ==
  /\ phase[t] = "session" /\ open
  /\ ~shouldRunNow
  /\ Finish(t, "waiting-for-next-run", OpenInterval - lastRunAge)
  /\ UNCHANGED <<started, lastRunAge, open, spacing, stops>>

CycleBegins(t) ==
  /\ phase[t] = "session" /\ open
  /\ shouldRunNow
  /\ phase' = [phase EXCEPT ![t] = "cycle"]
  /\ runAge' = [runAge EXCEPT ![t] = 0]
  /\ mode' = "running"
  /\ spacing' = 0
  /\ UNCHANGED <<started, inFlight, lastRunAge, timer, open, stops>>

CycleSucceeds(t) ==
  /\ phase[t] = "cycle"
  /\ lastRunAge' = runAge[t]
  /\ Finish(t, "waiting-for-next-run", OpenInterval - runAge[t])
  /\ UNCHANGED <<started, open, spacing, stops>>

\* Mutant: the catch block forgets to schedule the next tick.
ThrowsAndSleeps(t) ==
  /\ Running(t)
  /\ Finish(t, "waiting-for-open", Never)
  /\ UNCHANGED <<started, lastRunAge, open, spacing, stops>>

\* The session service or the cycle throws.
TickThrows(t) ==
  /\ Running(t)
  /\ Finish(t, "waiting-for-open", CLOSED_INTERVAL)
  /\ spacing' = IF phase[t] = "cycle" THEN Never ELSE spacing
  /\ UNCHANGED <<started, lastRunAge, open, stops>>

MarketFlips ==
  /\ open' = ~open
  /\ UNCHANGED <<flags, lastRunAge, timer, phase, runAge, spacing, stops>>

TimePasses ==
  /\ timer' = IF timer > 0 THEN timer - 1 ELSE timer
  /\ lastRunAge' = Later(lastRunAge)
  /\ spacing' = Later(spacing)
  /\ runAge' = [t \in Ticks |-> IF phase[t] = "cycle" THEN Later(runAge[t])
                                ELSE runAge[t]]
  /\ UNCHANGED <<flags, phase, open, stops>>

SessionAnswers(t) == MarketClosed(t) \/ WaitForNextRun(t) \/ CycleBegins(t)

Next ==
  \/ startMarketOpenScheduler
  \/ stopMarketOpenScheduler
  \/ \E t \in Ticks : \/ runSchedulerTick(t) \/ SessionAnswers(t)
                      \/ CycleSucceeds(t) \/ TickThrows(t)
  \/ MarketFlips
  \/ TimePasses

Spec == Init /\ [][Next]_vars

\* Time passes, due timeouts fire, awaited calls return, and the session
\* service does not fail for ever.
Fairness ==
  /\ WF_vars(TimePasses)
  /\ WF_vars(\E t \in Ticks : runSchedulerTick(t))
  /\ \A t \in Ticks : /\ SF_vars(SessionAnswers(t))
                      /\ WF_vars(CycleSucceeds(t) \/ TickThrows(t))

FairSpec == Spec /\ Fairness

-----------------------------------------------------------------------------

\* A started scheduler always has a timeout pending or an activation under way
\* that will set one: no order of stops, starts, stale activations and errors
\* leaves it started and asleep.
NeverAsleep == started => timer # Never \/ \E t \in Ticks : Running(t)

\* As long as nobody stops the scheduler under an activation, at most one is
\* between its first line and its finally block.
OneTickInFlight == \A t, u \in Ticks : Running(t) /\ Running(u) => t = u

\* The reported mode is true: "running" exactly while a cycle is in flight,
\* "stopped" exactly while the scheduler is not started (README, state table).
ModeIsTrue == /\ (mode = "running") <=> CycleRuns
              /\ (mode = "stopped") <=> ~started

\* Two cycles begin at least OpenInterval apart, unless the earlier one failed,
\* across closed sessions, early wake-ups and a stop and start in between.
CyclesSpaced ==
  [][(~CycleRuns /\ CycleRuns') => spacing \in {Never, OpenInterval}]_vars

\* While the scheduler stays started and the market open, cycles keep coming.
CyclesRecur == <>[](started /\ open) => []<>CycleRuns
=============================================================================
