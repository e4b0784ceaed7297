------------------------ MODULE GracefulShutdownProofs ------------------------
(***************************************************************************)
(* Proofs about the market-open scheduler, for any number of activations,  *)
(* any run interval and any number of stops, and about the shutdown on top *)
(* of it, for any orders: what the sweep promises about the orders that    *)
(* are still live when gracefulShutdown gets to its end; and about the IPC *)
(* server's connections, for any number of requests of any length; and     *)
(* about the quote streamer's session and its recovery.                    *)
(***************************************************************************)
EXTENDS MCGracefulShutdown, SequenceTheorems, TLAPS

\* The flag is raised only while some activation is there to lower it.
FlagIsHeld == inFlight => \E t \in Ticks : Running(t)

\* Nobody stops the scheduler under an activation: then an activation under way
\* holds the flag, the scheduler is started and no timeout is pending.
TickOwnsScheduler ==
  \A t \in Ticks : Running(t) => inFlight /\ started /\ timer = Never

AwakeInv == TypeOK /\ FlagIsHeld /\ NeverAsleep

QuietInv == AwakeInv /\ TickOwnsScheduler /\ OneTickInFlight /\ ModeIsTrue

USE DEF SchedulerAssumption, CLOSED_INTERVAL, Never, Ages, Modes

-----------------------------------------------------------------------------
(* TypeOK. *)

LEMMA LaterTyped ==
  ASSUME NEW age \in Ages \cup {Never}
  PROVE  /\ Later(age) \in Ages \cup {Never}
         /\ age \in Ages => Later(age) \in Ages
BY SchedulerAssumption DEF Later

LEMMA FinishTyped ==
  ASSUME TypeOK, NEW t \in Ticks, NEW m \in Modes, NEW STATE delay, delay \in Ages,
         Finish(t, m, delay)
  PROVE  /\ inFlight' \in BOOLEAN /\ mode' \in Modes /\ timer' \in Ages \cup {Never}
         /\ phase' \in [Ticks -> {"done", "session", "cycle"}]
         /\ runAge' \in [Ticks -> Ages]
<1>1. 0 \in Ages
  BY SchedulerAssumption
<1>2. inFlight' \in BOOLEAN /\ mode' \in Modes /\ timer' \in Ages \cup {Never}
  BY DEF Finish
<1>3. phase' \in [Ticks -> {"done", "session", "cycle"}]
  BY DEF TypeOK, Finish
<1>4. runAge' \in [Ticks -> Ages]
  BY <1>1 DEF TypeOK, Finish
<1> QED BY <1>2, <1>3, <1>4

LEMMA TypeInit == Init => TypeOK
<1> SUFFICES ASSUME Init PROVE TypeOK
  OBVIOUS
<1>1. started \in BOOLEAN /\ inFlight \in BOOLEAN /\ open \in BOOLEAN /\ mode \in Modes
  BY DEF Init
<1>2. /\ lastRunAge \in Ages \cup {Never} /\ spacing \in Ages \cup {Never}
      /\ timer \in Ages \cup {Never}
      /\ phase \in [Ticks -> {"done", "session", "cycle"}]
      /\ runAge \in [Ticks -> Ages]
      /\ stops \in 0..MaxStops
  BY SchedulerAssumption DEF Init
<1> QED BY <1>1, <1>2 DEF TypeOK

LEMMA TypeStep == TypeOK /\ [Next]_vars => TypeOK'
<1> SUFFICES ASSUME TypeOK, [Next]_vars PROVE TypeOK'
  OBVIOUS
<1> USE SchedulerAssumption
<1>1. CASE startMarketOpenScheduler
  BY <1>1 DEF startMarketOpenScheduler, TypeOK
<1>2. CASE stopMarketOpenScheduler
  <2>1. started' \in BOOLEAN /\ inFlight' \in BOOLEAN /\ open' \in BOOLEAN
    BY <1>2 DEF stopMarketOpenScheduler, Stopped, TypeOK
  <2>2. stops' \in 0..MaxStops
    BY <1>2 DEF stopMarketOpenScheduler, TypeOK
  <2> QED BY <1>2, <2>1, <2>2 DEF stopMarketOpenScheduler, Stopped, TypeOK
<1>3. ASSUME NEW t \in Ticks, runSchedulerTick(t) PROVE TypeOK'
  BY <1>3 DEF runSchedulerTick, TypeOK
<1>4. ASSUME NEW t \in Ticks, MarketClosed(t) PROVE TypeOK'
  <2>1. CLOSED_INTERVAL \in Ages
    OBVIOUS
  <2> QED BY <1>4, <2>1, FinishTyped DEF MarketClosed, TypeOK
<1>5. ASSUME NEW t \in Ticks, WaitForNextRun(t) PROVE TypeOK'
  <2>1. OpenInterval - lastRunAge \in Ages
    BY <1>5 DEF WaitForNextRun, shouldRunNow, TypeOK
  <2> QED BY <1>5, <2>1, FinishTyped DEF WaitForNextRun, TypeOK
<1>6. ASSUME NEW t \in Ticks, CycleBegins(t) PROVE TypeOK'
  BY <1>6 DEF CycleBegins, TypeOK
<1>7. ASSUME NEW t \in Ticks, CycleSucceeds(t) PROVE TypeOK'
  <2>1. runAge[t] \in Ages /\ OpenInterval - runAge[t] \in Ages
    BY <1>7 DEF TypeOK
  <2> QED BY <1>7, <2>1, FinishTyped DEF CycleSucceeds, TypeOK
<1>8. ASSUME NEW t \in Ticks, TickThrows(t) PROVE TypeOK'
  <2>1. CLOSED_INTERVAL \in Ages
    OBVIOUS
  <2> QED BY <1>8, <2>1, FinishTyped DEF TickThrows, TypeOK
<1>9. CASE MarketFlips
  BY <1>9 DEF MarketFlips, flags, TypeOK
<1>10. CASE TimePasses
  <2>1. lastRunAge' \in Ages \cup {Never} /\ spacing' \in Ages \cup {Never}
    BY <1>10, LaterTyped DEF TimePasses, TypeOK
  <2>2. timer' \in Ages \cup {Never}
    BY <1>10 DEF TimePasses, TypeOK
  <2>3. ASSUME NEW t \in Ticks
        PROVE  (IF phase[t] = "cycle" THEN Later(runAge[t]) ELSE runAge[t]) \in Ages
    BY LaterTyped DEF TypeOK
  <2>4. runAge' \in [Ticks -> Ages]
    BY <1>10, <2>3 DEF TimePasses
  <2> QED BY <1>10, <2>1, <2>2, <2>4 DEF TimePasses, flags, TypeOK
<1>11. CASE UNCHANGED vars
  BY <1>11 DEF vars, flags, TypeOK
<1> QED BY <1>1, <1>2, <1>3, <1>4, <1>5, <1>6, <1>7, <1>8, <1>9, <1>10, <1>11
        DEF Next, SessionAnswers

\* The state of the scheduler is always well formed; in particular no delay it
\* computes for the next timeout is negative.
THEOREM TypeCorrect == Spec => []TypeOK
BY TypeInit, TypeStep, PTL DEF Spec

-----------------------------------------------------------------------------
(* NeverAsleep: whatever is stopped and started under a running activation. *)

\* An activation that ends leaves no flag behind and a timeout pending.
LEMMA FinishAwake ==
  ASSUME NEW t \in Ticks, NEW m, NEW STATE delay, delay \in Ages, Finish(t, m, delay)
  PROVE  ~inFlight' /\ timer' # Never
BY SchedulerAssumption DEF Finish

LEMMA AwakeStep == AwakeInv /\ [Next]_vars => AwakeInv'
<1> SUFFICES ASSUME AwakeInv, [Next]_vars PROVE FlagIsHeld' /\ NeverAsleep'
  BY TypeStep DEF AwakeInv
<1> USE DEF AwakeInv
<1>1. CASE startMarketOpenScheduler
  BY <1>1 DEF startMarketOpenScheduler, FlagIsHeld, NeverAsleep, Running
<1>2. CASE stopMarketOpenScheduler
  BY <1>2 DEF stopMarketOpenScheduler, Stopped, FlagIsHeld, NeverAsleep
<1>3. ASSUME NEW t \in Ticks, runSchedulerTick(t) PROVE FlagIsHeld' /\ NeverAsleep'
  <2>1. CASE started /\ ~inFlight
    <3>1. phase'[t] = "session"
      BY <1>3, <2>1 DEF runSchedulerTick, TypeOK
    <3> QED BY <3>1 DEF FlagIsHeld, NeverAsleep, Running
  <2>2. CASE ~started \/ inFlight
    BY <1>3, <2>2 DEF runSchedulerTick, FlagIsHeld, NeverAsleep, Running
  <2> QED BY <2>1, <2>2 DEF TypeOK
<1>4. ASSUME NEW t \in Ticks, MarketClosed(t) PROVE FlagIsHeld' /\ NeverAsleep'
  <2>1. CLOSED_INTERVAL \in Ages
    BY SchedulerAssumption
  <2> QED BY <1>4, <2>1, FinishAwake DEF MarketClosed, FlagIsHeld, NeverAsleep
<1>5. ASSUME NEW t \in Ticks, WaitForNextRun(t) PROVE FlagIsHeld' /\ NeverAsleep'
  <2>1. OpenInterval - lastRunAge \in Ages
    BY <1>5, SchedulerAssumption DEF WaitForNextRun, shouldRunNow, TypeOK
  <2> QED BY <1>5, <2>1, FinishAwake DEF WaitForNextRun, FlagIsHeld, NeverAsleep
<1>6. ASSUME NEW t \in Ticks, CycleBegins(t) PROVE FlagIsHeld' /\ NeverAsleep'
  <2>1. phase'[t] = "cycle"
    BY <1>6 DEF CycleBegins, TypeOK
  <2> QED BY <2>1 DEF FlagIsHeld, NeverAsleep, Running
<1>7. ASSUME NEW t \in Ticks, CycleSucceeds(t) PROVE FlagIsHeld' /\ NeverAsleep'
  <2>1. OpenInterval - runAge[t] \in Ages
    BY SchedulerAssumption DEF TypeOK
  <2> QED BY <1>7, <2>1, FinishAwake DEF CycleSucceeds, FlagIsHeld, NeverAsleep
<1>8. ASSUME NEW t \in Ticks, TickThrows(t) PROVE FlagIsHeld' /\ NeverAsleep'
  <2>1. CLOSED_INTERVAL \in Ages
    BY SchedulerAssumption
  <2> QED BY <1>8, <2>1, FinishAwake DEF TickThrows, FlagIsHeld, NeverAsleep
<1>9. CASE MarketFlips
  BY <1>9 DEF MarketFlips, flags, FlagIsHeld, NeverAsleep, Running
<1>10. CASE TimePasses
  <2>1. timer # Never => timer' # Never
    BY <1>10 DEF TimePasses, TypeOK
  <2> QED BY <1>10, <2>1 DEF TimePasses, flags, FlagIsHeld, NeverAsleep, Running
<1>11. CASE UNCHANGED vars
  BY <1>11 DEF vars, flags, FlagIsHeld, NeverAsleep, Running
<1> QED BY <1>1, <1>2, <1>3, <1>4, <1>5, <1>6, <1>7, <1>8, <1>9, <1>10, <1>11
        DEF Next, SessionAnswers

\* A started scheduler never falls asleep, in any order of starts, stops, stale
\* activations and errors.
THEOREM SchedulerStaysAwake == Spec => []NeverAsleep
<1>1. Init => AwakeInv
  BY TypeInit DEF Init, AwakeInv, FlagIsHeld, NeverAsleep
<1>2. AwakeInv => NeverAsleep
  BY DEF AwakeInv
<1> QED BY <1>1, <1>2, AwakeStep, PTL DEF Spec

-----------------------------------------------------------------------------
(* One activation at a time, when no stop comes under one. *)

\* The only activation ends: none is left, and the mode says so.
LEMMA FinishQuiet ==
  ASSUME QuietInv, NEW t \in Ticks, Running(t),
         NEW m \in {"waiting-for-open", "waiting-for-next-run"}, NEW STATE delay,
         Finish(t, m, delay), started' = started
  PROVE  TickOwnsScheduler' /\ OneTickInFlight' /\ ModeIsTrue'
<1>1. \A u \in Ticks : phase'[u] = "done"
  BY DEF QuietInv, AwakeInv, TypeOK, OneTickInFlight, Running, Finish
<1>2. started /\ started'
  BY DEF QuietInv, TickOwnsScheduler
<1> QED BY <1>1, <1>2 DEF Finish, TickOwnsScheduler, OneTickInFlight, ModeIsTrue,
                          CycleRuns, Running

LEMMA QuietStep == ~StopInFlight /\ QuietInv /\ [Next]_vars => QuietInv'
<1> SUFFICES ASSUME ~StopInFlight, QuietInv, [Next]_vars
             PROVE  TickOwnsScheduler' /\ OneTickInFlight' /\ ModeIsTrue'
  BY AwakeStep DEF QuietInv
<1> DEFINE Quiet == TickOwnsScheduler /\ OneTickInFlight /\ ModeIsTrue
<1>0. TypeOK /\ FlagIsHeld /\ Quiet
  BY DEF QuietInv, AwakeInv
<1>1. CASE startMarketOpenScheduler
  <2>1. \A t \in Ticks : ~Running(t) /\ ~Running(t)'
    BY <1>0, <1>1 DEF startMarketOpenScheduler, TickOwnsScheduler, Running
  <2> QED BY <1>1, <2>1 DEF startMarketOpenScheduler, TickOwnsScheduler,
             OneTickInFlight, ModeIsTrue, CycleRuns, Running
<1>2. CASE stopMarketOpenScheduler
  <2>1. \A t \in Ticks : ~Running(t) /\ ~Running(t)'
    BY <1>2 DEF stopMarketOpenScheduler, Stopped, Running
  <2> QED BY <1>2, <2>1 DEF stopMarketOpenScheduler, Stopped, TickOwnsScheduler,
             OneTickInFlight, ModeIsTrue, CycleRuns, Running
<1>3. ASSUME NEW t \in Ticks, runSchedulerTick(t) PROVE Quiet'
  <2>1. \A u \in Ticks : ~Running(u)
    BY <1>0, <1>3 DEF runSchedulerTick, TickOwnsScheduler
  <2>2. ~inFlight
    BY <1>0, <2>1 DEF FlagIsHeld
  <2>3. CASE started
    <3>1. /\ phase' = [phase EXCEPT ![t] = "session"] /\ inFlight' /\ started'
          /\ timer' = Never /\ mode' = mode
      BY <1>3, <2>2, <2>3 DEF runSchedulerTick
    <3>2. \A u \in Ticks : Running(u)' => u = t
      BY <1>0, <2>1, <3>1 DEF TypeOK, Running
    <3>3. ~CycleRuns /\ ~CycleRuns'
      BY <1>0, <2>1, <3>1 DEF TypeOK, Running, CycleRuns
    <3> QED BY <1>0, <2>3, <3>1, <3>2, <3>3
            DEF TickOwnsScheduler, OneTickInFlight, ModeIsTrue
  <2>4. CASE ~started
    BY <1>0, <1>3, <2>1, <2>4 DEF runSchedulerTick, TickOwnsScheduler,
       OneTickInFlight, ModeIsTrue, CycleRuns, Running
  <2> QED BY <2>3, <2>4
<1>4. ASSUME NEW t \in Ticks, MarketClosed(t) PROVE Quiet'
  BY <1>4, FinishQuiet DEF MarketClosed, Running
<1>5. ASSUME NEW t \in Ticks, WaitForNextRun(t) PROVE Quiet'
  BY <1>5, FinishQuiet DEF WaitForNextRun, Running
<1>6. ASSUME NEW t \in Ticks, CycleBegins(t) PROVE Quiet'
  <2>1. Running(t) /\ started /\ inFlight /\ timer = Never
    BY <1>0, <1>6 DEF CycleBegins, TickOwnsScheduler, Running
  <2>2. phase'[t] = "cycle" /\ \A u \in Ticks \ {t} : phase'[u] = phase[u]
    BY <1>0, <1>6 DEF CycleBegins, TypeOK
  <2> QED BY <1>0, <1>6, <2>1, <2>2 DEF CycleBegins, TickOwnsScheduler,
             OneTickInFlight, ModeIsTrue, CycleRuns, Running
<1>7. ASSUME NEW t \in Ticks, CycleSucceeds(t) PROVE Quiet'
  BY <1>7, FinishQuiet DEF CycleSucceeds, Running
<1>8. ASSUME NEW t \in Ticks, TickThrows(t) PROVE Quiet'
  BY <1>8, FinishQuiet DEF TickThrows
<1>9. CASE MarketFlips
  BY <1>0, <1>9 DEF MarketFlips, flags, TickOwnsScheduler, OneTickInFlight,
     ModeIsTrue, CycleRuns, Running
<1>10. CASE TimePasses
  BY <1>0, <1>10 DEF TimePasses, flags, TickOwnsScheduler, OneTickInFlight,
     ModeIsTrue, CycleRuns, Running, TypeOK
<1>11. CASE UNCHANGED vars
  BY <1>0, <1>11 DEF vars, flags, TickOwnsScheduler, OneTickInFlight,
     ModeIsTrue, CycleRuns, Running
<1> QED BY <1>1, <1>2, <1>3, <1>4, <1>5, <1>6, <1>7, <1>8, <1>9, <1>10, <1>11
        DEF Next, SessionAnswers

LEMMA QuietInit == Init => QuietInv
BY TypeInit DEF Init, QuietInv, AwakeInv, FlagIsHeld, NeverAsleep, TickOwnsScheduler,
   OneTickInFlight, ModeIsTrue, CycleRuns, Running

\* The inFlight flag does its work as long as nobody stops the scheduler under
\* an activation: there is never more than one.
THEOREM TicksExclude == ~StopInFlight => (Spec => []OneTickInFlight)
<1> SUFFICES ASSUME ~StopInFlight PROVE Spec => []OneTickInFlight
  OBVIOUS
<1>1. QuietInv /\ [Next]_vars => QuietInv'
  BY QuietStep
<1>2. QuietInv => OneTickInFlight
  BY DEF QuietInv
<1> QED BY <1>1, <1>2, QuietInit, PTL DEF Spec

\* Under the same condition the reported mode is true in every state.
THEOREM ModeIsReliable == ~StopInFlight => (Spec => []ModeIsTrue)
<1> SUFFICES ASSUME ~StopInFlight PROVE Spec => []ModeIsTrue
  OBVIOUS
<1>1. QuietInv /\ [Next]_vars => QuietInv'
  BY QuietStep
<1>2. QuietInv => ModeIsTrue
  BY DEF QuietInv
<1> QED BY <1>1, <1>2, QuietInit, PTL DEF Spec

-----------------------------------------------------------------------------
(* How far apart cycles begin. *)

\* The history and the scheduler's own record tell the same time: a cycle's age
\* while it runs, and the last run's when none does, unless the last one failed.
SpacingIsKept ==
  /\ \A t \in Ticks : phase[t] = "cycle" => spacing = runAge[t]
  /\ ~CycleRuns => spacing \in {Never, lastRunAge}

SpacedInv == QuietInv /\ SpacingIsKept

LEMMA SpacedInit == Init => SpacedInv
BY QuietInit DEF Init, SpacedInv, SpacingIsKept, CycleRuns

\* Where one activation is under way, no other has a cycle.
LEMMA OneRuns ==
  ASSUME QuietInv, NEW t \in Ticks, Running(t)
  PROVE  \A u \in Ticks : phase[u] = "cycle" => u = t
BY DEF QuietInv, OneTickInFlight, Running

LEMMA SpacedStep == ~StopInFlight /\ SpacedInv /\ [Next]_vars => SpacedInv'
<1> SUFFICES ASSUME ~StopInFlight, SpacedInv, [Next]_vars PROVE SpacingIsKept'
  BY QuietStep DEF SpacedInv
<1>0. TypeOK /\ QuietInv /\ SpacingIsKept
  BY DEF SpacedInv, QuietInv, AwakeInv
<1>1. ASSUME NEW t \in Ticks, MarketClosed(t) \/ WaitForNextRun(t) PROVE SpacingIsKept'
  <2>1. Running(t) /\ phase[t] = "session" /\ phase' = [phase EXCEPT ![t] = "done"]
        /\ UNCHANGED <<spacing, lastRunAge>>
    BY <1>1 DEF MarketClosed, WaitForNextRun, Running, Finish
  <2>2. ~CycleRuns /\ ~CycleRuns'
    BY <1>0, <2>1, OneRuns DEF CycleRuns, TypeOK
  <2> QED BY <1>0, <2>1, <2>2 DEF SpacingIsKept, CycleRuns
<1>2. ASSUME NEW t \in Ticks, CycleBegins(t) PROVE SpacingIsKept'
  <2>1. Running(t) /\ phase' = [phase EXCEPT ![t] = "cycle"]
        /\ runAge' = [runAge EXCEPT ![t] = 0] /\ spacing' = 0
    BY <1>2 DEF CycleBegins, Running
  <2>2. \A u \in Ticks : phase'[u] = "cycle" => u = t
    BY <1>0, <2>1, OneRuns DEF TypeOK
  <2>3. CycleRuns'
    BY <1>0, <2>1 DEF CycleRuns, TypeOK
  <2> QED BY <1>0, <2>1, <2>2, <2>3 DEF SpacingIsKept, TypeOK
<1>3. ASSUME NEW t \in Ticks, CycleSucceeds(t) PROVE SpacingIsKept'
  <2>1. Running(t) /\ phase[t] = "cycle" /\ phase' = [phase EXCEPT ![t] = "done"]
        /\ lastRunAge' = runAge[t] /\ UNCHANGED spacing
    BY <1>3 DEF CycleSucceeds, Running, Finish
  <2>2. ~CycleRuns'
    BY <1>0, <2>1, OneRuns DEF CycleRuns, TypeOK
  <2> QED BY <1>0, <2>1, <2>2 DEF SpacingIsKept, CycleRuns
<1>4. ASSUME NEW t \in Ticks, TickThrows(t) PROVE SpacingIsKept'
  <2>1. Running(t) /\ phase' = [phase EXCEPT ![t] = "done"] /\ UNCHANGED lastRunAge
        /\ spacing' = IF phase[t] = "cycle" THEN Never ELSE spacing
    BY <1>4 DEF TickThrows, Finish
  <2>2. ~CycleRuns'
    BY <1>0, <2>1, OneRuns DEF CycleRuns, TypeOK
  <2>3. phase[t] # "cycle" => ~CycleRuns
    BY <1>0, <2>1, OneRuns DEF CycleRuns
  <2> QED BY <1>0, <2>1, <2>2, <2>3 DEF SpacingIsKept, CycleRuns
<1>5. CASE TimePasses
  <2>1. ASSUME NEW t \in Ticks, phase[t] = "cycle" PROVE spacing' = runAge'[t]
    BY <1>0, <1>5, <2>1 DEF TimePasses, SpacingIsKept
  <2>2. ~CycleRuns => spacing' \in {Never, lastRunAge'}
    BY <1>0, <1>5 DEF TimePasses, SpacingIsKept, Later
  <2> QED BY <1>5, <2>1, <2>2 DEF TimePasses, SpacingIsKept, CycleRuns
<1>6. CASE \E t \in Ticks : runSchedulerTick(t)
  <2>1. PICK t \in Ticks : runSchedulerTick(t)
    BY <1>6
  <2>2. /\ UNCHANGED <<spacing, lastRunAge, runAge>>
        /\ \A u \in Ticks : phase'[u] = "cycle" <=> phase[u] = "cycle"
    BY <1>0, <2>1 DEF runSchedulerTick, TypeOK, Running
  <2> QED BY <1>0, <2>2 DEF SpacingIsKept, CycleRuns
<1>7. CASE startMarketOpenScheduler \/ stopMarketOpenScheduler \/ MarketFlips \/ UNCHANGED vars
  BY <1>0, <1>7 DEF startMarketOpenScheduler, stopMarketOpenScheduler, Stopped, MarketFlips,
                    vars, SpacingIsKept, CycleRuns
<1> QED BY <1>1, <1>2, <1>3, <1>4, <1>5, <1>6, <1>7 DEF Next, SessionAnswers

\* A cycle that begins finds the last one an interval old, or failed.
LEMMA BeginsSpaced ==
  ASSUME SpacedInv, [Next]_vars, ~CycleRuns, CycleRuns'
  PROVE  spacing \in {Never, OpenInterval}
<1>0. TypeOK /\ spacing \in {Never, lastRunAge}
  BY DEF SpacedInv, SpacingIsKept, QuietInv, AwakeInv
<1>1. \E t \in Ticks : CycleBegins(t)
  <2>1. PICK t \in Ticks : phase'[t] = "cycle" /\ phase[t] # "cycle"
    BY DEF CycleRuns
  <2> QED BY <1>0, <2>1 DEF Next, SessionAnswers, TypeOK, CycleRuns, vars,
             startMarketOpenScheduler, stopMarketOpenScheduler, Stopped, runSchedulerTick,
             MarketClosed, WaitForNextRun, CycleSucceeds, TickThrows, Finish,
             MarketFlips, TimePasses
<1>2. shouldRunNow
  BY <1>1 DEF CycleBegins
<1> QED BY <1>0, <1>2, SchedulerAssumption DEF shouldRunNow, TypeOK

\* Two cycles begin an interval apart unless the earlier one failed, across
\* closed sessions, early wake-ups, stops and starts: the timer may fire early
\* or late, lastRunAtMs decides (runSchedulerTick).
THEOREM CyclesKeepTheirDistance == ~StopInFlight => (Spec => CyclesSpaced)
<1> SUFFICES ASSUME ~StopInFlight PROVE Spec => CyclesSpaced
  OBVIOUS
<1>1. SpacedInv /\ [Next]_vars => SpacedInv'
  BY SpacedStep
<1>2. SpacedInv /\ [Next]_vars =>
        [(~CycleRuns /\ CycleRuns') => spacing \in {Never, OpenInterval}]_vars
  BY BeginsSpaced
<1> QED BY <1>1, <1>2, SpacedInit, PTL DEF Spec, CyclesSpaced

\* So they do in the run that TLC makes, in its world without stops under a tick.
THEOREM UndisturbedCyclesKeepTheirDistance ==
  ~StopInFlight => (MCSpec => CyclesSpacedUndisturbed)
<1> SUFFICES ASSUME ~StopInFlight PROVE MCSpec => CyclesSpacedUndisturbed
  OBVIOUS
<1> DEFINE Inv == world = "undisturbed" => SpacedInv
           all == <<allVars, channelVars, streamerVars, world>>
<1>1. MCInit => Inv
  BY SpacedInit DEF MCInit, ShutdownInit
<1>2. Inv /\ [MCNext]_all => Inv'
  <2> SUFFICES ASSUME Inv, [MCNext]_all, world' = "undisturbed" PROVE SpacedInv'
    OBVIOUS
  <2>1. world = "undisturbed" /\ [Next]_vars
    BY DEF MCNext, SchedulerStep, allVars
  <2> QED BY <2>1, SpacedStep
<1>3. Inv /\ [MCNext]_all =>
        [(world = "undisturbed" /\ ~CycleRuns /\ CycleRuns')
           => spacing \in {Never, OpenInterval}]_vars
  <2> SUFFICES ASSUME Inv, [MCNext]_all, world = "undisturbed", ~CycleRuns, CycleRuns'
               PROVE  spacing \in {Never, OpenInterval}
    OBVIOUS
  <2>1. [Next]_vars
    BY DEF MCNext, SchedulerStep, allVars
  <2> QED BY <2>1, BeginsSpaced
<1> QED BY <1>1, <1>2, <1>3, PTL DEF MCSpec, CyclesSpacedUndisturbed

-----------------------------------------------------------------------------
(* The lines of a connection. *)

Char == Nat \X Nat
Width == Pieces + 1
Piece(r, k) == IF k <= Pieces THEN <<r, k>> ELSE Ipc!Newline

\* A buffer never holds more than the one line whose turn it is: what is in it and on
\* the wire is what the client wrote and nobody has run.
LinesInv ==
  /\ written \in Nat /\ newlineIndex \in Nat
  /\ wire \in Seq(Char) /\ buffer \in Seq(Char) /\ ran \in Seq(Seq(Char))
  /\ Len(ran) <= written
  /\ Len(buffer) + Len(wire) = (written - Len(ran)) * Width
  /\ Len(buffer) <= Width
  /\ newlineIndex = IF Len(buffer) = Width THEN Width ELSE 0
  /\ \A k \in 1 .. Len(buffer) : buffer[k] = Piece(Len(ran) + 1, k)
  /\ \A r \in 1 .. written, k \in 1 .. Width, i \in 1 .. Len(wire) :
       i = (r - Len(ran) - 1) * Width + k - Len(buffer) => wire[i] = Piece(r, k)
  /\ \A h \in waiting : h.newlineIndex = 0
  /\ \A i \in 1 .. Len(ran) : ran[i] = Ipc!Text(i)

LEMMA WidthFacts ==
  /\ Pieces \in Nat \ {0} /\ Requests \in Nat /\ Width \in Nat /\ Width > 1
  /\ \A m \in Int : /\ m * Width \in Int
                    /\ (m + 1) * Width = m * Width + Width
                    /\ (m - 1) * Width = m * Width - Width
  /\ \A m \in Int : m > 0 => m * Width >= Width
  /\ \A m \in Int : m < 0 => m * Width <= -Width
  /\ \A m, n \in Int : m <= n => m * Width <= n * Width
  /\ 0 * Width = 0
<1>1. Pieces \in Nat \ {0} /\ Requests \in Nat /\ Width \in Nat /\ Width > 1
  BY LinesAssumption DEF Width
<1> DEFINE w == Width
<1> HIDE DEF w
<1>2. w \in Nat /\ w > 1
  BY <1>1 DEF w
<1>3. /\ \A m \in Int : /\ m * w \in Int
                        /\ (m + 1) * w = m * w + w
                        /\ (m - 1) * w = m * w - w
      /\ 0 * w = 0
  BY <1>2
<1>4. \A m \in Int : m > 0 => m * w >= w
  BY <1>2
<1>5. \A m, n \in Int : m <= n => m * w <= n * w
  BY <1>2
<1>6. \A m \in Int : m < 0 => m * w <= -w
  BY <1>2
<1> QED BY <1>1, <1>3, <1>4, <1>5, <1>6 DEF w

LEMMA WidthTypes == Pieces \in Nat /\ Width \in Nat /\ Width = Pieces + 1
BY LinesAssumption DEF Width

LEMMA Joined ==
  ASSUME NEW S, NEW a \in Seq(S), NEW b \in Seq(S)
  PROVE  /\ a \o b \in Seq(S) /\ Len(a \o b) = Len(a) + Len(b)
         /\ Len(a) \in Nat /\ Len(b) \in Nat
         /\ \A i \in 1 .. Len(a) : (a \o b)[i] = a[i]
         /\ \A k \in 1 .. Len(b) : (a \o b)[Len(a) + k] = b[k]
OBVIOUS

LEMMA PieceFacts ==
  /\ \A r \in Nat, k \in 1 .. Width : Piece(r, k) \in Char
  /\ \A r \in Nat, k \in 1 .. Width : r > 0 => (Piece(r, k) = Ipc!Newline <=> k = Width)
  /\ Ipc!Newline = <<0, 0>> /\ OneByOne!Newline = Ipc!Newline
BY WidthFacts DEF Piece, Char, Width, Ipc!Newline, OneByOne!Newline

\* What the handler finds in a buffer of one line at most: its end, once it is there.
LEMMA IndexIsTheEnd ==
  ASSUME NEW s \in Seq(Char), NEW r \in Nat \ {0}, Len(s) <= Width,
         \A k \in 1 .. Len(s) : s[k] = Piece(r, k)
  PROVE  /\ Ipc!indexOfNewline(s) = IF Len(s) = Width THEN Width ELSE 0
         /\ OneByOne!indexOfNewline(s) = Ipc!indexOfNewline(s)
<1>1. \A k \in 1 .. Len(s) : s[k] = Ipc!Newline <=> k = Width
  BY PieceFacts, WidthFacts
<1> DEFINE I == {i \in 1 .. Len(s) : s[i] = Ipc!Newline}
<1>2. CASE Len(s) = Width
  <2>1. I = {Width}
    BY <1>1, <1>2, WidthFacts
  <2>2. Ipc!Min(I) = Width /\ OneByOne!Min(I) = Width
    BY <2>1, WidthFacts DEF Ipc!Min, OneByOne!Min
  <2>3. Ipc!Newline \in Ipc!ToSet(s) /\ Ipc!Newline \in OneByOne!ToSet(s)
    BY <2>1 DEF Ipc!ToSet, OneByOne!ToSet
  <2> QED BY <1>2, <2>1, <2>2, <2>3, PieceFacts
        DEF Ipc!indexOfNewline, OneByOne!indexOfNewline, Ipc!SelectInSeq, OneByOne!SelectInSeq
<1>3. CASE Len(s) # Width
  <2>1. Ipc!Newline \notin Ipc!ToSet(s) /\ Ipc!Newline \notin OneByOne!ToSet(s)
    BY <1>1, <1>3, WidthFacts DEF Ipc!ToSet, OneByOne!ToSet
  <2> QED BY <1>3, <2>1, PieceFacts DEF Ipc!indexOfNewline, OneByOne!indexOfNewline
<1> QED BY <1>2, <1>3

LEMMA TextFacts ==
  \A r \in Nat : /\ Ipc!Text(r) \in Seq(Char) /\ Len(Ipc!Text(r)) = Pieces
                /\ \A k \in 1 .. Pieces : Ipc!Text(r)[k] = Piece(r, k)
<1> TAKE r \in Nat
<1> DEFINE t == [k \in 1 .. Pieces |-> <<r, k>>]
<1>1. t \in Seq(Char) /\ Len(t) = Pieces
  <2>1. Pieces \in Nat /\ \A k \in 1 .. Pieces : <<r, k>> \in Char
    BY WidthFacts DEF Char
  <2> HIDE DEF Char
  <2>2. t \in Seq(Char)
    BY <2>1, IsASeq
  <2>3. DOMAIN t = 1 .. Pieces
    OBVIOUS
  <2>4. DOMAIN t = 1 .. Len(t) /\ Len(t) \in Nat
    BY <2>2, LenProperties
  <2> QED BY <2>1, <2>2, <2>3, <2>4
<1>2. Ipc!Text(r) = t
  BY DEF Ipc!Text
<1>3. \A k \in 1 .. Pieces : t[k] = Piece(r, k)
  BY WidthFacts DEF Piece
<1> QED BY <1>1, <1>2, <1>3

LEMMA TextsAgree == \A r : OneByOne!Text(r) = Ipc!Text(r)
BY DEF Ipc!Text, OneByOne!Text

LEMMA LinesInit == Ipc!Init => LinesInv
<1> SUFFICES ASSUME Ipc!Init PROVE LinesInv
  OBVIOUS
<1> QED BY WidthFacts DEF Ipc!Init, LinesInv

\* A request is written.
LEMMA SendKeeps ==
  ASSUME LinesInv, Ipc!SendRequest \/ OneByOne!SendRequest
  PROVE  LinesInv'
<1> DEFINE text == Ipc!Text(written + 1)
           line == text \o <<Ipc!Newline>>
<1>0. written \in Nat /\ Len(buffer) \in Nat /\ Len(wire) \in Nat /\ Len(ran) \in Nat
  BY LenProperties DEF LinesInv
<1>1. written' = written + 1 /\ wire' = (wire \o text) \o <<Ipc!Newline>>
      /\ UNCHANGED <<buffer, newlineIndex, waiting, ran>>
  <2>1. OneByOne!Text(written + 1) = Ipc!Text(written + 1)
    BY TextsAgree
  <2>2. CASE Ipc!SendRequest
    BY <2>2 DEF Ipc!SendRequest
  <2>3. CASE OneByOne!SendRequest
    BY <2>1, <2>3, PieceFacts DEF OneByOne!SendRequest
  <2> QED BY <2>2, <2>3
<1>2. /\ text \in Seq(Char) /\ Len(text) = Pieces
      /\ \A k \in 1 .. Pieces : text[k] = Piece(written + 1, k)
  BY <1>0, TextFacts
<1>3. /\ wire' \in Seq(Char) /\ Len(wire') = Len(wire) + Width
      /\ \A i \in 1 .. Len(wire) : wire'[i] = wire[i]
      /\ \A k \in 1 .. Width : wire'[Len(wire) + k] = Piece(written + 1, k)
  <2> DEFINE most == wire \o text
             end == <<Ipc!Newline>>
  <2>1. wire \in Seq(Char) /\ end \in Seq(Char) /\ Len(end) = 1 /\ end[1] = Ipc!Newline
    BY PieceFacts DEF LinesInv, Char
  <2> HIDE DEF text, Char, end
  <2>2. /\ most \in Seq(Char) /\ Len(most) = Len(wire) + Pieces
        /\ \A i \in 1 .. Len(wire) : most[i] = wire[i]
        /\ \A k \in 1 .. Pieces : most[Len(wire) + k] = Piece(written + 1, k)
    <3>1. /\ most \in Seq(Char) /\ Len(most) = Len(wire) + Len(text)
          /\ \A i \in 1 .. Len(wire) : most[i] = wire[i]
          /\ \A k \in 1 .. Len(text) : most[Len(wire) + k] = text[k]
      BY <1>2, <2>1, Joined
    <3> HIDE DEF most
    <3> QED BY <1>2, <3>1
  <2> HIDE DEF most
  <2>3. wire' = most \o end
    BY <1>1 DEF most, end
  <2>4. /\ wire' \in Seq(Char) /\ Len(wire') = Len(most) + 1
        /\ \A i \in 1 .. Len(most) : wire'[i] = most[i]
        /\ wire'[Len(most) + 1] = Ipc!Newline
    <3> DEFINE all == most \o end
    <3>1. /\ all \in Seq(Char) /\ Len(all) = Len(most) + Len(end)
          /\ \A i \in 1 .. Len(most) : all[i] = most[i]
          /\ \A k \in 1 .. Len(end) : all[Len(most) + k] = end[k]
      <4>1. most \in Seq(Char) /\ end \in Seq(Char)
        BY <2>1, <2>2
      <4> HIDE DEF all
      <4>2. \A a, b \in Seq(Char) :
              /\ a \o b \in Seq(Char) /\ Len(a \o b) = Len(a) + Len(b)
              /\ \A i \in 1 .. Len(a) : (a \o b)[i] = a[i]
              /\ \A k \in 1 .. Len(b) : (a \o b)[Len(a) + k] = b[k]
        BY Joined
      <4> QED BY <4>1, <4>2, Zenon DEF all
    <3>2. wire' = all
      BY <2>3
    <3> HIDE DEF all
    <3> QED BY <2>1, <3>1, <3>2
  <2>5. Piece(written + 1, Width) = Ipc!Newline
    BY WidthTypes DEF Piece
  <2>6. ASSUME NEW k \in 1 .. Width PROVE wire'[Len(wire) + k] = Piece(written + 1, k)
    <3>1. CASE k \in 1 .. Pieces
      BY <1>0, <2>2, <2>4, <3>1, WidthTypes
    <3>2. CASE k = Width
      <4>1. Len(wire) + k = Len(most) + 1
        BY <1>0, <2>2, <3>2, WidthTypes
      <4> QED BY <2>4, <2>5, <3>2, <4>1
    <3> QED BY <3>1, <3>2, WidthTypes
  <2>7. Len(wire') = Len(wire) + Width
    BY <1>0, <2>2, <2>4, WidthTypes
  <2>8. \A i \in 1 .. Len(wire) : wire'[i] = wire[i]
    BY <1>0, <2>2, <2>4, WidthTypes
  <2> QED BY <2>4, <2>6, <2>7, <2>8
<1>4. (written + 1 - Len(ran)) * Width = (written - Len(ran)) * Width + Width
  <2>1. written + 1 - Len(ran) = (written - Len(ran)) + 1 /\ written - Len(ran) \in Int
    BY <1>0
  <2> QED BY <2>1, WidthFacts
<1>5. ASSUME NEW r \in 1 .. written', NEW k \in 1 .. Width, NEW i \in 1 .. Len(wire'),
             i = (r - Len(ran) - 1) * Width + k - Len(buffer)
      PROVE  wire'[i] = Piece(r, k)
  <2>1. CASE r = written + 1
    <3>1. (r - Len(ran) - 1) * Width = Len(buffer) + Len(wire)
      <4>1. r - Len(ran) - 1 = written - Len(ran)
        BY <1>0, <2>1
      <4> QED BY <4>1 DEF LinesInv
    <3>2. i = Len(wire) + k
      BY <1>0, <1>5, <3>1, WidthFacts
    <3> QED BY <1>3, <2>1, <3>2
  <2>2. CASE r \in 1 .. written
    <3>1. (r - Len(ran) - 1) * Width <= (written - Len(ran)) * Width - Width
      <4>1. /\ r - Len(ran) - 1 \in Int /\ written - Len(ran) - 1 \in Int
            /\ written - Len(ran) \in Int
            /\ r - Len(ran) - 1 <= written - Len(ran) - 1
        BY <1>0, <2>2
      <4>2. (written - Len(ran) - 1) * Width = (written - Len(ran)) * Width - Width
        BY <4>1, WidthFacts
      <4> QED BY <4>1, <4>2, WidthFacts
    <3>2. i <= Len(wire)
      <4>1. (r - Len(ran) - 1) * Width \in Int /\ (written - Len(ran)) * Width \in Int
        BY <1>0, <2>2, WidthFacts
      <4>2. Len(buffer) + Len(wire) = (written - Len(ran)) * Width
        BY DEF LinesInv
      <4> QED BY <1>0, <1>5, <3>1, <4>1, <4>2, WidthFacts
    <3>3. i \in 1 .. Len(wire)
      BY <1>0, <1>5, <3>2
    <3> QED BY <1>3, <1>5, <2>2, <3>3 DEF LinesInv
  <2> QED BY <1>0, <1>1, <2>1, <2>2
<1>6. Len(buffer) + Len(wire') = (written' - Len(ran)) * Width
  <2> DEFINE before == (written - Len(ran)) * Width
             after == (written + 1 - Len(ran)) * Width
  <2>1. before \in Int /\ after = before + Width
    BY <1>0, <1>4, WidthFacts
  <2>2. Len(buffer) + Len(wire) = before
    BY DEF LinesInv
  <2> HIDE DEF before, after, text
  <2>3. Len(buffer) + Len(wire') = after
    BY SMTT(30), <1>0, <1>3, <2>1, <2>2, WidthTypes
  <2>4. written' - Len(ran) = written + 1 - Len(ran)
    BY <1>0, <1>1
  <2> QED BY <2>3, <2>4, Zenon DEF after
<1>7. written' \in Nat /\ Len(ran) <= written'
  BY <1>0, <1>1 DEF LinesInv
<1> QED BY <1>1, <1>3, <1>5, <1>6, <1>7 DEF LinesInv

\* A chunk arrives that does not go past the end of the line.
LEMMA ChunkKeeps ==
  ASSUME LinesInv, NEW n \in 1 .. Len(wire), Len(buffer) + n <= Width, Len(ran) < written,
         buffer' = buffer \o SubSeq(wire, 1, n),
         wire' = SubSeq(wire, n + 1, Len(wire)),
         newlineIndex' = Ipc!indexOfNewline(buffer'),
         UNCHANGED <<written, waiting, ran>>
  PROVE  LinesInv'
<1>1. /\ written \in Nat /\ Len(buffer) \in Nat /\ Len(wire) \in Nat /\ Len(ran) \in Nat
      /\ buffer \in Seq(Char) /\ wire \in Seq(Char)
  BY LenProperties DEF LinesInv
<1>2. /\ buffer' \in Seq(Char) /\ Len(buffer') = Len(buffer) + n
      /\ wire' \in Seq(Char) /\ Len(wire') = Len(wire) - n
      /\ \A k \in 1 .. Len(buffer) : buffer'[k] = buffer[k]
      /\ \A k \in 1 .. n : buffer'[Len(buffer) + k] = wire[k]
      /\ \A k \in 1 .. Len(wire) - n : wire'[k] = wire[n + k]
  <2> HIDE DEF Char
  <2> DEFINE chunk == SubSeq(wire, 1, n)
  <2>1. chunk \in Seq(Char) /\ Len(chunk) = n /\ \A k \in 1 .. n : chunk[k] = wire[k]
    BY <1>1
  <2>2. /\ wire' \in Seq(Char) /\ Len(wire') = Len(wire) - n
        /\ \A k \in 1 .. Len(wire) - n : wire'[k] = wire[n + k]
    BY <1>1
  <2> HIDE DEF chunk
  <2>3. buffer' = buffer \o chunk
    BY DEF chunk
  <2>4. \A k \in 1 .. Len(chunk) : buffer'[Len(buffer) + k] = chunk[k]
    BY SMTT(30), <1>1, <2>1, <2>3, Joined
  <2>5. /\ buffer' \in Seq(Char) /\ Len(buffer') = Len(buffer) + n
        /\ \A k \in 1 .. Len(buffer) : buffer'[k] = buffer[k]
    BY <1>1, <2>1, <2>3, Joined
  <2> QED BY <2>1, <2>2, <2>4, <2>5
<1>3. 0 * Width = 0
  BY WidthFacts
<1>4. ASSUME NEW k \in 1 .. Len(buffer') PROVE buffer'[k] = Piece(Len(ran) + 1, k)
  <2>1. CASE k \in 1 .. Len(buffer)
    BY <1>1, <1>2, <2>1 DEF LinesInv
  <2>2. CASE k \in Len(buffer) + 1 .. Len(buffer) + n
    <3> DEFINE i == k - Len(buffer)
               r == Len(ran) + 1
    <3>1. i \in 1 .. n /\ i \in 1 .. Len(wire) /\ k = Len(buffer) + i
      BY <1>1, <2>2
    <3>2. r \in 1 .. written /\ r - Len(ran) - 1 = 0 /\ k \in 1 .. Width
      BY <1>1, <2>2, WidthFacts
    <3>3. i = (r - Len(ran) - 1) * Width + k - Len(buffer)
      BY <1>1, <1>3, <2>2, <3>2
    <3> HIDE DEF i, r
    <3>4. wire[i] = Piece(r, k)
      BY <3>1, <3>2, <3>3 DEF LinesInv
    <3> QED BY <1>2, <3>1, <3>4 DEF r
  <2> QED BY <1>1, <1>2, <2>1, <2>2
<1>5. newlineIndex' = IF Len(buffer') = Width THEN Width ELSE 0
  <2>1. Len(ran) + 1 \in Nat \ {0} /\ Len(buffer') <= Width
    BY <1>1, <1>2
  <2> QED BY <1>2, <1>4, <2>1, IndexIsTheEnd
<1>6. ASSUME NEW r \in 1 .. written, NEW k \in 1 .. Width, NEW i \in 1 .. Len(wire'),
             i = (r - Len(ran) - 1) * Width + k - Len(buffer')
      PROVE  wire'[i] = Piece(r, k)
  <2>1. (r - Len(ran) - 1) * Width \in Int
    BY <1>1, WidthFacts
  <2>2. n + i = (r - Len(ran) - 1) * Width + k - Len(buffer) /\ n + i \in 1 .. Len(wire)
    BY <1>1, <1>2, <1>6, <2>1, WidthFacts
  <2>3. wire[n + i] = Piece(r, k)
    BY <2>2 DEF LinesInv
  <2> QED BY <1>1, <1>2, <2>3
<1>7. Len(buffer') + Len(wire') = (written - Len(ran)) * Width
  <2>1. Len(buffer) + Len(wire) = (written - Len(ran)) * Width
    BY DEF LinesInv
  <2>2. Len(buffer') = Len(buffer) + n /\ Len(wire') = Len(wire) - n
    BY <1>1, <1>2, Zenon
  <2>3. \A a, b, m \in Int : (a + m) + (b - m) = a + b
    OBVIOUS
  <2>4. Len(buffer) \in Int /\ Len(wire) \in Int /\ n \in Int
    BY <1>1
  <2>5. (Len(buffer) + n) + (Len(wire) - n) = Len(buffer) + Len(wire)
    BY <2>3, <2>4, Zenon
  <2> QED BY <2>1, <2>2, <2>5, Zenon
<1>8. newlineIndex' \in Nat /\ Len(buffer') <= Width
  BY <1>1, <1>2, <1>5, WidthFacts
<1> QED BY <1>1, <1>2, <1>4, <1>5, <1>6, <1>7, <1>8 DEF LinesInv

\* Whatever arrives belongs to a line that was written, and where nobody runs, its end
\* is still to come.
LEMMA LineIsDue ==
  ASSUME LinesInv, NEW n \in 1 .. Len(wire), newlineIndex = 0
  PROVE  /\ Len(ran) < written /\ Len(buffer) < Width
         /\ Len(buffer) + n > Width => wire[Width - Len(buffer)] = Ipc!Newline
<1>1. /\ written \in Nat /\ Len(buffer) \in Nat /\ Len(wire) \in Nat /\ Len(ran) \in Nat
      /\ Len(buffer) <= Width /\ Len(ran) <= written
      /\ Len(buffer) + Len(wire) = (written - Len(ran)) * Width
  BY LenProperties DEF LinesInv
<1>2. Len(buffer) < Width
  BY <1>1, WidthFacts DEF LinesInv
<1>3. Len(ran) < written
  <2> SUFFICES ASSUME written - Len(ran) = 0 PROVE FALSE
    BY <1>1
  <2>1. (written - Len(ran)) * Width = 0
    BY WidthFacts
  <2> QED BY <1>1, <2>1
<1>4. ASSUME Len(buffer) + n > Width PROVE wire[Width - Len(buffer)] = Ipc!Newline
  <2> DEFINE r == Len(ran) + 1
             i == Width - Len(buffer)
  <2>1. r \in 1 .. written /\ r - Len(ran) - 1 = 0
    BY <1>1, <1>3
  <2>2. i \in 1 .. Len(wire) /\ Width \in 1 .. Width
    BY <1>1, <1>2, <1>4, WidthFacts
  <2>3. i = (r - Len(ran) - 1) * Width + Width - Len(buffer)
    BY <1>1, <2>1, WidthFacts
  <2>4. Piece(r, Width) = Ipc!Newline
    BY WidthTypes DEF Piece
  <2> HIDE DEF r, i
  <2>5. wire[i] = Piece(r, Width)
    BY <2>1, <2>2, <2>3 DEF LinesInv
  <2> QED BY <2>4, <2>5 DEF i
<1> QED BY <1>2, <1>3, <1>4

\* The client writes on, and every chunk ends with its line at the latest.
LEMMA LineArrives ==
  ASSUME LinesInv, NEW n \in 1 .. Len(wire), Ipc!DataArrives(n)
  PROVE  LinesInv'
<1>1. /\ newlineIndex = 0
      /\ Ipc!Newline \notin Ipc!ToSet(SubSeq(wire, 1, n - 1))
      /\ buffer' = buffer \o SubSeq(wire, 1, n)
      /\ wire' = SubSeq(wire, n + 1, Len(wire))
      /\ newlineIndex' = Ipc!indexOfNewline(buffer')
      /\ UNCHANGED <<written, waiting, ran>>
  BY DEF Ipc!DataArrives, Ipc!Nobody
<1>2. Len(buffer) \in Nat /\ Len(wire) \in Nat /\ wire \in Seq(Char) /\ Width \in Nat
  BY LenProperties, WidthTypes DEF LinesInv
<1>3. Len(ran) < written /\ Len(buffer) < Width
      /\ (Len(buffer) + n > Width => wire[Width - Len(buffer)] = Ipc!Newline)
  BY <1>1, LineIsDue
<1>4. Len(buffer) + n <= Width
  <2> SUFFICES ASSUME Len(buffer) + n > Width PROVE FALSE
    BY <1>2
  <2> DEFINE chunk == SubSeq(wire, 1, n - 1)
             i == Width - Len(buffer)
  <2>1. i \in 1 .. n - 1 /\ wire[i] = Ipc!Newline
    BY <1>2, <1>3
  <2>2. DOMAIN chunk = 1 .. n - 1 /\ \A j \in 1 .. n - 1 : chunk[j] = wire[j]
    <3> HIDE DEF Char
    <3> QED BY <1>2
  <2> HIDE DEF chunk, i
  <2>3. Ipc!Newline \in Ipc!ToSet(chunk)
    BY <2>1, <2>2 DEF Ipc!ToSet
  <2> QED BY <1>1, <2>3 DEF chunk
<1> QED BY <1>1, <1>3, <1>4, ChunkKeeps

\* The client waits: there is no other line a chunk could go on with.
LEMMA PartArrives ==
  ASSUME LinesInv, written <= Len(ran) + 1, NEW n \in 1 .. Len(wire), OneByOne!DataArrives(n)
  PROVE  LinesInv'
<1>1. /\ newlineIndex = 0
      /\ buffer' = buffer \o SubSeq(wire, 1, n)
      /\ wire' = SubSeq(wire, n + 1, Len(wire))
      /\ newlineIndex' = OneByOne!indexOfNewline(buffer')
      /\ UNCHANGED <<written, waiting, ran>>
  BY DEF OneByOne!DataArrives, OneByOne!Nobody
<1>2. /\ written \in Nat /\ Len(buffer) \in Nat /\ Len(wire) \in Nat /\ Len(ran) \in Nat
      /\ Len(buffer) + Len(wire) = (written - Len(ran)) * Width
  BY LenProperties DEF LinesInv
<1>3. Len(ran) < written /\ Len(buffer) < Width
  BY <1>1, LineIsDue
<1>4. (written - Len(ran)) * Width = Width
  <2>1. written - Len(ran) = 1 /\ 1 * Width = Width
    BY <1>2, <1>3, WidthTypes
  <2> QED BY <2>1
<1>5. Len(buffer) + n <= Width
  BY <1>2, <1>4
<1>6. OneByOne!indexOfNewline(buffer') = Ipc!indexOfNewline(buffer')
  BY PieceFacts DEF OneByOne!indexOfNewline, Ipc!indexOfNewline, OneByOne!ToSet, Ipc!ToSet,
     OneByOne!SelectInSeq, Ipc!SelectInSeq, OneByOne!Min, Ipc!Min
<1> QED BY <1>1, <1>3, <1>5, <1>6, ChunkKeeps

\* What the handler cuts off is the text of the request whose turn it is, and nothing
\* is left behind.
LEMMA LineIsTheText ==
  ASSUME LinesInv, newlineIndex # 0
  PROVE  /\ Len(buffer) = Width /\ newlineIndex = Width /\ Len(ran) < written
         /\ Ipc!Trim(Ipc!Before(buffer, newlineIndex)) = Ipc!Text(Len(ran) + 1)
         /\ Ipc!After(buffer, newlineIndex) = << >>
<1>1. /\ written \in Nat /\ Len(buffer) \in Nat /\ Len(wire) \in Nat /\ Len(ran) \in Nat
      /\ Len(ran) <= written /\ Len(buffer) + Len(wire) = (written - Len(ran)) * Width
      /\ buffer \in Seq(Char) /\ Width \in Nat /\ Width = Pieces + 1 /\ Pieces \in Nat
      /\ Pieces > 0
  BY LenProperties, WidthTypes, WidthFacts DEF LinesInv
<1>2. Len(buffer) = Width /\ newlineIndex = Width
  BY DEF LinesInv
<1>3. Len(ran) < written
  <2> SUFFICES ASSUME written - Len(ran) = 0 PROVE FALSE
    BY <1>1
  <2>1. (written - Len(ran)) * Width = 0
    BY WidthFacts
  <2> QED BY <1>1, <1>2, <2>1
<1> DEFINE r == Len(ran) + 1
           line == Ipc!Before(buffer, newlineIndex)
<1>4. /\ line \in Seq(Char) /\ Len(line) = Pieces
      /\ \A k \in 1 .. Pieces : line[k] = buffer[k]
  <2>1. line = SubSeq(buffer, 1, Pieces)
    BY <1>1, <1>2 DEF Ipc!Before
  <2> HIDE DEF line, Char
  <2> QED BY <1>1, <1>2, <2>1
<1>5. \A k \in 1 .. Pieces : line[k] = <<r, k>> /\ line[k] # Ipc!Newline
  <2>1. \A k \in 1 .. Pieces : line[k] = Piece(r, k)
    BY <1>1, <1>2, <1>4 DEF LinesInv
  <2> HIDE DEF line
  <2>2. \A k \in 1 .. Pieces : Piece(r, k) = <<r, k>>
    BY <1>1 DEF Piece
  <2>3. \A k \in 1 .. Pieces : <<r, k>> # Ipc!Newline
    BY <1>1 DEF Ipc!Newline
  <2> QED BY <2>1, <2>2, <2>3
<1>6. line = Ipc!Text(r)
  <2> HIDE DEF line, r, Char
  <2>1. line = [k \in 1 .. Pieces |-> <<r, k>>]
    <3>1. DOMAIN line = 1 .. Pieces /\ line = [k \in DOMAIN line |-> line[k]]
      BY <1>4, LenProperties
    <3> QED BY <1>5, <3>1
  <2> QED BY <2>1 DEF Ipc!Text
<1>7. Ipc!Trim(line) = line
  <2> HIDE DEF line, r, Char
  <2> DEFINE kept == {i \in DOMAIN line : line[i] # Ipc!Newline}
  <2>1. kept = 1 .. Pieces
    BY <1>4, <1>5, LenProperties
  <2>2. Ipc!Min(kept) = 1 /\ Ipc!Max(kept) = Pieces /\ kept # {}
    <3> HIDE DEF kept
    <3>1. 1 \in kept /\ \A j \in kept : 1 <= j
      BY <1>1, <2>1
    <3>2. Pieces \in kept /\ \A j \in kept : Pieces >= j
      BY <1>1, <2>1
    <3>3. \A i \in kept : i \in Int
      BY <2>1
    <3>4. Ipc!Min(kept) = 1
      BY <3>1, <3>3 DEF Ipc!Min
    <3>5. Ipc!Max(kept) = Pieces
      BY <3>2, <3>3 DEF Ipc!Max
    <3> QED BY <3>1, <3>4, <3>5
  <2>3. SubSeq(line, 1, Pieces) = line
    BY <1>4
  <2> QED BY <2>2, <2>3 DEF Ipc!Trim
<1>8. Ipc!After(buffer, newlineIndex) = << >>
  <2> HIDE DEF Char
  <2> QED BY <1>1, <1>2 DEF Ipc!After
<1> QED BY <1>2, <1>3, <1>6, <1>7, <1>8

LEMMA TakesAgree == OneByOne!TakeLine <=> Ipc!TakeLine
<1>1. /\ OneByOne!Newline = Ipc!Newline /\ (OneByOne!Nobody <=> Ipc!Nobody)
      /\ \A s, i : OneByOne!Before(s, i) = Ipc!Before(s, i)
      /\ \A s, i : OneByOne!After(s, i) = Ipc!After(s, i)
  BY DEF OneByOne!Newline, Ipc!Newline, OneByOne!Nobody, Ipc!Nobody, OneByOne!Before,
    Ipc!Before,
     OneByOne!After, Ipc!After
<1>2. \A s : /\ OneByOne!Trim(s) = Ipc!Trim(s)
             /\ OneByOne!indexOfNewline(s) = Ipc!indexOfNewline(s)
  BY <1>1 DEF OneByOne!Trim, Ipc!Trim, OneByOne!Min, Ipc!Min, OneByOne!Max, Ipc!Max,
     OneByOne!indexOfNewline, Ipc!indexOfNewline, OneByOne!ToSet, Ipc!ToSet,
     OneByOne!SelectInSeq, Ipc!SelectInSeq
<1> QED BY <1>1, <1>2 DEF OneByOne!TakeLine, Ipc!TakeLine

\* The handler takes the line, of which there is no second one to look for.
LEMMA TakeKeeps ==
  ASSUME LinesInv, Ipc!TakeLine
  PROVE  LinesInv' /\ Len(ran') = Len(ran) + 1 /\ written' = written
<1> DEFINE text == Ipc!Text(Len(ran) + 1)
           h == [raw |-> text, newlineIndex |-> 0]
<1>1. newlineIndex # 0
  BY DEF Ipc!TakeLine, Ipc!Nobody
<1>2. /\ Len(buffer) = Width /\ newlineIndex = Width /\ Len(ran) < written
      /\ Ipc!Trim(Ipc!Before(buffer, newlineIndex)) = text
      /\ Ipc!After(buffer, newlineIndex) = << >>
  BY <1>1, LineIsTheText
<1>3. /\ written \in Nat /\ Len(wire) \in Nat /\ Len(ran) \in Nat
      /\ text \in Seq(Char) /\ Len(text) = Pieces /\ text # << >>
  <2>1. written \in Nat /\ Len(wire) \in Nat /\ Len(ran) \in Nat
    BY LenProperties DEF LinesInv
  <2>2. text \in Seq(Char) /\ Len(text) = Pieces /\ Pieces > 0
    BY <2>1, TextFacts, WidthFacts
  <2> HIDE DEF text
  <2> QED BY <2>1, <2>2
<1>4. Ipc!indexOfNewline(<< >>) = 0
  BY DEF Ipc!indexOfNewline, Ipc!ToSet
<1>5. /\ buffer' = << >> /\ ran' = Append(ran, text) /\ waiting' = waiting \cup {h}
      /\ newlineIndex' = 0 /\ UNCHANGED <<written, wire>>
  <2> HIDE DEF text
  <2> QED BY <1>2, <1>3, <1>4 DEF Ipc!TakeLine
<1>6. /\ ran' \in Seq(Seq(Char)) /\ Len(ran') = Len(ran) + 1
      /\ \A i \in 1 .. Len(ran') : ran'[i] = Ipc!Text(i)
  <2>1. ran \in Seq(Seq(Char)) /\ \A i \in 1 .. Len(ran) : ran[i] = Ipc!Text(i)
    BY DEF LinesInv
  <2>2. /\ ran' \in Seq(Seq(Char)) /\ Len(ran') = Len(ran) + 1
        /\ \A i \in 1 .. Len(ran) : ran'[i] = ran[i]
        /\ ran'[Len(ran) + 1] = text
    <3> DEFINE S == Seq(Char)
    <3>1. ran \in Seq(S) /\ text \in S
      BY <1>3, <2>1
    <3> HIDE DEF text, S
    <3>2. /\ Append(ran, text) \in Seq(S) /\ Len(Append(ran, text)) = Len(ran) + 1
          /\ \A i \in 1 .. Len(ran) : Append(ran, text)[i] = ran[i]
          /\ Append(ran, text)[Len(ran) + 1] = text
      BY <3>1, AppendProperties
    <3> QED BY <1>5, <3>2 DEF S
  <2>3. ASSUME NEW i \in 1 .. Len(ran') PROVE ran'[i] = Ipc!Text(i)
    <3>1. i \in 1 .. Len(ran) \/ i = Len(ran) + 1
      BY <1>3, <2>2
    <3> QED BY <2>1, <2>2, <3>1
  <2> QED BY <2>2, <2>3
<1>7. Len(buffer') = 0 /\ buffer' \in Seq(Char)
  BY <1>5
<1>8. Len(buffer') + Len(wire') = (written' - Len(ran')) * Width
  <2>1. written' - Len(ran') = (written - Len(ran)) - 1 /\ written - Len(ran) \in Int
    BY <1>3, <1>5, <1>6
  <2>2. ((written - Len(ran)) - 1) * Width = (written - Len(ran)) * Width - Width
        /\ (written - Len(ran)) * Width \in Int
    BY <2>1, WidthFacts
  <2>3. Width + Len(wire) = (written - Len(ran)) * Width
    BY <1>2 DEF LinesInv
  <2>4. ((written - Len(ran)) - 1) * Width = Len(wire)
    BY <1>3, <2>2, <2>3, WidthTypes
  <2>5. (written' - Len(ran')) * Width = Len(wire)
    BY <2>1, <2>4, Zenon
  <2> QED BY <1>3, <1>5, <1>7, <2>5
<1>9. ASSUME NEW r \in 1 .. written', NEW k \in 1 .. Width, NEW i \in 1 .. Len(wire'),
             i = (r - Len(ran') - 1) * Width + k - Len(buffer')
      PROVE  wire'[i] = Piece(r, k)
  <2>1. /\ r - Len(ran') - 1 = (r - Len(ran) - 1) - 1 /\ r - Len(ran) - 1 \in Int
        /\ r \in 1 .. written
    BY <1>3, <1>5, <1>6
  <2>2. ((r - Len(ran) - 1) - 1) * Width = (r - Len(ran) - 1) * Width - Width
        /\ (r - Len(ran) - 1) * Width \in Int
    BY <2>1, WidthFacts
  <2>3. (r - Len(ran') - 1) * Width = (r - Len(ran) - 1) * Width - Width
    BY <2>1, <2>2, Zenon
  <2>4. i = (r - Len(ran) - 1) * Width + k - Len(buffer)
    BY SMTT(30), <1>2, <1>7, <1>9, <2>2, <2>3, WidthTypes
  <2> QED BY <1>5, <2>1, <2>4 DEF LinesInv
<1>10. newlineIndex' = IF Len(buffer') = Width THEN Width ELSE 0
  BY <1>5, <1>7, WidthFacts
<1>11. \A g \in waiting' : g.newlineIndex = 0
  BY <1>5 DEF LinesInv
<1>12. written' \in Nat /\ newlineIndex' \in Nat /\ wire' \in Seq(Char)
       /\ Len(ran') <= written' /\ Len(buffer') <= Width
  BY <1>2, <1>3, <1>5, <1>6, <1>7, WidthTypes DEF LinesInv
<1> QED BY <1>5, <1>6, <1>7, <1>8, <1>9, <1>10, <1>11, <1>12 DEF LinesInv

LEMMA AnswerKeeps ==
  ASSUME LinesInv, NEW h \in waiting, Ipc!Answers(h) \/ OneByOne!Answers(h)
  PROVE  LinesInv'
<1>1. /\ newlineIndex = 0 /\ waiting' = waiting \ {h} /\ newlineIndex' = h.newlineIndex
      /\ UNCHANGED <<written, wire, buffer, ran>>
  BY DEF Ipc!Answers, OneByOne!Answers, Ipc!Nobody, OneByOne!Nobody
<1>2. newlineIndex' = newlineIndex
  BY <1>1 DEF LinesInv
<1> QED BY <1>1, <1>2 DEF LinesInv

USE DEF LineWorlds

\* A client that waits for its answers has one line under way.
WaitingInv == world = "apart" => written <= Len(ran) + 1

ChannelInv == world \in LineWorlds => LinesInv /\ WaitingInv

LEMMA ChannelInit == MCInit => ChannelInv
<1> SUFFICES ASSUME MCInit PROVE LinesInv /\ WaitingInv
  BY DEF ChannelInv
<1>1. LinesInv
  BY LinesInit DEF MCInit
<1>2. WaitingInv
  <2>1. written = 0 /\ Len(ran) = 0
    BY DEF MCInit, Ipc!Init
  <2>2. written <= Len(ran) + 1
    BY <2>1
  <2> QED BY <2>2 DEF WaitingInv
<1> QED BY <1>1, <1>2

LEMMA ChannelStep ==
  ASSUME ChannelInv, [MCNext]_<<allVars, channelVars, streamerVars, world>>
  PROVE  ChannelInv'
<1>1. CASE UNCHANGED <<channelVars, world>>
  BY <1>1 DEF ChannelInv, LinesInv, WaitingInv, channelVars
<1>2. CASE world = "lines" /\ world' = world /\ Ipc!Next
  <2>1. LinesInv /\ WaitingInv'
    BY <1>2 DEF ChannelInv, WaitingInv
  <2>2. LinesInv'
    BY <1>2, <2>1, SendKeeps, LineArrives, TakeKeeps, AnswerKeeps DEF Ipc!Next
  <2> QED BY <1>2, <2>1, <2>2 DEF ChannelInv
<1>3. CASE world = "apart" /\ world' = world /\ OneByOne!Next
  <2>1. LinesInv /\ written <= Len(ran) + 1
    BY <1>3 DEF ChannelInv, WaitingInv
  <2>2. LinesInv'
    BY <1>3, <2>1, SendKeeps, PartArrives, TakeKeeps, TakesAgree, AnswerKeeps
       DEF OneByOne!Next
  <2>3. CASE OneByOne!SendRequest
    <3>1. written' = written + 1 /\ ran' = ran /\ Len(ran) = written
      BY <2>3 DEF OneByOne!SendRequest
    <3>2. written \in Nat
      BY <2>1 DEF LinesInv
    <3>3. written' <= Len(ran') + 1
      BY <3>1, <3>2
    <3> QED BY <2>2, <3>3 DEF ChannelInv, WaitingInv
  <2>4. CASE OneByOne!TakeLine
    <3>1. written' = written /\ Len(ran') = Len(ran) + 1
      BY <2>1, <2>4, TakeKeeps, TakesAgree
    <3>2. written \in Nat /\ Len(ran) \in Nat
      BY <2>1, LenProperties DEF LinesInv
    <3>3. written' <= Len(ran') + 1
      BY <2>1, <3>1, <3>2
    <3> QED BY <2>2, <3>3 DEF ChannelInv, WaitingInv
  <2>5. CASE \/ \E n \in 1 .. Len(wire) : OneByOne!DataArrives(n)
             \/ \E h \in waiting : OneByOne!Answers(h)
    <3>1. written' = written /\ ran' = ran
      BY <2>5 DEF OneByOne!DataArrives, OneByOne!Answers
    <3> QED BY <2>1, <2>2, <3>1 DEF ChannelInv, WaitingInv
  <2> QED BY <1>3, <2>3, <2>4, <2>5 DEF OneByOne!Next
<1>4. CASE world \notin LineWorlds /\ world' = world
  BY <1>4 DEF ChannelInv
<1> QED BY <1>1, <1>2, <1>3, <1>4 DEF MCNext

\* However many requests of whatever length a client writes, a request runs once, whole
\* and in its turn, and none is left over: while each line comes by itself, or while the
\* client waits for its answers (handleRequest and the loop around it).
THEOREM RequestsRunOnce == MCSpec => []EachRunsOnceIfApart
<1>1. ChannelInv => EachRunsOnceIfApart
  <2> SUFFICES ASSUME LinesInv PROVE Ipc!EachRunsOnce
    BY DEF ChannelInv, EachRunsOnceIfApart
  <2>1. \A i \in DOMAIN ran : ran[i] = Ipc!Text(i)
    BY LenProperties DEF LinesInv
  <2>2. ASSUME wire = << >>, Ipc!Nobody PROVE Len(ran) = written
    <3>1. /\ written \in Nat /\ Len(buffer) \in Nat /\ Len(ran) \in Nat /\ Len(ran) <= written
          /\ Len(buffer) < Width /\ Len(buffer) = (written - Len(ran)) * Width
      <4>1. Len(wire) = 0 /\ written \in Nat /\ Len(buffer) \in Nat /\ Len(ran) \in Nat
        BY <2>2, LenProperties DEF LinesInv
      <4>2. Len(buffer) # Width
        BY <2>2, WidthFacts DEF LinesInv, Ipc!Nobody
      <4>3. Len(buffer) + Len(wire) = (written - Len(ran)) * Width
            /\ Len(buffer) <= Width /\ Len(ran) <= written
        BY DEF LinesInv
      <4> QED BY <4>1, <4>2, <4>3, WidthTypes
    <3> SUFFICES ASSUME written - Len(ran) > 0 PROVE FALSE
      BY <3>1
    <3>2. (written - Len(ran)) * Width >= Width
      BY <3>1, WidthFacts
    <3> QED BY <3>1, <3>2, WidthTypes
  <2> QED BY <2>1, <2>2 DEF Ipc!EachRunsOnce
<1> QED BY <1>1, ChannelInit, ChannelStep, PTL DEF MCSpec

-----------------------------------------------------------------------------
(* The shutdown. *)

\* Between the listing and the cancelling, what is live is listed or came later;
\* OnlyExcusedOrdersRemain alone says nothing about that moment.
OrdersAccounted ==
  /\ down = "cancelling" => live \subseteq sweep \cup late
  /\ OnlyExcusedOrdersRemain

USE DEF OrdersAccounted, OnlyExcusedOrdersRemain

-----------------------------------------------------------------------------
(* The steps that touch orders or the shutdown's progress. *)

LEMMA AccountedInit == ShutdownInit => OrdersAccounted
BY DEF ShutdownInit

LEMMA PlacingKeeps ==
  ASSUME OrdersAccounted, NEW o \in OrderIds, CyclePlacesOrder(o)
  PROVE  OrdersAccounted'
<1>1. /\ live' = live \cup {o} /\ down' = down /\ sweep' = sweep
      /\ uncancelled' = uncancelled
      /\ late' = IF down \in {"cancelling", "closing"} THEN late \cup {o} ELSE late
  BY DEF CyclePlacesOrder
<1>2. CASE down \in {"cancelling", "closing"}
  BY <1>1, <1>2
<1>3. CASE down \notin {"cancelling", "closing"}
  BY <1>1, <1>3
<1> QED BY <1>2, <1>3

LEMMA LeavingKeeps ==
  ASSUME OrdersAccounted, NEW o \in OrderIds, OrderLeavesBook(o)
  PROVE  OrdersAccounted'
BY DEF OrderLeavesBook, exitVars

LEMMA SignalKeeps ==
  ASSUME OrdersAccounted, Signal \/ IpcServerExits \/ ConnectionChanges
  PROVE  OrdersAccounted'
<1>1. CASE Signal
  BY <1>1 DEF Signal
<1>2. CASE IpcServerExits
  BY <1>2 DEF IpcServerExits
<1>3. CASE ConnectionChanges
  BY <1>3 DEF ConnectionChanges, orderVars
<1> QED BY <1>1, <1>2, <1>3

\* The sweep: what was listed is cancelled or kept with its excuse.
LEMMA ShutdownKeeps ==
  ASSUME OrdersAccounted, Shutdown
  PROVE  OrdersAccounted'
<1>1. CASE ListLiveOrders
  BY <1>1 DEF ListLiveOrders, orderVars
<1>2. CASE SweepFails
  BY <1>2 DEF SweepFails, orderVars
<1>3. CASE CancelListed
  <2>1. PICK kept \in SUBSET sweep :
          live' = live \ (sweep \ kept) /\ uncancelled' = kept
    BY <1>3 DEF CancelListed
  <2>2. down = "cancelling" /\ down' = "closing" /\ late' = late
    BY <1>3 DEF CancelListed
  <2>3. live' \subseteq kept \cup late
    BY <2>1, <2>2
  <2> QED BY <2>1, <2>2, <2>3
<1>4. CASE CloseAndExit
  BY <1>4 DEF CloseAndExit
<1> QED BY <1>1, <1>2, <1>3, <1>4 DEF Shutdown

LEMMA AccountedStep == OrdersAccounted /\ [ShutdownNext]_allVars => OrdersAccounted'
<1> SUFFICES ASSUME OrdersAccounted, [ShutdownNext]_allVars PROVE OrdersAccounted'
  OBVIOUS
<1>1. CASE UNCHANGED allVars
  BY <1>1 DEF allVars, exitVars, orderVars
<1>2. CASE SchedulerStep
  BY <1>2 DEF SchedulerStep, exitVars, orderVars
<1>3. CASE \E o \in OrderIds : CyclePlacesOrder(o) \/ OrderLeavesBook(o)
  BY <1>3, PlacingKeeps, LeavingKeeps
<1>4. CASE Signal \/ IpcServerExits \/ ConnectionChanges
  BY <1>4, SignalKeeps
<1>5. CASE Shutdown
  BY <1>5, ShutdownKeeps
<1> QED BY <1>1, <1>2, <1>3, <1>4, <1>5 DEF ShutdownNext

-----------------------------------------------------------------------------

\* However the scheduler, its cycles, the signal's two handlers and the sweep
\* interleave: an order that is live when gracefulShutdown gets to its end is
\* one whose cancellation failed or one placed behind the sweep's back.
THEOREM RemainingOrdersAreExcused == ShutdownSpec => []OnlyExcusedOrdersRemain
<1>1. OrdersAccounted => OnlyExcusedOrdersRemain
  OBVIOUS
<1> QED
  BY AccountedInit, AccountedStep, <1>1, PTL DEF ShutdownSpec

-----------------------------------------------------------------------------
(* The quote streamer, for any number of clients, rounds and attempts, with callers,  *)
(* signals and failing files allowed.  MemoryTypeOK leaves out what is counted in     *)
(* time, on which nothing here depends.                                               *)

RecoveryInv == Streamer!MemoryTypeOK /\ Streamer!OneSession /\ Streamer!OneRecovery

USE StreamerAssumptions DEF Streamer!StreamerAssumption

-----------------------------------------------------------------------------
(* The session. *)

\* Closing leaves no session, if there was at most one.
LEMMA CloseLeavesNone ==
  ASSUME Streamer!MemoryTypeOK, Streamer!OneSession, Streamer!closeQuoteStreamerSession
  PROVE  /\ active' = NoClient
         /\ link' = [c \in Clients |-> "closed"]
BY DEF Streamer!closeQuoteStreamerSession, Streamer!MemoryTypeOK, Streamer!OneSession

\* Joining or opening, with no session active, leaves one open in flight.
LEMMA OpensOnce ==
  ASSUME Streamer!MemoryTypeOK, Streamer!OneSession, Streamer!joinOrOpen
  PROVE  connectPromise' = TRUE /\ opening' = 1
BY DEF Streamer!joinOrOpen, Streamer!MemoryTypeOK, Streamer!OneSession

\* scheduleQuoteStreamerExitRestart ends with the exit scheduled.
LEMMA Scheduled ==
  ASSUME Streamer!MemoryTypeOK, Streamer!scheduleExit
  PROVE  restartScheduled' = TRUE
BY DEF Streamer!scheduleExit, Streamer!MemoryTypeOK

LEMMA OpenInFlight ==
  ASSUME Streamer!MemoryTypeOK, Streamer!OneSession, opening > 0
  PROVE  opening = 1 /\ connectPromise /\ active = NoClient
BY DEF Streamer!OneSession, Streamer!MemoryTypeOK

LEMMA SessionInit == Streamer!Init => Streamer!OneSession
BY DEF Streamer!Init, Streamer!OneSession

\* An open that failed leaves no open in flight; what its round closed was none.
LEMMA OpenFailsLeavesNone ==
  ASSUME Streamer!MemoryTypeOK, Streamer!OneSession, Streamer!OpenFails
  PROVE  /\ opening' = 0 /\ connectPromise' = FALSE /\ active' = NoClient
         /\ \A c \in Clients : link'[c] = "closed"
<1>1. opening = 1 /\ active = NoClient
  BY OpenInFlight DEF Streamer!OpenFails
<1>2. opening' = 0 /\ connectPromise' = FALSE
  <2>1. opening' = opening - 1 /\ connectPromise' = FALSE
    BY DEF Streamer!OpenFails
  <2> QED BY <1>1, <2>1
<1>3. active' = NoClient /\ \A c \in Clients : link'[c] = "closed"
  <2>1. CASE UNCHANGED <<active, link>>
    BY <1>1, <2>1 DEF Streamer!OneSession, Streamer!MemoryTypeOK
  <2>2. CASE Streamer!closeQuoteStreamerSession
    BY <2>2, CloseLeavesNone
  <2> QED BY <2>1, <2>2 DEF Streamer!OpenFails
<1> QED BY <1>2, <1>3

LEMMA SessionStep ==
  Streamer!MemoryTypeOK /\ Streamer!OneSession /\ [Streamer!Next]_(Streamer!vars)
  => Streamer!OneSession'
<1> SUFFICES ASSUME Streamer!MemoryTypeOK, Streamer!OneSession, [Streamer!Next]_(Streamer!vars)
             PROVE  Streamer!OneSession'
  OBVIOUS
<1>1. CASE Streamer!RequestQuotes
  <2>1. connectPromise' = TRUE /\ opening' = 1
    BY <1>1, OpensOnce DEF Streamer!RequestQuotes
  <2> QED BY <1>1, <2>1 DEF Streamer!RequestQuotes, Streamer!OneSession, Streamer!MemoryTypeOK
<1>2. CASE Streamer!OpenSucceeds
  <2>1. opening = 1 /\ active = NoClient
    BY <1>2, OpenInFlight DEF Streamer!OpenSucceeds
  <2>2. opening' = 0 /\ connectPromise' = FALSE
    <3>1. opening' = opening - 1 /\ connectPromise' = FALSE
      BY <1>2 DEF Streamer!OpenSucceeds
    <3> QED BY <2>1, <3>1
  <2>3. \A c \in Clients : link'[c] # "closed" => c = active'
    BY <1>2, <2>1 DEF Streamer!OpenSucceeds, Streamer!OneSession, Streamer!MemoryTypeOK
  <2> QED BY <2>2, <2>3 DEF Streamer!OneSession
<1>3. CASE Streamer!OpenFails
  BY <1>3, OpenFailsLeavesNone DEF Streamer!OneSession
<1>4. CASE Streamer!ServerAnswers
  BY <1>4 DEF Streamer!ServerAnswers, Streamer!OneSession, Streamer!MemoryTypeOK
<1>5. CASE Streamer!ZeroEvents \/ Streamer!FatalMessage
  BY <1>5 DEF Streamer!ZeroEvents, Streamer!FatalMessage, Streamer!OneSession, Streamer!session
<1>6. ASSUME NEW r \in Rounds, Streamer!WakeUp(r)
      PROVE  Streamer!OneSession'
  <2>1. connectPromise' = TRUE /\ opening' = 1
    BY <1>6, OpensOnce DEF Streamer!WakeUp
  <2>2. active' = NoClient /\ link' = [c \in Clients |-> "closed"]
    BY <1>6, CloseLeavesNone DEF Streamer!WakeUp
  <2> QED BY <2>1, <2>2 DEF Streamer!OneSession
<1>7. ASSUME NEW r \in Rounds, Streamer!Authorized(r)
      PROVE  Streamer!OneSession'
  BY <1>7 DEF Streamer!Authorized, Streamer!OneSession, Streamer!session
<1>8. ASSUME NEW r \in Rounds, Streamer!NotAuthorized(r)
      PROVE  Streamer!OneSession'
  <2>1. active' = NoClient /\ link' = [c \in Clients |-> "closed"]
    BY <1>8, CloseLeavesNone DEF Streamer!NotAuthorized
  <2> QED BY <1>8, <2>1 DEF Streamer!NotAuthorized, Streamer!OneSession
<1>9. CASE Streamer!BeginExit \/ Streamer!BeginShutdown
  <2>1. active' = NoClient /\ link' = [c \in Clients |-> "closed"]
    BY <1>9, CloseLeavesNone DEF Streamer!BeginExit, Streamer!BeginShutdown
  <2> QED BY <1>9, <2>1 DEF Streamer!BeginExit, Streamer!BeginShutdown, Streamer!OneSession
<1>10. ASSUME NEW why \in {"restart", "signal"}, Streamer!Exit(why)
       PROVE  Streamer!OneSession'
  BY <1>10 DEF Streamer!Exit, Streamer!OneSession, Streamer!session
<1>11. CASE Streamer!Restart
  BY <1>11 DEF Streamer!Restart, Streamer!OneSession
<1>12. CASE Streamer!Tick \/ UNCHANGED Streamer!vars
  BY <1>12 DEF Streamer!Tick, Streamer!vars, Streamer!session, Streamer!OneSession
<1> QED
  BY <1>1, <1>2, <1>3, <1>4, <1>5, <1>6, <1>7, <1>8, <1>9, <1>10, <1>11, <1>12 DEF Streamer!Next

-----------------------------------------------------------------------------
(* Types. *)

LEMMA IdleTyped == Streamer!IdleRound \in Streamer!RoundStates
BY DEF Streamer!IdleRound, Streamer!RoundStates

LEMMA MemoryInit == Streamer!Init => Streamer!MemoryTypeOK
<1> SUFFICES ASSUME Streamer!Init PROVE Streamer!MemoryTypeOK
  OBVIOUS
<1>1. opening \in Nat
  BY DEF Streamer!Init
<1>2. round \in [Rounds -> Streamer!RoundStates]
  BY IdleTyped DEF Streamer!Init
<1> QED BY <1>1, <1>2, Zenon DEF Streamer!Init, Streamer!MemoryTypeOK

LEMMA CloseTyped ==
  ASSUME Streamer!MemoryTypeOK, Streamer!closeQuoteStreamerSession
  PROVE  /\ active' \in Clients \cup {NoClient}
         /\ link' \in [Clients -> {"closed", "connecting", "authorized", "refused"}]
BY DEF Streamer!closeQuoteStreamerSession, Streamer!MemoryTypeOK

LEMMA TriggerTyped ==
  ASSUME Streamer!MemoryTypeOK, Streamer!triggerQuoteStreamerRestart
  PROVE  /\ reconnectRoundInProgress' \in BOOLEAN /\ restartScheduled' \in BOOLEAN
         /\ round' \in [Rounds -> Streamer!RoundStates]
<1>1. CASE MaxAttempts > 0 /\ Len(Streamer!WithinWindow(recentRoundsAt)) < MaxRounds
  <2>1. [at |-> "sleeping", attempt |-> 1, client |-> NoClient] \in Streamer!RoundStates
    BY <1>1 DEF Streamer!RoundStates
  <2>2. round' \in [Rounds -> Streamer!RoundStates]
    BY <1>1, <2>1 DEF Streamer!triggerQuoteStreamerRestart, Streamer!MemoryTypeOK
  <2> QED BY <1>1, <2>2 DEF Streamer!triggerQuoteStreamerRestart, Streamer!MemoryTypeOK
<1>2. CASE ~(MaxAttempts > 0 /\ Len(Streamer!WithinWindow(recentRoundsAt)) < MaxRounds)
  <2>1. Streamer!scheduleExit /\ UNCHANGED <<round, reconnectRoundInProgress>>
    BY <1>2 DEF Streamer!triggerQuoteStreamerRestart
  <2> QED BY <2>1, Scheduled DEF Streamer!MemoryTypeOK
<1> QED BY <1>1, <1>2

LEMMA FailTyped ==
  ASSUME Streamer!MemoryTypeOK, NEW failed \in SUBSET Rounds, Streamer!AttemptsFail(failed)
  PROVE  /\ reconnectRoundInProgress' \in BOOLEAN /\ restartScheduled' \in BOOLEAN
         /\ round' \in [Rounds -> Streamer!RoundStates]
<1> DEFINE over == {r \in failed : round[r].attempt = MaxAttempts}
<1>1. \A r \in failed \ over : round[r].attempt + 1 \in 0..MaxAttempts
  BY DEF Streamer!MemoryTypeOK, Streamer!RoundStates
<1>2. round' \in [Rounds -> Streamer!RoundStates]
  BY <1>1, IdleTyped DEF Streamer!AttemptsFail, Streamer!MemoryTypeOK, Streamer!RoundStates
<1>3. reconnectRoundInProgress' \in BOOLEAN /\ restartScheduled' \in BOOLEAN
  <2>1. CASE over = {}
    BY <2>1 DEF Streamer!AttemptsFail, Streamer!MemoryTypeOK
  <2>2. CASE over # {}
    BY <2>2, Scheduled DEF Streamer!AttemptsFail, Streamer!MemoryTypeOK
  <2> QED BY <2>1, <2>2
<1> QED BY <1>2, <1>3

LEMMA MemoryStep ==
  Streamer!MemoryTypeOK /\ Streamer!OneSession /\ [Streamer!Next]_(Streamer!vars)
  => Streamer!MemoryTypeOK'
<1> SUFFICES ASSUME Streamer!MemoryTypeOK, Streamer!OneSession, [Streamer!Next]_(Streamer!vars)
             PROVE  Streamer!MemoryTypeOK'
  OBVIOUS
<1>1. CASE Streamer!RequestQuotes
  <2>1. connectPromise' = TRUE /\ opening' \in Nat
    BY <1>1, OpensOnce DEF Streamer!RequestQuotes
  <2> QED BY <1>1, <2>1 DEF Streamer!RequestQuotes, Streamer!recovery, Streamer!MemoryTypeOK
<1>2. CASE Streamer!OpenSucceeds
  <2>1. opening = 1
    BY <1>2, OpenInFlight DEF Streamer!OpenSucceeds
  <2>2. PICK c \in Clients :
          /\ link' = [link EXCEPT ![c] = "connecting"]
          /\ active' = c
          /\ round' = [r \in Rounds |->
               IF round[r].at = "opening"
               THEN [at |-> "authorizing", attempt |-> round[r].attempt,
               client |-> c] ELSE round[r]]
    BY <1>2 DEF Streamer!OpenSucceeds
  <2>3. round' \in [Rounds -> Streamer!RoundStates]
    <3>1. ASSUME NEW r \in Rounds
          PROVE  [at |-> "authorizing", attempt |-> round[r].attempt,
                 client |-> c] \in Streamer!RoundStates
      <4>1. round[r] \in Streamer!RoundStates
        BY DEF Streamer!MemoryTypeOK
      <4> QED  BY <4>1, <2>2 DEF Streamer!RoundStates
    <3>2. \A r \in Rounds : round[r] \in Streamer!RoundStates
      BY DEF Streamer!MemoryTypeOK
    <3> QED  BY <2>2, <3>1, <3>2
  <2>4. link' \in [Clients -> {"closed", "connecting", "authorized", "refused"}]
    BY <2>2 DEF Streamer!MemoryTypeOK
  <2>5. opening' \in Nat
    <3>1. opening' = opening - 1
      BY <1>2 DEF Streamer!OpenSucceeds
    <3> QED BY <2>1, <3>1
  <2> QED BY <1>2, <2>2, <2>3, <2>4, <2>5 DEF Streamer!OpenSucceeds, Streamer!MemoryTypeOK
<1>3. CASE Streamer!OpenFails
  <2>1. opening' \in Nat /\ connectPromise' \in BOOLEAN
    BY <1>3, OpenFailsLeavesNone
  <2>2. /\ active' \in Clients \cup {NoClient}
        /\ link' \in [Clients -> {"closed", "connecting", "authorized", "refused"}]
    BY <1>3, CloseTyped DEF Streamer!OpenFails, Streamer!MemoryTypeOK
  <2>3. /\ reconnectRoundInProgress' \in BOOLEAN /\ restartScheduled' \in BOOLEAN
        /\ round' \in [Rounds -> Streamer!RoundStates]
    BY <1>3, FailTyped DEF Streamer!OpenFails
  <2> QED BY <1>3, <2>1, <2>2, <2>3 DEF Streamer!OpenFails, Streamer!MemoryTypeOK
<1>4. CASE Streamer!ServerAnswers
  BY <1>4 DEF Streamer!ServerAnswers, Streamer!recovery, Streamer!MemoryTypeOK
<1>5. CASE Streamer!ZeroEvents \/ Streamer!FatalMessage
  BY <1>5, TriggerTyped DEF Streamer!ZeroEvents, Streamer!FatalMessage, Streamer!session,
    Streamer!MemoryTypeOK
<1>6. ASSUME NEW r \in Rounds, Streamer!WakeUp(r)
      PROVE  Streamer!MemoryTypeOK'
  <2>1. /\ active' \in Clients \cup {NoClient}
        /\ link' \in [Clients -> {"closed", "connecting", "authorized", "refused"}]
    BY <1>6, CloseTyped DEF Streamer!WakeUp
  <2>2. connectPromise' = TRUE /\ opening' = 1
    BY <1>6, OpensOnce DEF Streamer!WakeUp
  <2>3. round' \in [Rounds -> Streamer!RoundStates]
    BY <1>6 DEF Streamer!WakeUp, Streamer!MemoryTypeOK, Streamer!RoundStates
  <2> QED BY <1>6, <2>1, <2>2, <2>3 DEF Streamer!WakeUp, Streamer!MemoryTypeOK
<1>7. ASSUME NEW r \in Rounds, Streamer!Authorized(r)
      PROVE  Streamer!MemoryTypeOK'
  BY <1>7, IdleTyped DEF Streamer!Authorized, Streamer!session, Streamer!MemoryTypeOK
<1>8. ASSUME NEW r \in Rounds, Streamer!NotAuthorized(r)
      PROVE  Streamer!MemoryTypeOK'
  <2>1. /\ active' \in Clients \cup {NoClient}
        /\ link' \in [Clients -> {"closed", "connecting", "authorized", "refused"}]
    BY <1>8, CloseTyped DEF Streamer!NotAuthorized
  <2>2. /\ reconnectRoundInProgress' \in BOOLEAN /\ restartScheduled' \in BOOLEAN
        /\ round' \in [Rounds -> Streamer!RoundStates]
    BY <1>8, FailTyped DEF Streamer!NotAuthorized
  <2> QED BY <1>8, <2>1, <2>2 DEF Streamer!NotAuthorized, Streamer!MemoryTypeOK
<1>9. CASE Streamer!BeginExit \/ Streamer!BeginShutdown
  <2>1. /\ active' \in Clients \cup {NoClient}
        /\ link' \in [Clients -> {"closed", "connecting", "authorized", "refused"}]
    BY <1>9, CloseTyped DEF Streamer!BeginExit, Streamer!BeginShutdown
  <2> QED BY <1>9, <2>1 DEF Streamer!BeginExit, Streamer!BeginShutdown, Streamer!recovery,
    Streamer!MemoryTypeOK
<1>10. ASSUME NEW why \in {"restart", "signal"}, Streamer!Exit(why)
       PROVE  Streamer!MemoryTypeOK'
  BY <1>10 DEF Streamer!Exit, Streamer!session, Streamer!recovery, Streamer!MemoryTypeOK
<1>11. CASE Streamer!Restart
  <2>1. opening' \in Nat
    BY <1>11 DEF Streamer!Restart
  <2>2. round' \in [Rounds -> Streamer!RoundStates]
    BY <1>11, IdleTyped DEF Streamer!Restart
  <2> QED BY <1>11, <2>1, <2>2, Zenon DEF Streamer!Restart, Streamer!MemoryTypeOK
<1>12. CASE Streamer!Tick \/ UNCHANGED Streamer!vars
  BY <1>12 DEF Streamer!Tick, Streamer!vars, Streamer!session, Streamer!recovery,
    Streamer!MemoryTypeOK
<1> QED
  BY <1>1, <1>2, <1>3, <1>4, <1>5, <1>6, <1>7, <1>8, <1>9, <1>10, <1>11, <1>12 DEF Streamer!Next

-----------------------------------------------------------------------------
(* The recovery. *)

LEMMA RecoveryInit == Streamer!Init => Streamer!OneRecovery
BY DEF Streamer!Init, Streamer!OneRecovery, Streamer!IdleRound

LEMMA FailRecovers ==
  ASSUME Streamer!MemoryTypeOK, Streamer!OneRecovery, NEW failed \in SUBSET Rounds,
         Streamer!AttemptsFail(failed),
         \A r \in failed : round[r].at # "idle"
  PROVE  Streamer!OneRecovery'
<1> DEFINE over == {r \in failed : round[r].attempt = MaxAttempts}
<1>1. \A r \in Rounds :
        round'[r].at = IF r \in over THEN "idle"
                       ELSE IF r \in failed THEN "sleeping" ELSE round[r].at
  BY DEF Streamer!AttemptsFail, Streamer!IdleRound, Streamer!MemoryTypeOK, Streamer!RoundStates
<1>2. CASE over = {}
  <2>1. UNCHANGED <<reconnectRoundInProgress, restartScheduled>>
    BY <1>2 DEF Streamer!AttemptsFail
  <2> QED BY <1>1, <1>2, <2>1 DEF Streamer!OneRecovery
<1>3. CASE over # {}
  <2>1. reconnectRoundInProgress' = FALSE
    BY <1>3 DEF Streamer!AttemptsFail
  <2>2. \A r \in Rounds : round'[r].at = "idle"
    BY <1>1, <1>3 DEF Streamer!OneRecovery
  <2> QED BY <2>1, <2>2 DEF Streamer!OneRecovery
<1> QED BY <1>2, <1>3

LEMMA TriggerRecovers ==
  ASSUME Streamer!MemoryTypeOK, Streamer!OneRecovery, Streamer!triggerQuoteStreamerRestart
  PROVE  Streamer!OneRecovery'
<1>1. \A r \in Rounds : round[r].at = "idle"
  BY DEF Streamer!triggerQuoteStreamerRestart, Streamer!OneRecovery
<1>2. CASE MaxAttempts > 0 /\ Len(Streamer!WithinWindow(recentRoundsAt)) < MaxRounds
  <2>1. PICK r \in Rounds : round' = [round EXCEPT ![r] =
                       [at |-> "sleeping", attempt |-> 1, client |-> NoClient]]
    BY <1>2 DEF Streamer!triggerQuoteStreamerRestart
  <2>2. reconnectRoundInProgress' = TRUE /\ restartScheduled' = FALSE
    BY <1>2 DEF Streamer!triggerQuoteStreamerRestart, Streamer!MemoryTypeOK
  <2> QED BY <1>1, <2>1, <2>2 DEF Streamer!OneRecovery, Streamer!MemoryTypeOK
<1>3. CASE ~(MaxAttempts > 0 /\ Len(Streamer!WithinWindow(recentRoundsAt)) < MaxRounds)
  <2>1. UNCHANGED <<round, reconnectRoundInProgress>> /\ ~reconnectRoundInProgress
    BY <1>3 DEF Streamer!triggerQuoteStreamerRestart
  <2> QED BY <1>1, <2>1 DEF Streamer!OneRecovery
<1> QED BY <1>2, <1>3

LEMMA RecoveryStep ==
  Streamer!MemoryTypeOK /\ Streamer!OneRecovery /\ [Streamer!Next]_(Streamer!vars)
  => Streamer!OneRecovery'
<1> SUFFICES ASSUME Streamer!MemoryTypeOK, Streamer!OneRecovery, [Streamer!Next]_(Streamer!vars)
             PROVE  Streamer!OneRecovery'
  OBVIOUS
<1>1. CASE Streamer!OpenSucceeds
  <2>1. PICK c \in Clients : round' = [r \in Rounds |->
               IF round[r].at = "opening"
               THEN [at |-> "authorizing", attempt |-> round[r].attempt,
               client |-> c] ELSE round[r]]
    BY <1>1 DEF Streamer!OpenSucceeds
  <2>2. \A r \in Rounds : round'[r].at = "idle" <=> round[r].at = "idle"
    BY <2>1 DEF Streamer!MemoryTypeOK, Streamer!RoundStates
  <2> QED BY <1>1, <2>2 DEF Streamer!OpenSucceeds, Streamer!OneRecovery
<1>2. CASE Streamer!OpenFails
  BY <1>2, FailRecovers DEF Streamer!OpenFails
<1>3. CASE Streamer!ZeroEvents \/ Streamer!FatalMessage
  BY <1>3, TriggerRecovers DEF Streamer!ZeroEvents, Streamer!FatalMessage
<1>4. ASSUME NEW r \in Rounds, Streamer!WakeUp(r)
      PROVE  Streamer!OneRecovery'
  <2>1. \A t \in Rounds : round'[t].at = "idle" <=> round[t].at = "idle"
    BY <1>4 DEF Streamer!WakeUp, Streamer!MemoryTypeOK, Streamer!RoundStates
  <2> QED BY <1>4, <2>1 DEF Streamer!WakeUp, Streamer!OneRecovery
<1>5. ASSUME NEW r \in Rounds, Streamer!Authorized(r)
      PROVE  Streamer!OneRecovery'
  <2>1. \A t \in Rounds : round'[t].at = "idle"
    BY <1>5 DEF Streamer!Authorized, Streamer!OneRecovery, Streamer!MemoryTypeOK,
      Streamer!RoundStates, Streamer!IdleRound
  <2> QED BY <1>5, <2>1 DEF Streamer!Authorized, Streamer!OneRecovery
<1>6. ASSUME NEW r \in Rounds, Streamer!NotAuthorized(r)
      PROVE  Streamer!OneRecovery'
  BY <1>6, FailRecovers DEF Streamer!NotAuthorized
<1>7. CASE Streamer!Restart
  BY <1>7 DEF Streamer!Restart, Streamer!OneRecovery, Streamer!IdleRound
<1>8. CASE Streamer!RequestQuotes \/ Streamer!ServerAnswers \/ Streamer!BeginShutdown
           \/ Streamer!BeginExit \/ Streamer!Tick
  BY <1>8 DEF Streamer!RequestQuotes, Streamer!ServerAnswers, Streamer!BeginShutdown,
    Streamer!BeginExit, Streamer!Tick, Streamer!recovery,
     Streamer!OneRecovery
<1>9. CASE (\E why \in {"restart", "signal"} : Streamer!Exit(why)) \/ UNCHANGED Streamer!vars
  BY <1>9 DEF Streamer!Exit, Streamer!vars, Streamer!recovery, Streamer!OneRecovery
<1> QED BY <1>1, <1>2, <1>3, <1>4, <1>5, <1>6, <1>7, <1>8, <1>9 DEF Streamer!Next

-----------------------------------------------------------------------------
(* What a round that ends leaves. *)

\* A round that waits for authorization waits for a client.
AuthorizesClient ==
  \A r \in Rounds : round[r].at = "authorizing" => round[r].client \in Clients

LEMMA AuthorizesStep ==
  Streamer!MemoryTypeOK /\ AuthorizesClient /\ [Streamer!Next]_(Streamer!vars)
  => AuthorizesClient'
<1> SUFFICES ASSUME Streamer!MemoryTypeOK, AuthorizesClient, [Streamer!Next]_(Streamer!vars)
             PROVE  AuthorizesClient'
  OBVIOUS
<1>1. CASE Streamer!OpenSucceeds
  <2>1. PICK c \in Clients : round' = [r \in Rounds |->
               IF round[r].at = "opening"
               THEN [at |-> "authorizing", attempt |-> round[r].attempt,
               client |-> c] ELSE round[r]]
    BY <1>1 DEF Streamer!OpenSucceeds
  <2> QED BY <2>1 DEF AuthorizesClient, Streamer!MemoryTypeOK, Streamer!RoundStates
<1>2. ASSUME NEW failed \in SUBSET Rounds, Streamer!AttemptsFail(failed)
      PROVE  AuthorizesClient'
  BY <1>2 DEF Streamer!AttemptsFail, AuthorizesClient, Streamer!IdleRound
<1>3. CASE Streamer!ZeroEvents \/ Streamer!FatalMessage
  <2>1. Streamer!triggerQuoteStreamerRestart
    BY <1>3 DEF Streamer!ZeroEvents, Streamer!FatalMessage
  <2>2. CASE MaxAttempts > 0 /\ Len(Streamer!WithinWindow(recentRoundsAt)) < MaxRounds
    BY <2>1, <2>2 DEF Streamer!triggerQuoteStreamerRestart, AuthorizesClient,
      Streamer!MemoryTypeOK
  <2>3. CASE ~(MaxAttempts > 0 /\ Len(Streamer!WithinWindow(recentRoundsAt)) < MaxRounds)
    BY <2>1, <2>3 DEF Streamer!triggerQuoteStreamerRestart, AuthorizesClient
  <2> QED BY <2>2, <2>3
<1>4. ASSUME NEW r \in Rounds, Streamer!WakeUp(r) \/ Streamer!Authorized(r)
      PROVE  AuthorizesClient'
  BY <1>4 DEF Streamer!WakeUp, Streamer!Authorized, AuthorizesClient, Streamer!IdleRound,
    Streamer!MemoryTypeOK, Streamer!RoundStates
<1>5. ASSUME NEW r \in Rounds, Streamer!NotAuthorized(r)
      PROVE  AuthorizesClient'
  BY <1>2, <1>5 DEF Streamer!NotAuthorized
<1>6. CASE Streamer!OpenFails
  BY <1>2, <1>6 DEF Streamer!OpenFails
<1>7. CASE Streamer!Restart
  BY <1>7 DEF Streamer!Restart, AuthorizesClient, Streamer!IdleRound
<1>8. CASE Streamer!RequestQuotes \/ Streamer!ServerAnswers \/ Streamer!BeginShutdown
           \/ Streamer!BeginExit \/ Streamer!Tick
  BY <1>8 DEF Streamer!RequestQuotes, Streamer!ServerAnswers, Streamer!BeginShutdown,
    Streamer!BeginExit, Streamer!Tick, Streamer!recovery,
     AuthorizesClient
<1>9. CASE (\E why \in {"restart", "signal"} : Streamer!Exit(why)) \/ UNCHANGED Streamer!vars
  BY <1>9 DEF Streamer!Exit, Streamer!vars, Streamer!recovery, AuthorizesClient
<1> QED BY <1>1, <1>3, <1>4, <1>5, <1>6, <1>7, <1>8, <1>9 DEF Streamer!Next

\* A round looks at the client of the last open, which is the active one.
LEMMA RoundEnds ==
  ASSUME RecoveryInv, AuthorizesClient, Streamer!Next, up', ~restartScheduled',
         NEW r \in Rounds, up, round[r].at # "idle", round'[r].at = "idle"
  PROVE  active # NoClient /\ link[active] = "authorized"
<1>1. ASSUME NEW t \in Rounds, Streamer!Authorized(t)
      PROVE  active # NoClient /\ link[active] = "authorized"
  <2>1. round[t].client \in Clients /\ link[round[t].client] = "authorized"
    BY <1>1 DEF Streamer!Authorized, AuthorizesClient
  <2> QED BY <2>1 DEF RecoveryInv, Streamer!OneSession
<1>2. ASSUME NEW failed \in SUBSET Rounds, Streamer!AttemptsFail(failed)
      PROVE  FALSE
  <2>1. CASE {t \in failed : round[t].attempt = MaxAttempts} = {}
    <3>1. round'[r].at \in {"sleeping", round[r].at}
      BY <1>2, <2>1 DEF Streamer!AttemptsFail
    <3> QED BY <3>1
  <2>2. CASE {t \in failed : round[t].attempt = MaxAttempts} # {}
    <3>1. Streamer!scheduleExit
      BY <1>2, <2>2 DEF Streamer!AttemptsFail
    <3> QED BY <3>1, Scheduled DEF RecoveryInv
  <2> QED BY <2>1, <2>2
<1>3. ASSUME Streamer!triggerQuoteStreamerRestart PROVE FALSE
  BY <1>3 DEF Streamer!triggerQuoteStreamerRestart, RecoveryInv, Streamer!OneRecovery
<1>4. ~Streamer!OpenSucceeds
  <2> SUFFICES ASSUME Streamer!OpenSucceeds PROVE FALSE
    OBVIOUS
  <2>1. PICK c \in Clients : round' = [t \in Rounds |->
               IF round[t].at = "opening"
               THEN [at |-> "authorizing", attempt |-> round[t].attempt,
               client |-> c] ELSE round[t]]
    BY DEF Streamer!OpenSucceeds
  <2> QED BY <2>1 DEF RecoveryInv, Streamer!MemoryTypeOK, Streamer!RoundStates
<1>5. ~Streamer!OpenFails
  BY <1>2 DEF Streamer!OpenFails
<1>6. ASSUME NEW t \in Rounds PROVE ~Streamer!NotAuthorized(t)
  BY <1>2 DEF Streamer!NotAuthorized
<1>7. ASSUME NEW t \in Rounds PROVE ~Streamer!WakeUp(t)
  BY DEF Streamer!WakeUp, RecoveryInv, Streamer!MemoryTypeOK, Streamer!RoundStates
<1>8. ~Streamer!ZeroEvents /\ ~Streamer!FatalMessage
  BY <1>3 DEF Streamer!ZeroEvents, Streamer!FatalMessage
<1>9. ~(Streamer!RequestQuotes \/ Streamer!ServerAnswers \/ Streamer!BeginExit
      \/ Streamer!BeginShutdown \/ Streamer!Tick \/ Streamer!Restart)
  BY DEF Streamer!RequestQuotes, Streamer!ServerAnswers, Streamer!BeginExit,
    Streamer!BeginShutdown, Streamer!Tick, Streamer!Restart, Streamer!recovery
<1>10. ASSUME NEW why PROVE ~Streamer!Exit(why)
  BY DEF Streamer!Exit
<1> QED BY <1>1, <1>4, <1>5, <1>6, <1>7, <1>8, <1>9, <1>10 DEF Streamer!Next

-----------------------------------------------------------------------------
(* The exit of a process that nobody asks for quotes and no signal stops. *)

\* An open is a round's, an exit has been scheduled before it begins, and once it has
\* begun there is no session, nor anybody left to open one.
ExitInv ==
  /\ connectPromise => \E r \in Rounds : round[r].at = "opening"
  /\ exitTimer # NotSet \/ flushing # {} => restartScheduled
  /\ flushing # {} => active = NoClient

\* Without a round there is no open either.
LEMMA NobodyOpens ==
  ASSUME RecoveryInv, ExitInv, \A r \in Rounds : round[r].at # "opening"
  PROVE  ~connectPromise /\ opening = 0
BY DEF RecoveryInv, ExitInv, Streamer!OneSession, Streamer!MemoryTypeOK

LEMMA RoundsAtRest ==
  ASSUME RecoveryInv, restartScheduled
  PROVE  \A r \in Rounds : round[r].at = "idle"
BY DEF RecoveryInv, Streamer!OneRecovery

LEMMA ScheduleKeeps ==
  ASSUME Streamer!MemoryTypeOK, Streamer!scheduleExit
  PROVE  restartScheduled' /\ (flushing # {} => restartScheduled')
BY Scheduled

\* A round has no company.
LEMMA OnlyRound ==
  ASSUME RecoveryInv, NEW r \in Rounds, round[r].at \notin {"idle", "opening"}
  PROVE  \A t \in Rounds : round[t].at # "opening"
BY DEF RecoveryInv, Streamer!OneRecovery

\* Failed attempts leave the exit scheduled, or the timer as it was.
LEMMA FailSchedules ==
  ASSUME Streamer!MemoryTypeOK, NEW failed \in SUBSET Rounds, Streamer!AttemptsFail(failed)
  PROVE  restartScheduled' \/ UNCHANGED <<restartScheduled, exitTimer>>
<1>1. CASE {t \in failed : round[t].attempt = MaxAttempts} = {}
  BY <1>1 DEF Streamer!AttemptsFail
<1>2. CASE {t \in failed : round[t].attempt = MaxAttempts} # {}
  BY <1>2, Scheduled DEF Streamer!AttemptsFail
<1> QED BY <1>1, <1>2

LEMMA ExitStep ==
  ASSUME ~Callers, ~Signals, RecoveryInv, ExitInv, [Streamer!Next]_(Streamer!vars)
  PROVE  ExitInv'
<1>1. ~Streamer!RequestQuotes /\ ~Streamer!ZeroEvents /\ ~Streamer!BeginShutdown
  BY DEF Streamer!RequestQuotes, Streamer!ZeroEvents, Streamer!BeginShutdown
<1>2. CASE Streamer!OpenSucceeds
  <2>1. \E r \in Rounds : round[r].at = "opening"
    BY <1>2, OpenInFlight DEF Streamer!OpenSucceeds, RecoveryInv, ExitInv
  <2>2. ~restartScheduled
    BY <2>1, RoundsAtRest
  <2> QED BY <1>2, <2>2 DEF Streamer!OpenSucceeds, ExitInv
<1>3. CASE Streamer!OpenFails
  <2>1. connectPromise' = FALSE /\ active' = NoClient
    BY <1>3, OpenFailsLeavesNone DEF RecoveryInv
  <2>2. restartScheduled' \/ UNCHANGED <<restartScheduled, exitTimer>>
    BY <1>3, FailSchedules DEF Streamer!OpenFails, RecoveryInv
  <2> QED BY <1>3, <2>1, <2>2 DEF Streamer!OpenFails, ExitInv
<1>4. CASE Streamer!ServerAnswers
  BY <1>4 DEF Streamer!ServerAnswers, Streamer!recovery, ExitInv
<1>5. CASE Streamer!FatalMessage
  <2>1. Streamer!triggerQuoteStreamerRestart /\ UNCHANGED <<active, opening, connectPromise,
        flushing>>
    BY <1>5 DEF Streamer!FatalMessage, Streamer!session
  <2>2. \A r \in Rounds : round[r].at = "idle"
    BY <2>1 DEF Streamer!triggerQuoteStreamerRestart, RecoveryInv, Streamer!OneRecovery
  <2>3. ~connectPromise /\ ~restartScheduled
    BY <2>1, <2>2, NobodyOpens DEF Streamer!triggerQuoteStreamerRestart
  <2>4. flushing = {} /\ exitTimer = NotSet
    BY <2>3 DEF ExitInv
  <2>5. UNCHANGED exitTimer \/ restartScheduled'
    <3>1. CASE MaxAttempts > 0 /\ Len(Streamer!WithinWindow(recentRoundsAt)) < MaxRounds
      BY <2>1, <3>1 DEF Streamer!triggerQuoteStreamerRestart
    <3>2. CASE ~(MaxAttempts > 0 /\ Len(Streamer!WithinWindow(recentRoundsAt)) < MaxRounds)
      BY <2>1, <3>2, Scheduled DEF Streamer!triggerQuoteStreamerRestart, RecoveryInv
    <3> QED BY <3>1, <3>2
  <2> QED BY <2>1, <2>3, <2>4, <2>5 DEF ExitInv
<1>6. ASSUME NEW r \in Rounds, Streamer!WakeUp(r)
      PROVE  ExitInv'
  <2>1. round'[r].at = "opening"
    BY <1>6 DEF Streamer!WakeUp, RecoveryInv, Streamer!MemoryTypeOK, Streamer!RoundStates
  <2>2. ~restartScheduled
    BY <1>6, RoundsAtRest DEF Streamer!WakeUp
  <2> QED BY <1>6, <2>1, <2>2 DEF Streamer!WakeUp, ExitInv
<1>7. ASSUME NEW r \in Rounds, Streamer!Authorized(r)
      PROVE  ExitInv'
  <2>1. ~connectPromise /\ ~restartScheduled
    BY <1>7, OnlyRound, NobodyOpens, RoundsAtRest DEF Streamer!Authorized
  <2> QED BY <1>7, <2>1 DEF Streamer!Authorized, Streamer!session, ExitInv
<1>8. ASSUME NEW r \in Rounds, Streamer!NotAuthorized(r)
      PROVE  ExitInv'
  <2>1. ~connectPromise /\ ~restartScheduled
    BY <1>8, OnlyRound, NobodyOpens, RoundsAtRest DEF Streamer!NotAuthorized
  <2>2. restartScheduled' \/ UNCHANGED <<restartScheduled, exitTimer>>
    BY <1>8, FailSchedules DEF Streamer!NotAuthorized, RecoveryInv
  <2> QED BY <1>8, <2>1, <2>2 DEF Streamer!NotAuthorized, ExitInv
<1>9. CASE Streamer!BeginExit
  <2>1. restartScheduled
    BY <1>9 DEF Streamer!BeginExit, ExitInv
  <2>2. active' = NoClient
    BY <1>9, CloseLeavesNone DEF Streamer!BeginExit, RecoveryInv
  <2> QED BY <1>9, <2>1, <2>2 DEF Streamer!BeginExit, ExitInv
<1>10. ASSUME NEW why \in {"restart", "signal"}, Streamer!Exit(why)
       PROVE  ExitInv'
  BY <1>10 DEF Streamer!Exit, Streamer!session, Streamer!recovery, ExitInv
<1>11. CASE Streamer!Restart
  BY <1>11 DEF Streamer!Restart, ExitInv
<1>12. CASE Streamer!Tick
  BY <1>12 DEF Streamer!Tick, Streamer!session, ExitInv
<1>13. CASE UNCHANGED Streamer!vars
  BY <1>13 DEF Streamer!vars, Streamer!session, Streamer!recovery, ExitInv
<1> QED
  BY <1>1, <1>2, <1>3, <1>4, <1>5, <1>6, <1>7, <1>8, <1>9, <1>10, <1>11, <1>12, <1>13
  DEF Streamer!Next

\* A process ends only after its exit has begun.
LEMMA EndsWithoutSession ==
  ASSUME RecoveryInv, ExitInv, Streamer!Next, up, ~up'
  PROVE  \A c \in Clients : link[c] = "closed"
<1>1. PICK why \in {"restart", "signal"} : Streamer!Exit(why)
  BY DEF Streamer!Next, Streamer!RequestQuotes, Streamer!OpenSucceeds, Streamer!OpenFails,
    Streamer!ServerAnswers, Streamer!ZeroEvents,
     Streamer!FatalMessage, Streamer!WakeUp, Streamer!Authorized, Streamer!NotAuthorized,
     Streamer!BeginExit, Streamer!BeginShutdown, Streamer!Restart, Streamer!Tick
<1>2. active = NoClient
  BY <1>1 DEF Streamer!Exit, ExitInv
<1> QED BY <1>2 DEF RecoveryInv, Streamer!OneSession

-----------------------------------------------------------------------------
(* The theorems. *)

LEMMA RecoveryInductive == Streamer!Spec => []RecoveryInv
<1>1. Streamer!Init => RecoveryInv
  BY MemoryInit, SessionInit, RecoveryInit DEF RecoveryInv
<1>2. RecoveryInv /\ [Streamer!Next]_(Streamer!vars) => RecoveryInv'
  BY MemoryStep, SessionStep, RecoveryStep DEF RecoveryInv
<1> QED BY <1>1, <1>2, PTL DEF Streamer!Spec

\* Whatever callers, rounds, exits and the server do, the process has at most one
\* session with the server, and at most one open of one in flight.
THEOREM SessionsNeverPileUp == Streamer!Spec => []OneSession
<1>1. RecoveryInv => OneSession
  BY DEF RecoveryInv, OneSession
<1> QED BY <1>1, RecoveryInductive, PTL

\* A round of reconnects and a scheduled exit exclude each other, rounds exclude
\* each other, and the flag that excludes them is never left up.
THEOREM RecoveriesExclude == Streamer!Spec => []Streamer!OneRecovery
<1>1. RecoveryInv => Streamer!OneRecovery
  BY DEF RecoveryInv
<1> QED BY <1>1, RecoveryInductive, PTL

\* A round that reports success leaves an active, authorized session: no caller,
\* failing open or scheduled exit takes it away while the round waits.
THEOREM RoundsEndWithASession == Streamer!Spec => Streamer!SuccessIsAuthorized
<1>1. Streamer!Init => AuthorizesClient
  BY DEF Streamer!Init, AuthorizesClient, Streamer!IdleRound
<1>2. RecoveryInv /\ AuthorizesClient /\ [Streamer!Next]_(Streamer!vars) => AuthorizesClient'
  BY AuthorizesStep DEF RecoveryInv
<1>3. RecoveryInv /\ AuthorizesClient /\ [Streamer!Next]_(Streamer!vars) =>
        [\A r \in Rounds :
           /\ up /\ round[r].at # "idle" /\ round'[r].at = "idle"
           /\ up' /\ ~restartScheduled'
           => active # NoClient /\ link[active] = "authorized"]_(Streamer!vars)
  BY RoundEnds
<1> QED BY <1>1, <1>2, <1>3, RecoveryInductive, PTL
  DEF Streamer!Spec, Streamer!SuccessIsAuthorized

\* A process that nobody asks for quotes and nobody signals leaves no session with the
\* server when it exits for a restart: the exit closes what there is, and no round is
\* left that could open another (the timer of scheduleQuoteStreamerExitRestart).
THEOREM ExitsLeaveNoSession ==
  ASSUME ~Callers, ~Signals
  PROVE  MCSpec => ExitLeavesNoSessionAlone
<1> DEFINE Inv == world = "alone" => RecoveryInv /\ ExitInv
           all == <<allVars, channelVars, streamerVars, world>>
<1>1. MCInit => Inv
  BY MemoryInit, SessionInit, RecoveryInit DEF MCInit, Streamer!Init, RecoveryInv, ExitInv
<1>2. Inv /\ [MCNext]_all => Inv'
  <2> SUFFICES ASSUME Inv, [MCNext]_all, world' = "alone"
               PROVE  (RecoveryInv /\ ExitInv)'
    OBVIOUS
  <2>1. world = "alone" /\ [Streamer!Next]_(Streamer!vars)
    BY DEF MCNext, streamerVars, Streamer!vars, Streamer!session, Streamer!recovery
  <2>2. RecoveryInv'
    BY <2>1, MemoryStep, SessionStep, RecoveryStep DEF RecoveryInv
  <2> QED BY <2>1, <2>2, ExitStep
<1>3. Inv /\ [MCNext]_all =>
        [world = "alone" /\ up /\ ~up' => \A c \in Clients : link[c] = "closed"]_streamerVars
  BY EndsWithoutSession DEF MCNext
<1> QED BY <1>1, <1>2, <1>3, PTL DEF MCSpec, ExitLeavesNoSessionAlone
=============================================================================
