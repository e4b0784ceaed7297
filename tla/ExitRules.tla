----------------------------- MODULE ExitRules -----------------------------
(***************************************************************************)
(* What happens to one position group over a day: each cycle evaluates it  *)
(* (bot/evaluate-position.ts, strategy/evaluate-trading-strategy.ts), may  *)
(* override the answer (run-cycle.ts, execute-position-evaluations.ts),    *)
(* and acts on it minutes later, when closePosition asks the strategy      *)
(* again, leg by leg.                                                      *)
(*                                                                         *)
(* Quotes are returns on the fill price in percent, so that -100 is a      *)
(* price of zero; a group's metrics are sums over its contracts.  The      *)
(* legs' fill prices are equal, and the thresholds are the defaults.       *)
(* StopPersistence has the streak's store, CloseChase what an order does   *)
(* that is sent here.                                                      *)
(***************************************************************************)
EXTENDS Integers, FiniteSetsExt

CONSTANTS
  Positions,      \* the groups that may be held, each with the stretch of the day
                  \* and the quotes that are looked at:
                  \*   accountType      accountMarginOrCash
                  \*   legs, lots       contracts 1..legs, held of each at the start
                  \*   scalesOut        STRATEGY_PARTIAL_SCALE_OUT_ENABLED
                  \*   expiresToday     a leg has no days left
                  \*   isOvernight      isOvernightPosition
                  \*   quotes           what a leg may be quoted: [bid, ask], in percent
                  \*   minutes          bound
  Interval,       \* minutes between cycles, and the step of the clock
  CycleMinutes    \* bound: how long a cycle may take

PersistCycles == 2          \* STRATEGY_STOP_LOSS_PERSIST_CYCLES
IntradayFloor == 30    \* getIntradayStopLossFloor, and so on, in percent
MidConfirmFloor == 20
BypassFloor == 45
EodFloor == 10
MidMargin == 5
CooldownMinutes == 10
OPEN == 390
EOD_ARMED_MINUTE == 770
EOD_FORCED_CLOSE_MINUTE == 775
zeroDteArmedMinute == 720

VARIABLES
  position,    \* which of Positions the behaviour is about
  clock,       \* minute of the day
  lastAction,  \* minute of the position's latest updated-at, or the latest minute
               \* that is no longer within the cooldown
  held,        \* contracts of each leg
  scaled,      \* the scale-out store has the group
  streak,      \* consecutive cycles that saw the stop's trigger hold
  cycle,       \* the run cycle's locals
  under        \* history: cycles in a row that saw the stop's condition and did
               \* not close, since a fill last touched the position

vars == <<position, clock, lastAction, held, scaled, streak, cycle, under>>

IsCash == position.accountType = "cash"
Legs == 1 .. position.legs

getNoBuyCutoffMinute == IF IsCash THEN 780 ELSE 750

-----------------------------------------------------------------------------
(* The strategy: a decision is its reason. *)

Closes == {"eod", "runner-target", "ratchet", "take-profit", "stop", "eod-stop",
           "zero-dte", "overnight"}
UrgentReasons == {"eod", "ratchet", "stop", "eod-stop", "zero-dte"}      \* isUrgentClose
SuppressesAdds == {"riding", "mid-confirm", "persistence"}
StopTriggerHeld == {"stop", "persistence"}
Reasons == Closes \cup SuppressesAdds \cup {"cooldown", "proceed"}

\* calcTimeBlend, rounded to whole percents as roundToTwoDecimals does.
calcTimeBlend(minute, from, to, first, last) ==
  LET past == Max({0, Min({minute - first, last - first})})
  IN  (2 * (from * (last - first) - (from - to) * past) + (last - first))
        \div (2 * (last - first))

getDynamicTakeProfitTarget(minute) == calcTimeBlend(minute, 40, 7, OPEN, 775)

\* m: the sums of bids and asks of m.n contracts.
hasArguableQuote(m) == m.bid > -100 * m.n /\ m.ask >= m.bid
MidIsAtMost(m, pct) == hasArguableQuote(m) /\ m.bid + m.ask <= 2 * pct * m.n
MidReaches(m, pct) == hasArguableQuote(m) /\ m.bid + m.ask >= 2 * pct * m.n

evaluateScaledRunner(m, minute) ==
  CASE 2 * m.bid >= 3 * getDynamicTakeProfitTarget(minute) * m.n -> "runner-target"
    [] m.bid <= 0 -> "ratchet"
    [] OTHER -> "riding"

\* Mutant: the bid need not be at breakeven.
TakeProfitOnAnyBid(m, minute) ==
  \/ m.bid >= getDynamicTakeProfitTarget(minute) * m.n
  \/ MidReaches(m, getDynamicTakeProfitTarget(minute) + MidMargin)

\* resolveTakeProfit is not null.
TakeProfit(m, minute) ==
  \/ m.bid >= getDynamicTakeProfitTarget(minute) * m.n
  \/ /\ MidReaches(m, getDynamicTakeProfitTarget(minute) + MidMargin)
     /\ m.bid >= 0

\* An argued midpoint above its floor.
MidConfirmDefers(m) == hasArguableQuote(m) /\ m.bid + m.ask > -2 * MidConfirmFloor * m.n

\* Mutant: off by one.
PersistsOneLonger(m, observed) ==
  /\ observed # 0
  /\ ~(m.bid <= -BypassFloor * m.n /\ MidIsAtMost(m, -BypassFloor))
  /\ observed < PersistCycles + 1

\* observed 0: no persistence context, the gate is inert.
resolveStopPersistence(m, observed) ==
  /\ observed # 0
  /\ ~(m.bid <= -BypassFloor * m.n /\ MidIsAtMost(m, -BypassFloor))
  /\ observed < PersistCycles

resolveIntradayStop(m, observed) ==
  CASE MidConfirmDefers(m) -> "mid-confirm"
    [] ~MidConfirmDefers(m) /\ resolveStopPersistence(m, observed) -> "persistence"
    [] OTHER -> "stop"

UnderIntradayFloor(m, minute) ==
  minute < getNoBuyCutoffMinute /\ m.bid <= -IntradayFloor * m.n

evaluateTradingStrategy(m, minute, acted, runner, observed) ==
  IF minute >= EOD_ARMED_MINUTE /\ ~IsCash THEN "eod"
  ELSE IF runner THEN evaluateScaledRunner(m, minute)
  ELSE IF TakeProfit(m, minute) THEN "take-profit"
  ELSE IF minute - acted < CooldownMinutes THEN "cooldown"
  ELSE IF UnderIntradayFloor(m, minute) THEN resolveIntradayStop(m, observed)
  ELSE IF minute >= getNoBuyCutoffMinute /\ m.bid <= -EodFloor * m.n THEN "eod-stop"
  ELSE "proceed"

-----------------------------------------------------------------------------
(* The cycle's locals: the evaluation is a snapshot, kept to the end. *)

LegsHeld(h) == {l \in Legs : h[l] > 0}
SumOver(S, f) == MapThenSumSet(LAMBDA l : f[l], S)

buildAggregateMetrics(quote, h) ==
  [bid |-> SumOver(Legs, [l \in Legs |-> h[l] * quote[l].bid]),
   ask |-> SumOver(Legs, [l \in Legs |-> h[l] * quote[l].ask]),
   n |-> SumOver(Legs, h)]

Group(c) == buildAggregateMetrics(c.quote, c.seen)
OneLeg(c, l) == [bid |-> c.quote[l].bid, ask |-> c.quote[l].ask, n |-> 1]

NoQuote == [bid |-> 0, ask |-> 0]
NotYet == -1
Idle == [pc |-> "idle", at |-> NotYet, reason |-> "proceed", adds |-> FALSE,
         acted |-> 0, runner |-> FALSE, quote |-> [l \in Legs |-> NoQuote],
         seen |-> [l \in Legs |-> 0], left |-> 0, leg |-> 1, sent |-> {}]

At(step) == cycle.pc = step

\* getScaleOutConfig and isScaled: scale-out is for the cash account.
ScaleOutEnabled == position.scalesOut /\ IsCash

\* withOvernightCloseOverrides on margin; on cash the zero-DTE breaker.
Overridden(reason, minute) ==
  CASE ~IsCash /\ position.isOvernight /\ reason \notin Closes -> "overnight"
    [] /\ IsCash /\ position.expiresToday /\ minute >= zeroDteArmedMinute
       /\ reason \notin Closes -> "zero-dte"
    [] OTHER -> reason

\* computeScaleOutMaxQuantity of the default half, or the whole group.
IsPartial(c) == c.reason = "take-profit" /\ ScaleOutEnabled /\ Group(c).n >= 2
MaxQuantity(c) == IF IsPartial(c) THEN Max({1, Group(c).n \div 2}) ELSE Group(c).n

-----------------------------------------------------------------------------
(* evaluatePositionGroup and the overrides. *)

Evaluate ==
  /\ At("idle") /\ LegsHeld(held) # {} /\ clock > cycle.at
  /\ \E quote \in [Legs -> position.quotes] :
       LET m == buildAggregateMetrics(quote, held)
           runner == ScaleOutEnabled /\ scaled
           reason == evaluateTradingStrategy(m, clock, lastAction, runner, streak + 1)
           c == [Idle EXCEPT !.pc = "gate", !.at = clock, !.acted = lastAction,
                   !.runner = runner, !.quote = quote, !.seen = held,
                   !.reason = Overridden(reason, clock),
                   !.adds = /\ IsCash \/ ~position.isOvernight
                            /\ reason \notin Closes \cup SuppressesAdds]
       IN  /\ cycle' = [c EXCEPT !.left = MaxQuantity(c)]
           /\ streak' = IF reason \in StopTriggerHeld THEN Min({PersistCycles, streak + 1})
                        ELSE 0
           /\ under' = IF /\ UnderIntradayFloor(m, clock) /\ ~MidConfirmDefers(m)
                          /\ reason \notin Closes /\ ~runner
                       THEN under + 1 ELSE 0
  /\ UNCHANGED <<clock, lastAction, held, scaled>>

-----------------------------------------------------------------------------
(* closePosition, up to the order. *)

MorningThreshold(minute) ==
  CASE minute < 405 -> 5 [] minute \in 405 .. 419 -> 10 [] minute \in 420 .. 434 -> 15
    [] minute \in 435 .. 449 -> 20 [] minute \in 450 .. 479 -> 25 [] OTHER -> 30

\* getSpreadPct above a threshold; without both prices the spread is infinite.
SpreadExceeds(m, pct) ==
  \/ m.bid <= -100 * m.n \/ m.ask <= -100 * m.n
  \/ 200 * (m.ask - m.bid) > pct * (200 * m.n + m.bid + m.ask)

shouldSkipClosePositionForMorningSpread(c) ==
  /\ c.at < EOD_ARMED_MINUTE /\ c.reason \notin UrgentReasons
  /\ Group(c).bid < getDynamicTakeProfitTarget(c.at) * Group(c).n
  /\ SpreadExceeds(Group(c), MorningThreshold(c.at))

\* The gate is for the group; what is not a close, or is skipped, has no legs.
Gate ==
  /\ At("gate")
  /\ cycle' = [cycle EXCEPT !.pc =
       IF cycle.reason \in Closes /\ ~shouldSkipClosePositionForMorningSpread(cycle)
       THEN "legs" ELSE "manage"]
  /\ UNCHANGED <<clock, lastAction, held, scaled, streak, under>>

\* Mutant: the re-check counts cycles anew.
RecoveredUnlessPersistent(c, l, minute) ==
  /\ c.at < EOD_FORCED_CLOSE_MINUTE
  /\ evaluateTradingStrategy(OneLeg(c, l), minute, c.acted, c.runner, 1) \notin Closes

\* The strategy asked again about one leg: the snapshot's prices, the clock's time.
hasStrategyRecoveredAtExecution(c, l, minute) ==
  /\ c.at < EOD_FORCED_CLOSE_MINUTE
  /\ evaluateTradingStrategy(OneLeg(c, l), minute, c.acted, c.runner, 0) \notin Closes

HasMidpoint(q) == q.bid > -100 \/ q.ask > -100

Skipped(c, l, minute) ==
  \/ c.seen[l] = 0 \/ ~HasMidpoint(c.quote[l])
  \/ hasStrategyRecoveredAtExecution(c, l, minute)

LegsDone(c) == c.leg > position.legs \/ c.left = 0

\* One leg: skipped, or sent for as much as is left to close.  The order fills,
\* or rests for the next cycle's sweep.
SellLeg ==
  LET l == cycle.leg
      quantity == Min({cycle.seen[l], cycle.left})
  IN  /\ At("legs") /\ ~LegsDone(cycle)
      /\ \/ /\ Skipped(cycle, l, clock)
            /\ cycle' = [cycle EXCEPT !.leg = l + 1]
            /\ UNCHANGED <<held, lastAction, under>>
         \/ /\ ~Skipped(cycle, l, clock)
            /\ cycle' = [cycle EXCEPT !.leg = l + 1, !.left = @ - quantity,
                                      !.sent = @ \cup {l}]
            /\ \/ /\ held' = [held EXCEPT ![l] = @ - quantity]
                  /\ lastAction' = clock /\ under' = 0
               \/ UNCHANGED <<held, lastAction, under>>
      /\ UNCHANGED <<clock, scaled, streak>>

\* The scale-out store after the closes.
RecordScaled ==
  /\ At("legs") /\ LegsDone(cycle)
  /\ scaled' = IF cycle.sent = {} THEN scaled ELSE IsPartial(cycle)
  /\ cycle' = [cycle EXCEPT !.pc = "manage"]
  /\ UNCHANGED <<clock, lastAction, held, streak, under>>

\* Buying targets are zero from the cutoff on: getTimeOfDayExecutionTargets.
targetAccountExposure(minute) ==
  IF minute >= getNoBuyCutoffMinute THEN 0
  ELSE IF ~IsCash
       THEN CASE minute < 540 -> calcTimeBlend(minute, 60, 80, OPEN, 540)
              [] OTHER -> calcTimeBlend(minute, 80, 100, 540, 630)
       ELSE CASE minute < 540 -> calcTimeBlend(minute, 55, 70, OPEN, 540)
              [] minute \in 540 .. 599 -> calcTimeBlend(minute, 70, 80, 540, 600)
              [] minute \in 600 .. 659 -> calcTimeBlend(minute, 80, 90, 600, 660)
              [] OTHER -> calcTimeBlend(minute, 90, 100, 660, 765)

\* manageAllocationForGroup, as far as it touches the group: a buy may fill.
Manage ==
  /\ At("manage")
  /\ cycle' = [Idle EXCEPT !.at = cycle.at]
  /\ \/ /\ cycle.adds /\ targetAccountExposure(cycle.at) > 0
        /\ LegsHeld(held) # {}
        /\ lastAction' = clock /\ under' = 0
     \/ UNCHANGED <<lastAction, under>>
  /\ UNCHANGED <<clock, held, scaled, streak>>

TimePasses ==
  /\ clock + Interval \in position.minutes
  /\ At("idle") \/ clock + Interval - cycle.at <= CycleMinutes
  /\ clock' = clock + Interval
  /\ lastAction' = Max({lastAction, clock' - CooldownMinutes})
  /\ UNCHANGED <<held, scaled, streak, cycle, under>>

DayEnds == At("idle") /\ clock + Interval \notin position.minutes /\ UNCHANGED vars

-----------------------------------------------------------------------------

Init ==
  /\ position \in Positions
  /\ clock \in position.minutes
  /\ lastAction \in {clock - CooldownMinutes, clock}
  /\ held = [l \in Legs |-> position.lots]
  /\ scaled = FALSE /\ streak = 0 /\ under = 0
  /\ cycle = Idle

Next ==
  /\ \/ Evaluate \/ Gate \/ SellLeg \/ RecordScaled \/ Manage
     \/ TimePasses \/ DayEnds
  /\ UNCHANGED position

Spec == Init /\ [][Next]_vars

-----------------------------------------------------------------------------
(* Properties. *)

TypeOK ==
  /\ position \in Positions /\ clock \in position.minutes /\ lastAction \in Int
  /\ held \in [Legs -> 0 .. position.lots]
  /\ scaled \in BOOLEAN /\ streak \in 0 .. PersistCycles /\ under \in Nat
  /\ cycle.pc \in {"idle", "gate", "legs", "manage"}
  /\ cycle.reason \in Reasons /\ cycle.sent \subseteq Legs

\* "a close classified `take-profit` must never be able to book a loss": the
\* bid is what a chased order gets at worst, and with several legs the re-check
\* drops some of those the group's profit was made of.
ProfitBooksNoLoss ==
  At("manage") /\ cycle.reason \in {"take-profit", "runner-target"} /\ ~IsPartial(cycle)
    => SumOver(cycle.sent, [l \in Legs |-> cycle.seen[l] * cycle.quote[l].bid]) >= 0

\* A risk close decided by the strategy is carried out whatever time has passed:
\* the second asking, in a later window and without the streak, agrees.
RiskCloseIsCarriedOut ==
  At("manage") /\ cycle.reason \in {"stop", "eod", "eod-stop", "ratchet"}
    => \A l \in Legs : cycle.seen[l] > 0 /\ HasMidpoint(cycle.quote[l])
                         => l \in cycle.sent

\* A slide is cut short: cooldown and persistence, each of which resets or
\* postpones the other, hold a confirmed stop back for so many cycles and no
\* more, unless a fill renews the position.
CoolingCycles == (CooldownMinutes + Interval - 1) \div Interval
SlideIsCutShort == under <= CoolingCycles + PersistCycles - 1

\* "so the strategy cannot suppress it once armed": the breaker for expiring
\* options closes the group in every cycle that runs it.
ZeroDteIsClosed ==
  At("manage") /\ cycle.reason = "zero-dte"
    => \A l \in Legs : cycle.seen[l] > 0 /\ HasMidpoint(cycle.quote[l])
                         => l \in cycle.sent

=============================================================================
