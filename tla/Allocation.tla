----------------------------- MODULE Allocation -----------------------------
(***************************************************************************)
(* The buying half of a cycle (bot/actions/manage-allocation.ts and the    *)
(* last loop of bot/execute-position-evaluations.ts): the selected groups  *)
(* are served one after the other from one budget.  For each group the     *)
(* gates are passed or the group is skipped; the capital it may use is     *)
(* split over three routes, trimmed to the contract cap and bought route   *)
(* by route with a limit order that is chased from its start price to its  *)
(* ceiling, while the broker fills orders between any two awaits.          *)
(*                                                                         *)
(* Prices are in cents, so that the price is also the cost of a contract   *)
(* in dollars; capital is in whole dollars, shares of it in percent.  A    *)
(* quote's midpoint and the steps of its spread are whole cents.  Time is in *)
(* seconds.                                                                *)
(***************************************************************************)
EXTENDS Integers

CONSTANTS
  Account,        \* "margin", "cash" or "unknown"
  Groups,         \* how many groups were selected for allocation
  Inputs,         \* the evaluations a group may arrive with, see GroupInput
  TotalCapital, BuyingPower, Exposure,   \* buildInitialBudget
  BuyPct,         \* getMaxBuyExposurePctForAccountType
  BuyMultiple,    \* getMaxAllocationBuyPositionMultiple
  MaxContracts,   \* STRATEGY_MAX_UNDERLYING_CONTRACTS
  MaxNotional,    \* getMaxUnderlyingNotional, at present without a bound
  MinEntryDTE,    \* STRATEGY_MIN_ENTRY_DTE
  MaxRounds,      \* the bound of the greedy loop, 100 in the code
  MidTicks, AskTicks,   \* MID_ROUTE_MAX_TICKS and MAX_TICK_UPS
  MidWait, AskWait,     \* TICK_UP_INTERVAL_MS and ASK_ROUTE_TICK_INTERVAL_MS
  RunInterval, Cutoff,  \* getRunIntervalMs and getNoBuyCutoffMinute
  Evaluated,      \* when the cycle evaluated its groups
  CloseTime,      \* how long the closes before the allocation may take
  LateFills,      \* a fill may land after the last poll of a rung
  AnswersLackId   \* the answer to an order may name no order

Route == {"bid", "mid", "ask"}

Quote == [bid : Nat, ask : Nat]

\* What manageAllocationForGroup reads of a group and of the answers it awaits.
GroupInput ==
  [targets : BOOLEAN, openable : BOOLEAN,
   exposure : Nat, maxExposure : Nat, boost : Nat, surplus : Nat,
   weight : [Route -> Nat],
   held : Nat, value : Nat, average : Nat, ageGive : Nat, heldDTE : Nat,
   heldQuote : Quote, heldLiquid : BOOLEAN,
   healthy : BOOLEAN, chain : BOOLEAN, ivGate : BOOLEAN,
   itmEligible : BOOLEAN, itm : BOOLEAN, dte : Nat, quote : Quote,
   holdsCandidate : BOOLEAN]

ASSUME AllocationAssumption ==
  /\ Account \in {"margin", "cash", "unknown"}
  /\ Inputs \subseteq GroupInput
  /\ {Groups, TotalCapital, BuyingPower, Exposure, BuyPct, BuyMultiple,
      MaxContracts, MaxNotional, MinEntryDTE, MaxRounds, MidTicks, AskTicks,
      MidWait, AskWait, RunInterval, Cutoff, Evaluated, CloseTime} \subseteq Nat
  /\ AskTicks > 0
  /\ LateFills \in BOOLEAN /\ AnswersLackId \in BOOLEAN

VARIABLES
  pc,
  left,             \* groups not yet served
  buying, exposed,  \* the budget: buyingPowerRemaining, portfolioExposure
  in,               \* the group being served
  onHeld,           \* usedHeldContractFallback
  avail,            \* availableCapital
  quote,            \* bid and ask of the candidate
  qty,              \* quantity of each route order
  rounds,           \* iterationCount
  route, price, ticks,   \* the chase: the route, currentPrice, tickCount
  live, filled,     \* the chased order at the broker
  taken,            \* contracts of this group bought, or working and buyable
  now               \* the clock

budget == <<left, buying, exposed>>
group == <<in, onHeld, avail, quote>>
sizing == <<qty, rounds>>
order == <<price, ticks, live, filled>>
vars == <<pc, budget, group, sizing, route, order, taken, now>>

None == "none"
Zero == [r \in Route |-> 0]
Least(a, b) == IF a <= b THEN a ELSE b
Most(a, b) == IF a >= b THEN a ELSE b
Sum(f) == f["bid"] + f["mid"] + f["ask"]

-----------------------------------------------------------------------------
(* The gates of manageAllocationForGroup. *)

\* effectiveTargetAccountExposure, in hundredths of a percent.
EffectiveTarget(g) == Least(g.exposure, g.maxExposure) * (100 + g.boost)

ExposureHeadroom(g) == (TotalCapital * EffectiveTarget(g)) \div 10000 - exposed

MaxBuyPerAction(g) == (TotalCapital * (BuyPct + g.surplus)) \div 100

\* Mutant: one interval ahead.
OneIntervalAhead == Evaluated > Cutoff - RunInterval

isTooCloseToAccumulationCutoff == Evaluated > Cutoff - 2 * RunInterval

ContractHeadroom(g) == Most(0, MaxContracts - g.held)
NotionalHeadroom(g) == Most(0, MaxNotional - g.value)

\* getMarginAverageDownBlockReason, negated: on margin a held contract is only
\* averaged down, give or take what its age allows.
AverageDown(g) ==
  \/ Account # "margin" \/ g.average = 0
  \/ 100 * g.heldQuote.ask <= g.average * (100 + g.ageGive)

\* getHeldContractFallbackCandidate finds the held contract buyable.
HeldCandidate(g) ==
  /\ g.heldDTE >= (IF Account = "margin" THEN 0 ELSE 1)
  /\ g.heldQuote.bid > 0 /\ g.heldQuote.ask > 0
  /\ g.heldLiquid
  /\ AverageDown(g)

\* The chain's pick, the in-the-money one on margin, or the held contract.
ChainCandidate(g) ==
  g.chain \/ (Account = "margin" /\ g.itmEligible /\ ~g.ivGate /\ g.itm)
HeldInstead(g) == ~ChainCandidate(g) /\ ~g.ivGate /\ HeldCandidate(g)

CandidateDTE(g) == IF HeldInstead(g) THEN g.heldDTE ELSE g.dte

Skipped(g) ==
  \/ ~g.targets
  \/ ~g.openable
  \/ EffectiveTarget(g) = 0
  \/ ExposureHeadroom(g) <= 0
  \/ buying <= 0
  \/ Account # "unknown" /\ isTooCloseToAccumulationCutoff
  \/ ContractHeadroom(g) < 1
  \/ NotionalHeadroom(g) <= 0
  \/ ~g.healthy
  \/ ~ChainCandidate(g) /\ ~HeldInstead(g)
  \/ CandidateDTE(g) < MinEntryDTE

\* Mutant: the room under the target is only a gate.
TargetOnlyGates(g) ==
  Least(MaxBuyPerAction(g) \div left,
        Least(Least(buying, g.value * BuyMultiple), NotionalHeadroom(g)))

AvailableCapital(g) ==
  Least(Least(Most(0, ExposureHeadroom(g) \div left), MaxBuyPerAction(g) \div left),
        Least(Least(buying, g.value * BuyMultiple), NotionalHeadroom(g)))

-----------------------------------------------------------------------------
(* Routes. *)

Midpoint(q) ==
  IF q.bid > 0 /\ q.ask > 0 THEN (q.bid + q.ask) \div 2
  ELSE IF q.ask > 0 THEN q.ask ELSE q.bid

\* buildRouteOrders: the price each route is sized at.
LimitPrice(q, r) ==
  CASE r = "bid" -> IF q.bid > 0 THEN q.bid ELSE Midpoint(q)
    [] r = "mid" -> Midpoint(q)
    [] r = "ask" -> IF q.ask > 0 THEN q.ask ELSE Midpoint(q)

Cost == [r \in Route |-> LimitPrice(quote, r)]
Active == {r \in Route : in.weight[r] > 0 /\ Cost[r] > 0}
Weight == [r \in Route |-> IF r \in Active THEN in.weight[r] ELSE 0]
TotalWeight == Sum(Weight)
Est == [r \in Route |-> qty[r] * Cost[r]]
Spent == Sum(Est)
Total == Sum(qty)

MinTick(mid) == IF mid < 300 THEN 5 ELSE 10
Ceiling(q) == IF q.ask > 0 THEN q.ask ELSE Midpoint(q)
TightSpread(q) == Ceiling(q) - Midpoint(q) <= 2 * MinTick(Midpoint(q))

\* getRouteChasePlan
StartPrice(q, r) ==
  IF r = "ask" /\ TightSpread(q) THEN Ceiling(q)
  ELSE IF r = "bid" THEN LimitPrice(q, "bid") ELSE Midpoint(q)
CeilingPrice(q, r) == IF r = "bid" THEN LimitPrice(q, "bid") ELSE Ceiling(q)
MaxTicks(q, r) ==
  CASE r = "bid" -> 0
    [] r = "mid" -> MidTicks
    [] r = "ask" -> IF TightSpread(q) THEN 0 ELSE AskTicks
TickInterval(r) == IF r = "ask" THEN AskWait ELSE MidWait

calculateDynamicTickSize(mid, ceiling) ==
  IF ceiling <= mid THEN MinTick(mid)
  ELSE Most((ceiling - mid) \div AskTicks, MinTick(mid))

NextPrice ==
  Least(CeilingPrice(quote, route),
        price + calculateDynamicTickSize(Midpoint(quote), CeilingPrice(quote, route)))

\* roundOrderPrice: the nearest cent below three dollars, the nearest nickel above.
Rounded(p) ==
  IF p < 300 THEN p ELSE ((2 * p + 5) \div 10) * 5

-----------------------------------------------------------------------------
(* Serving a group: gates, sizing, trimming. *)

NoGroup ==
  [targets |-> FALSE, openable |-> FALSE,
   exposure |-> 0, maxExposure |-> 0, boost |-> 0, surplus |-> 0,
   weight |-> Zero, held |-> 0, value |-> 0, average |-> 0, ageGive |-> 0,
   heldDTE |-> 0, heldQuote |-> [bid |-> 0, ask |-> 0], heldLiquid |-> FALSE,
   healthy |-> FALSE, chain |-> FALSE, ivGate |-> FALSE,
   itmEligible |-> FALSE, itm |-> FALSE, dte |-> 0,
   quote |-> [bid |-> 0, ask |-> 0], holdsCandidate |-> FALSE]

Init ==
  /\ pc = "group" /\ left = Groups
  /\ buying = BuyingPower /\ exposed = Exposure
  /\ in = NoGroup /\ onHeld = FALSE /\ avail = 0 /\ quote = NoGroup.quote
  /\ qty = Zero /\ rounds = 0
  /\ route = None /\ price = 0 /\ ticks = 0 /\ live = FALSE /\ filled = 0
  /\ taken = 0
  /\ now \in {Evaluated, Evaluated + CloseTime}

\* A gate holds: the next group, with the budget as it is.
SkipGroup ==
  /\ pc = "group" /\ left > 0
  /\ \E g \in Inputs : Skipped(g)
  /\ left' = left - 1
  /\ UNCHANGED <<pc, buying, exposed, group, sizing, route, order, taken, now>>

\* The candidate is found and quoted, and the capital it may use is known.
SizeGroup ==
  /\ pc = "group" /\ left > 0
  /\ \E g \in Inputs :
       /\ ~Skipped(g)
       /\ in' = g /\ onHeld' = HeldInstead(g)
       /\ quote' = IF HeldInstead(g) THEN g.heldQuote ELSE g.quote
       /\ avail' = AvailableCapital(g)
  /\ qty' = Zero /\ rounds' = 0 /\ taken' = 0
  /\ pc' = "floor"
  /\ UNCHANGED <<budget, route, order, now>>

\* allocateContractsByWeight, first loop: each route what its share can pay.
FloorShares ==
  /\ pc = "floor"
  /\ IF TotalWeight = 0 \/ avail = 0 THEN pc' = "trim" /\ UNCHANGED qty
     ELSE /\ qty' = [r \in Route |-> IF r \in Active
                       THEN (avail * Weight[r]) \div (Cost[r] * TotalWeight) ELSE 0]
          /\ pc' = "greedy"
  /\ UNCHANGED <<budget, group, rounds, route, order, taken, now>>

\* Mutant: affordable by itself, whatever has been given already.
AffordableAlone == {r \in Active : Cost[r] <= avail}

Affordable == {r \in Active : Cost[r] <= avail - Spent}

\* targetSpend minus what the route has been given, times the total weight.
Shortfall(r) == avail * Weight[r] - TotalWeight * Est[r]

Neediest ==
  CHOOSE r \in Affordable : \A q \in Affordable :
    \/ Shortfall(q) < Shortfall(r)
    \/ Shortfall(q) = Shortfall(r) /\ Cost[r] <= Cost[q]

\* Second loop: one contract more for the affordable route furthest behind.
GiveOneMore ==
  /\ pc = "greedy" /\ rounds < MaxRounds /\ Affordable # {}
  /\ qty' = [qty EXCEPT ![Neediest] = @ + 1]
  /\ rounds' = rounds + 1
  /\ UNCHANGED <<pc, budget, group, route, order, taken, now>>

NothingMore ==
  /\ pc = "greedy" /\ (rounds >= MaxRounds \/ Affordable = {})
  /\ pc' = "trim"
  /\ UNCHANGED <<budget, group, sizing, route, order, taken, now>>

pickTrimTarget ==
  CHOOSE r \in Route : qty[r] > 0 /\ \A q \in Route :
    \/ qty[q] < qty[r]
    \/ qty[q] = qty[r] /\ Weight[r] <= Weight[q]

\* clampRouteOrdersToMaxTotalQuantity, one contract at a time.
TrimOne ==
  /\ pc = "trim" /\ Total > ContractHeadroom(in)
  /\ qty' = [qty EXCEPT ![pickTrimTarget] = @ - 1]
  /\ UNCHANGED <<pc, budget, group, rounds, route, order, taken, now>>

Fits == pc = "trim" /\ Total <= ContractHeadroom(in)

MayRetry == Active # {} /\ ~onHeld /\ HeldCandidate(in) /\ ~in.holdsCandidate

\* The chain's pick is unaffordable: the same sizing for the contract held.
RetryOnHeld ==
  /\ Fits /\ Total < 1 /\ MayRetry
  /\ onHeld' = TRUE /\ quote' = in.heldQuote
  /\ qty' = Zero /\ rounds' = 0 /\ pc' = "floor"
  /\ UNCHANGED <<budget, in, avail, route, order, taken, now>>

\* "candidate quote unavailable", "insufficient budget for one contract".
GiveUp ==
  /\ Fits /\ Total < 1 /\ ~MayRetry
  /\ left' = left - 1 /\ pc' = "group"
  /\ UNCHANGED <<buying, exposed, group, sizing, route, order, taken, now>>

-----------------------------------------------------------------------------
(* Buying: placeRouteOrders and chaseRouteOrderFill. *)

After(r) == CASE r = None -> "bid" [] r = "bid" -> "mid" [] r = "mid" -> "ask"

OpenRoute(r) ==
  /\ route' = r /\ price' = StartPrice(quote, r) /\ ticks' = 0
  /\ live' = FALSE /\ filled' = 0

StartBuying ==
  /\ Fits /\ Total >= 1
  /\ pc' = "place" /\ OpenRoute("bid")
  /\ UNCHANGED <<budget, group, sizing, taken, now>>

\* The route is done, its last order left working: the next route, or the
\* budget is charged what the routes were sized at.
RouteDone ==
  IF route = "ask"
  THEN /\ pc' = "group" /\ route' = None
       /\ left' = left - 1
       /\ buying' = Most(0, buying - Spent) /\ exposed' = exposed + Spent
       /\ price' = 0 /\ ticks' = 0 /\ live' = FALSE /\ filled' = 0
  ELSE /\ pc' = "place" /\ OpenRoute(After(route))
       /\ UNCHANGED budget

EmptyRoute ==
  /\ pc = "place" /\ qty[route] = 0
  /\ RouteDone
  /\ UNCHANGED <<group, sizing, taken, now>>

\* createOrder; at the last rung the order is left to rest.
PlaceOrder ==
  /\ pc = "place" /\ qty[route] > 0
  /\ taken' = taken + qty[route]
  /\ IF ticks >= MaxTicks(quote, route)
     THEN RouteDone
     ELSE pc' = "wait" /\ live' = TRUE /\ filled' = 0
          /\ UNCHANGED <<budget, route, price, ticks>>
  /\ UNCHANGED <<group, sizing, now>>

\* An order without an id is neither waited for nor cancelled: the next rung is
\* placed beside it.
PlaceBeside ==
  /\ AnswersLackId
  /\ pc = "place" /\ qty[route] > 0 /\ ticks < MaxTicks(quote, route)
  /\ taken' = taken + qty[route]
  /\ IF NextPrice = price THEN RouteDone
     ELSE price' = NextPrice /\ ticks' = ticks + 1
          /\ UNCHANGED <<pc, budget, route, live, filled>>
  /\ UNCHANGED <<group, sizing, now>>

\* createOrder throws: the exception ends the cycle for this account.
OrderRefused ==
  /\ pc = "place" /\ qty[route] > 0
  /\ pc' = "aborted"
  /\ UNCHANGED <<budget, group, sizing, route, order, taken, now>>

BrokerFills ==
  /\ pc = "wait" \/ (pc = "cancel" /\ LateFills)
  /\ live /\ filled < qty[route]
  /\ filled' = filled + 1
  /\ UNCHANGED <<pc, budget, group, sizing, route, price, ticks, live, taken, now>>

\* waitForOrderFillById sees a fill, a partial one included.
SeesFill ==
  /\ pc = "wait" /\ filled > 0
  /\ RouteDone
  /\ UNCHANGED <<group, sizing, taken, now>>

\* The wait times out; at the ceiling the order is left to rest.
WaitEnds ==
  /\ pc = "wait" /\ filled = 0
  /\ now' = now + TickInterval(route)
  /\ IF NextPrice = price THEN RouteDone
     ELSE pc' = "cancel" /\ UNCHANGED <<budget, route, order>>
  /\ UNCHANGED <<group, sizing, taken>>

CancelAccepted ==
  /\ pc = "cancel"
  /\ taken' = taken - (qty[route] - filled)
  /\ live' = FALSE /\ filled' = 0
  /\ price' = NextPrice /\ ticks' = ticks + 1
  /\ pc' = "place"
  /\ UNCHANGED <<budget, group, sizing, route, now>>

\* Mutant: the chase goes on beside the order it could not cancel.
ChaseGoesOn ==
  /\ pc = "cancel"
  /\ live' = FALSE /\ filled' = 0
  /\ price' = NextPrice /\ ticks' = ticks + 1
  /\ pc' = "place"
  /\ UNCHANGED <<budget, group, sizing, route, taken, now>>

\* "Can't confirm cancellation": the order is left to rest.
CancelRefused ==
  /\ pc = "cancel"
  /\ RouteDone
  /\ UNCHANGED <<group, sizing, taken, now>>

Done ==
  /\ pc = "aborted" \/ (pc = "group" /\ left = 0)
  /\ UNCHANGED vars

Next ==
  \/ SkipGroup \/ SizeGroup \/ FloorShares \/ GiveOneMore \/ NothingMore
  \/ TrimOne \/ RetryOnHeld \/ GiveUp
  \/ StartBuying \/ EmptyRoute \/ PlaceOrder \/ PlaceBeside \/ OrderRefused
  \/ BrokerFills \/ SeesFill \/ WaitEnds \/ CancelAccepted \/ CancelRefused \/ Done

Spec == Init /\ [][Next]_vars

-----------------------------------------------------------------------------
(* Properties. *)

Buying == pc \in {"place", "wait", "cancel"}

TypeOK ==
  /\ pc \in {"group", "floor", "greedy", "trim", "place", "wait", "cancel", "aborted"}
  /\ left \in Nat /\ buying \in Nat /\ exposed \in Nat
  /\ in \in GroupInput /\ onHeld \in BOOLEAN /\ avail \in Nat /\ quote \in Quote
  /\ qty \in [Route -> Nat] /\ rounds \in Nat
  /\ route \in Route \cup {None} /\ (Buying => route \in Route)
  /\ price \in Nat /\ ticks \in Nat /\ live \in BOOLEAN /\ filled \in Nat
  /\ taken \in Int /\ now \in Nat

\* The groups of a cycle together never commit more than the buying power it
\* began with: the split, its greedy top-up and the trimming stay within the
\* capital of the group, and what one group is charged the next one lacks.
BudgetBalances ==
  /\ buying + exposed = BuyingPower + Exposure
  /\ Buying => Spent <= avail /\ avail <= buying

\* Whatever is bought, the portfolio ends no larger than the target of the
\* group it was bought for, and the group no more valuable than its ceiling.
TargetRespected ==
  Buying => /\ 10000 * (exposed + Spent) <= TotalCapital * EffectiveTarget(in)
            /\ in.value + Spent <= MaxNotional

\* "bound the TOTAL a group may reach": with everything of a chase that fills,
\* or still may, a group never holds more contracts than the ceiling.
GroupWithinCap == taken > 0 => in.held + taken <= MaxContracts

\* "this check runs after ALL fallbacks are resolved": whatever candidate the
\* fallbacks end with, a contract that expires sooner than the minimum for an
\* entry is not bought.
NeverBuysExpiring ==
  Buying => (IF onHeld THEN in.heldDTE ELSE in.dte) >= MinEntryDTE

\* The chase concedes the spread and nothing beyond it: every order is priced
\* within the quote after rounding to the broker's grid, and the bid route's at
\* the bid.
PlacesWithinQuote ==
  pc = "place" /\ quote.bid > 0 /\ quote.ask >= quote.bid =>
    /\ quote.bid <= Rounded(price) /\ Rounded(price) <= quote.ask
    /\ route = "bid" => Rounded(price) = quote.bid

\* The cutoff guard looks two run intervals ahead, because it reads the clock of
\* the evaluation and not of the order: no order is placed past the cutoff.
BuysBeforeCutoff ==
  pc = "place" /\ qty[route] > 0 /\ Account # "unknown" => now <= Cutoff

=============================================================================
