-------------------------- MODULE AllocationProofs --------------------------
(***************************************************************************)
(* Theorems about Allocation for every set of inputs and every capital:    *)
(* its state is well formed, the groups never commit more than the buying  *)
(* power, targets and ceilings hold while buying, a group stays within its *)
(* ceiling of contracts when a poll follows every fill, and no order is    *)
(* placed past the cutoff while the chases fit into two intervals.         *)
(***************************************************************************)
EXTENDS MCAllocation, TLAPS

(* Arithmetic of the sizing. *)

\* A floored share is a natural number and costs no more than its numerator.
LEMMA Division ==
  ASSUME NEW a \in Nat, NEW b \in Nat, b > 0
  PROVE  /\ a \div b \in Nat
         /\ (a \div b) * b <= a
         /\ a \div b <= a
  OBVIOUS

LEMMA ProductNat == ASSUME NEW a \in Nat, NEW b \in Nat PROVE a * b \in Nat
  OBVIOUS

LEMMA ProductPositive ==
  ASSUME NEW a \in Nat, NEW b \in Nat, a > 0, b > 0 PROVE a * b > 0
  OBVIOUS

\* What one route gets by its floored share, times the total weight.
LEMMA ShareFits ==
  ASSUME NEW v \in Nat, NEW w \in Nat, NEW c \in Nat, NEW W \in Nat, c > 0, W > 0
  PROVE  /\ (v * w) \div (c * W) \in Nat
         /\ (((v * w) \div (c * W)) * c) * W <= v * w
<1> DEFINE q == (v * w) \div (c * W)
<1>1. v * w \in Nat /\ c * W \in Nat /\ c * W > 0
  BY ProductNat, ProductPositive
<1>2. q \in Nat /\ q * (c * W) <= v * w
  BY <1>1, Division
<1>3. (q * c) * W = q * (c * W)
  BY <1>2
<1> QED BY <1>2, <1>3

\* Three shares of v by weight add up to no more than v.
LEMMA SharesFit ==
  ASSUME NEW v \in Nat, NEW a \in Nat, NEW b \in Nat, NEW c \in Nat,
         NEW x \in Nat, NEW y \in Nat, NEW z \in Nat, x + y + z > 0,
         a * (x + y + z) <= v * x, b * (x + y + z) <= v * y, c * (x + y + z) <= v * z
  PROVE  a + b + c <= v
<1> DEFINE W == x + y + z
<1>1. (a + b + c) * W <= v * W
  <2>1. (a + b + c) * W = a * W + b * W + c * W
    OBVIOUS
  <2>2. v * W = v * x + v * y + v * z
    OBVIOUS
  <2>3. a * W \in Nat /\ b * W \in Nat /\ c * W \in Nat
        /\ v * x \in Nat /\ v * y \in Nat /\ v * z \in Nat
    BY ProductNat
  <2> QED BY <2>1, <2>2, <2>3
<1>2. \A m, n, k \in Nat : k > 0 /\ m * k <= n * k => m <= n
  OBVIOUS
<1> QED BY <1>1, <1>2

-----------------------------------------------------------------------------
(* Types of the operators. *)

LEMMA Constants ==
  /\ Account \in {"margin", "cash", "unknown"} /\ Inputs \subseteq GroupInput
  /\ Groups \in Nat /\ TotalCapital \in Nat /\ BuyingPower \in Nat /\ Exposure \in Nat
  /\ BuyPct \in Nat /\ BuyMultiple \in Nat /\ MaxContracts \in Nat /\ MaxNotional \in Nat
  /\ MinEntryDTE \in Nat /\ MaxRounds \in Nat /\ MidTicks \in Nat /\ AskTicks \in Nat
  /\ MidWait \in Nat /\ AskWait \in Nat /\ RunInterval \in Nat /\ Cutoff \in Nat
  /\ Evaluated \in Nat /\ CloseTime \in Nat
  /\ AskTicks > 0
  BY AllocationAssumption DEF AllocationAssumption

LEMMA QuoteTypes ==
  ASSUME NEW q \in Quote
  PROVE  /\ Midpoint(q) \in Nat /\ Ceiling(q) \in Nat
         /\ MinTick(Midpoint(q)) \in Nat
         /\ \A r \in Route : LimitPrice(q, r) \in Nat
<1>1. q.bid \in Nat /\ q.ask \in Nat
  BY DEF Quote
<1>2. (q.bid + q.ask) \div 2 \in Nat
  BY <1>1, Division
<1>3. Midpoint(q) \in Nat
  BY <1>1, <1>2 DEF Midpoint
<1> QED BY <1>1, <1>3 DEF Ceiling, MinTick, LimitPrice, Route

LEMMA ChaseTypes ==
  ASSUME NEW q \in Quote, NEW r \in Route
  PROVE  /\ StartPrice(q, r) \in Nat /\ CeilingPrice(q, r) \in Nat
         /\ TickInterval(r) \in Nat
         /\ calculateDynamicTickSize(Midpoint(q), CeilingPrice(q, r)) \in Nat
<1>1. StartPrice(q, r) \in Nat /\ CeilingPrice(q, r) \in Nat
  BY QuoteTypes DEF StartPrice, CeilingPrice, Route
<1>2. TickInterval(r) \in Nat
  BY Constants DEF TickInterval
<1>3. ASSUME NEW m \in Nat, NEW k \in Nat, MinTick(m) \in Nat
      PROVE  calculateDynamicTickSize(m, k) \in Nat
  <2>1. CASE k <= m
    BY <1>3, <2>1 DEF calculateDynamicTickSize
  <2>2. CASE k > m
    <3>1. (k - m) \div AskTicks \in Nat
      BY <2>2, Division, Constants
    <3> QED BY <1>3, <2>2, <3>1 DEF calculateDynamicTickSize, Most
  <2> QED BY <2>1, <2>2
<1> QED BY <1>1, <1>2, <1>3, QuoteTypes

LEMMA SizingTypes ==
  ASSUME TypeOK
  PROVE  /\ Cost \in [Route -> Nat] /\ Weight \in [Route -> Nat]
         /\ Est \in [Route -> Nat]
         /\ TotalWeight \in Nat /\ Spent \in Nat /\ Total \in Nat
         /\ \A r \in Active : r \in Route /\ Cost[r] > 0
<1>1. Cost \in [Route -> Nat]
  BY QuoteTypes DEF TypeOK, Cost
<1>2. in.weight \in [Route -> Nat]
  BY DEF TypeOK, GroupInput
<1>3. Weight \in [Route -> Nat]
  BY <1>2 DEF Weight
<1>4. \A r \in Route : qty[r] * Cost[r] \in Nat
  BY <1>1, ProductNat DEF TypeOK
<1>5. Est \in [Route -> Nat]
  BY <1>4 DEF Est
<1>6. \A f \in [Route -> Nat] : Sum(f) \in Nat
  BY DEF Sum, Route
<1>7. \A r \in Active : r \in Route /\ Cost[r] > 0
  BY DEF Active
<1> QED BY <1>1, <1>3, <1>5, <1>6, <1>7 DEF TypeOK, TotalWeight, Spent, Total

LEMMA RoomTypes ==
  ASSUME NEW g \in GroupInput, exposed \in Nat
  PROVE  /\ EffectiveTarget(g) \in Nat /\ ExposureHeadroom(g) \in Int
         /\ ContractHeadroom(g) \in Nat /\ NotionalHeadroom(g) \in Nat
<1>1. /\ g.exposure \in Nat /\ g.maxExposure \in Nat /\ g.boost \in Nat
      /\ g.value \in Nat /\ g.held \in Nat
  BY DEF GroupInput
<1>2. EffectiveTarget(g) \in Nat
  <2>1. Least(g.exposure, g.maxExposure) \in Nat /\ 100 + g.boost \in Nat
    BY <1>1 DEF Least
  <2> QED BY <2>1, ProductNat DEF EffectiveTarget
<1>3. (TotalCapital * EffectiveTarget(g)) \div 10000 \in Nat
  <2>1. TotalCapital * EffectiveTarget(g) \in Nat
    BY <1>2, ProductNat, Constants
  <2> QED BY <2>1, Division
<1> QED BY <1>1, <1>2, <1>3, Constants
    DEF ExposureHeadroom, ContractHeadroom, NotionalHeadroom, Most

\* AvailableCapital, where one action may buy for m.
Capital(g, m) ==
  Least(Least(Most(0, ExposureHeadroom(g) \div left), m \div left),
        Least(Least(buying, g.value * BuyMultiple), NotionalHeadroom(g)))

\* What respects the budget, the target and both ceilings of a group.
Grantable(g, capital) ==
  /\ capital \in Nat /\ capital <= buying
  /\ 10000 * (exposed + capital) <= TotalCapital * EffectiveTarget(g)
  /\ g.value + capital <= MaxNotional
  /\ ContractHeadroom(g) \in Nat /\ g.held + ContractHeadroom(g) <= MaxContracts

\* What the gates leave: a positive room for capital that respects every bound.
LEMMA CapitalBounds ==
  ASSUME NEW g \in GroupInput, NEW m \in Nat,
         left \in Nat, left > 0, exposed \in Nat, buying \in Nat,
         ExposureHeadroom(g) > 0, ContractHeadroom(g) >= 1, NotionalHeadroom(g) > 0
  PROVE  Grantable(g, Capital(g, m))
<1> DEFINE e == EffectiveTarget(g)
           h == ExposureHeadroom(g)
<1>1. /\ g.exposure \in Nat /\ g.maxExposure \in Nat /\ g.boost \in Nat
      /\ g.surplus \in Nat /\ g.value \in Nat /\ g.held \in Nat
  BY DEF GroupInput
<1>2. e \in Nat
  <2>1. Least(g.exposure, g.maxExposure) \in Nat /\ 100 + g.boost \in Nat
    BY <1>1 DEF Least
  <2> QED BY <2>1, ProductNat DEF EffectiveTarget
<1>3. TotalCapital * e \in Nat
  BY <1>2, ProductNat, Constants
<1>4. (TotalCapital * e) \div 10000 \in Nat
      /\ ((TotalCapital * e) \div 10000) * 10000 <= TotalCapital * e
  BY <1>3, Division
<1>5. h \in Nat /\ 10000 * (exposed + h) <= TotalCapital * e
  <2>1. h > 0
    OBVIOUS
  <2> QED BY <1>3, <1>4, <2>1 DEF ExposureHeadroom
<1>7. h \div left \in Nat /\ h \div left <= h /\ m \div left \in Nat
  BY <1>5, Division
<1>8. NotionalHeadroom(g) \in Nat /\ g.value + NotionalHeadroom(g) <= MaxNotional
  BY <1>1, Constants DEF NotionalHeadroom, Most
<1>9. g.value * BuyMultiple \in Nat
  BY <1>1, ProductNat, Constants
<1>10. /\ Capital(g, m) \in Nat /\ Capital(g, m) <= buying
       /\ Capital(g, m) <= h \div left
       /\ Capital(g, m) <= NotionalHeadroom(g)
  <2> HIDE DEF h
  <2>1. Most(0, h \div left) = h \div left
    BY <1>7 DEF Most
  <2>2. /\ Capital(g, m) = Least(Least(h \div left, m \div left),
             Least(Least(buying, g.value * BuyMultiple), NotionalHeadroom(g)))
    BY <2>1 DEF Capital, h
  <2> QED BY <2>2, <1>7, <1>8, <1>9 DEF Least
<1>11. ContractHeadroom(g) \in Nat /\ g.held + ContractHeadroom(g) <= MaxContracts
  BY <1>1, Constants DEF ContractHeadroom, Most
<1>12. 10000 * (exposed + Capital(g, m)) <= TotalCapital * e
  <2> HIDE DEF e, h
  <2> QED BY <1>3, <1>5, <1>7, <1>10
<1>13. g.value + Capital(g, m) <= MaxNotional
  <2> HIDE DEF e, h
  <2> QED BY <1>1, <1>8, <1>10, Constants
<1> HIDE DEF h
<1> QED BY <1>10, <1>11, <1>12, <1>13 DEF Grantable

-----------------------------------------------------------------------------
(* The steps, as far as the proofs look at them.  The worlds of MCAllocation differ
   in their gates, in what one action may buy for, and in what the broker does late
   or leaves out; each of their steps is one of these. *)

Skips ==
  /\ pc = "group" /\ left > 0 /\ left' = left - 1
  /\ UNCHANGED <<pc, buying, exposed, group, sizing, route, order, taken, now>>

Grants ==
  /\ pc = "group" /\ left > 0
  /\ \E g \in Inputs, useHeld \in BOOLEAN, capital \in Nat :
       /\ Grantable(g, capital)
       /\ in' = g /\ onHeld' = useHeld
       /\ quote' = IF useHeld THEN g.heldQuote ELSE g.quote
       /\ avail' = capital
  /\ qty' = Zero /\ rounds' = 0 /\ taken' = 0
  /\ pc' = "floor"
  /\ UNCHANGED <<budget, route, order, now>>

Retries ==
  /\ Fits /\ onHeld' = TRUE /\ quote' = in.heldQuote
  /\ qty' = Zero /\ rounds' = 0 /\ pc' = "floor"
  /\ UNCHANGED <<budget, in, avail, route, order, taken, now>>

GivesUp ==
  /\ Fits /\ left' = left - 1 /\ pc' = "group"
  /\ UNCHANGED <<buying, exposed, group, sizing, route, order, taken, now>>

Beside ==
  /\ pc = "place" /\ qty[route] > 0 /\ ticks < MaxTicks(quote, route)
  /\ taken' = taken + qty[route]
  /\ IF NextPrice = price THEN RouteDone
     ELSE price' = NextPrice /\ ticks' = ticks + 1
          /\ UNCHANGED <<pc, budget, route, live, filled>>
  /\ UNCHANGED <<group, sizing, now>>

Fills ==
  /\ pc \in {"wait", "cancel"} /\ filled' = filled + 1
  /\ UNCHANGED <<pc, budget, group, sizing, route, price, ticks, live, taken, now>>

Step(late, lacking) ==
  \/ Skips \/ Grants \/ FloorShares \/ GiveOneMore \/ NothingMore \/ TrimOne
  \/ Retries \/ GivesUp \/ StartBuying \/ EmptyRoute \/ PlaceOrder
  \/ (lacking /\ Beside) \/ OrderRefused \/ (Fills /\ (pc = "wait" \/ late))
  \/ SeesFill \/ WaitEnds \/ CancelAccepted \/ CancelRefused

LEMMA NextIsStep ==
  ASSUME TypeOK, [Next]_vars
  PROVE  Step(LateFills, AnswersLackId) \/ UNCHANGED vars
<1>1. ASSUME SizeGroup PROVE Grants
  <2>1. PICK g \in Inputs :
          /\ ~Skipped(g) /\ in' = g /\ onHeld' = HeldInstead(g)
          /\ quote' = IF HeldInstead(g) THEN g.heldQuote ELSE g.quote
          /\ avail' = AvailableCapital(g)
    BY <1>1 DEF SizeGroup
  <2>2. g \in GroupInput /\ HeldInstead(g) \in BOOLEAN
    BY Constants DEF HeldInstead
  <2>3. MaxBuyPerAction(g) \in Nat
    <3>1. TotalCapital \in Nat /\ BuyPct + g.surplus \in Nat
      BY <2>2, Constants DEF GroupInput
    <3> QED BY <3>1, ProductNat, Division DEF MaxBuyPerAction
  <2>4. /\ left > 0 /\ left \in Nat /\ exposed \in Nat /\ buying \in Nat
        /\ ExposureHeadroom(g) \in Int /\ ContractHeadroom(g) \in Int
        /\ NotionalHeadroom(g) \in Int
    BY <1>1, <2>2, RoomTypes DEF SizeGroup, TypeOK
  <2>5. Grantable(g, AvailableCapital(g))
    <3>1. ExposureHeadroom(g) > 0 /\ ContractHeadroom(g) >= 1 /\ NotionalHeadroom(g) > 0
      BY <2>1, <2>4 DEF Skipped
    <3>2. AvailableCapital(g) = Capital(g, MaxBuyPerAction(g))
      BY DEF AvailableCapital, Capital
    <3> QED BY <2>2, <2>3, <2>4, <3>1, <3>2, CapitalBounds
  <2>6. AvailableCapital(g) \in Nat
    BY <2>5 DEF Grantable
  <2> QED BY <1>1, <2>1, <2>2, <2>5, <2>6, Zenon DEF SizeGroup, Grants
<1>2. ASSUME BrokerFills PROVE Fills /\ (pc = "wait" \/ LateFills)
  BY <1>2 DEF BrokerFills, Fills
<1> QED
  BY <1>1, <1>2 DEF Next, Step, SkipGroup, Skips, RetryOnHeld, Retries, GiveUp, GivesUp,
                    PlaceBeside, Beside, Done

-----------------------------------------------------------------------------
(* The inductive invariant: while a group is served its capital respects every
   bound, and what the routes were given costs no more than that capital. *)

Working == {"floor", "greedy", "trim", "place", "wait", "cancel"}

Funded ==
  pc \in Working =>
    /\ left > 0 /\ avail <= buying
    /\ 10000 * (exposed + avail) <= TotalCapital * EffectiveTarget(in)
    /\ in.value + avail <= MaxNotional

Affords ==
  /\ pc = "floor" => qty = Zero
  /\ pc \in Working \ {"floor"} => Spent <= avail

Balanced == buying + exposed = BuyingPower + Exposure

Inv == TypeOK /\ Funded /\ Affords /\ Balanced

LEMMA NoGroupTyped == NoGroup \in GroupInput /\ Zero \in [Route -> Nat]
  BY DEF NoGroup, GroupInput, Quote, Zero

\* Where a cycle begins, in any world.
Begins ==
  /\ pc = "group" /\ left \in Nat
  /\ buying = BuyingPower /\ exposed = Exposure
  /\ in = NoGroup /\ onHeld = FALSE /\ avail = 0 /\ quote = NoGroup.quote
  /\ qty = Zero /\ rounds = 0
  /\ route = None /\ price = 0 /\ ticks = 0 /\ live = FALSE /\ filled = 0
  /\ taken = 0 /\ now \in Nat

LEMMA BeginsInv == Begins => Inv
<1> SUFFICES ASSUME Begins PROVE Inv
  OBVIOUS
<1>1. NoGroup.quote \in Quote
  BY NoGroupTyped DEF GroupInput
<1>2. now \in Nat
  BY Constants DEF Begins
<1>3. TypeOK
  <2>1. /\ in \in GroupInput /\ quote \in Quote /\ qty \in [Route -> Nat]
    BY <1>1, NoGroupTyped DEF Begins
  <2>2. left \in Nat /\ buying \in Nat /\ exposed \in Nat /\ avail \in Nat /\ rounds \in Nat
    BY Constants DEF Begins
  <2>3. price \in Nat /\ ticks \in Nat /\ filled \in Nat /\ taken \in Int
    BY DEF Begins
  <2>4. onHeld \in BOOLEAN /\ live \in BOOLEAN /\ route \in Route \cup {None} /\ pc = "group"
    BY DEF Begins
  <2> QED BY <1>2, <2>1, <2>2, <2>3, <2>4 DEF TypeOK, Buying
<1> QED BY <1>3 DEF Begins, Inv, Funded, Affords, Balanced, Working

LEMMA InitBegins == Init => Begins
BY Constants DEF Init, Begins

LEMMA InitInv == Init => Inv
BY InitBegins, BeginsInv

\* Spent depends on the quantities and the quote alone.
LEMMA SpentFrame ==
  ASSUME UNCHANGED <<qty, quote>> PROVE Spent' = Spent
  BY DEF Spent, Est, Cost, Sum

\* A step that serves no group keeps the invariant if it keeps the budget.
LEMMA IdleInv ==
  ASSUME Inv, pc' \in {"group", "aborted"}, left' \in Nat,
         UNCHANGED <<buying, exposed, group, sizing, route, order, taken, now>>
  PROVE  Inv'
  BY DEF Inv, TypeOK, Funded, Affords, Balanced, Working, Buying, group, sizing, order

LEMMA SizeInv == ASSUME Inv, Grants PROVE Inv'
<1>1. PICK g \in Inputs, useHeld \in BOOLEAN, capital \in Nat :
        /\ Grantable(g, capital) /\ in' = g /\ onHeld' = useHeld
        /\ quote' = IF useHeld THEN g.heldQuote ELSE g.quote
        /\ avail' = capital
  BY DEF Grants
<1>2. g \in GroupInput
  BY Constants
<1>3. g.heldQuote \in Quote /\ g.quote \in Quote
  BY <1>2 DEF GroupInput
<1>4. left > 0 /\ left \in Nat /\ exposed \in Nat /\ buying \in Nat
  BY DEF Grants, Inv, TypeOK
<1>5. /\ capital <= buying
      /\ 10000 * (exposed + capital) <= TotalCapital * EffectiveTarget(g)
      /\ g.value + capital <= MaxNotional
  BY <1>1 DEF Grantable
<1>6. /\ pc' = "floor" /\ qty' = Zero /\ rounds' = 0 /\ taken' = 0
      /\ UNCHANGED <<left, buying, exposed, route, price, ticks, live, filled, now>>
  BY DEF Grants, budget, order
<1>7. TypeOK'
  BY <1>1, <1>2, <1>3, <1>6, NoGroupTyped DEF Inv, TypeOK, Buying
<1>8. EffectiveTarget(in)' = EffectiveTarget(g)
  BY <1>1 DEF EffectiveTarget
<1>9. Funded'
  BY <1>1, <1>4, <1>5, <1>6, <1>8 DEF Funded
<1> QED BY <1>6, <1>7, <1>9 DEF Inv, Affords, Balanced, Working

LEMMA FloorInv == ASSUME Inv, FloorShares PROVE Inv'
<1> USE DEF FloorShares, budget, group, order
<1>1. TypeOK /\ qty = Zero /\ pc = "floor" /\ UNCHANGED <<left, buying, exposed, in, avail,
      quote>>
  BY DEF Inv, Affords
<1>2. Funded'
  BY <1>1 DEF Inv, Funded, Working
<1>3. CASE TotalWeight = 0 \/ avail = 0
  <2>1. qty' = Zero /\ pc' = "trim"
    BY <1>1, <1>3
  <2>2. Spent' = 0
    <3>1. Spent' = Spent
      BY <1>1, <2>1, SpentFrame
    <3>2. \A r \in Route : Cost[r] \in Nat
      BY <1>1, SizingTypes
    <3> QED BY <1>1, <3>1, <3>2 DEF Spent, Est, Sum, Zero, Route
  <2> QED BY <1>1, <1>2, <2>1, <2>2, NoGroupTyped
    DEF Inv, TypeOK, Affords, Balanced, Working, Buying
<1>4. CASE TotalWeight # 0 /\ avail # 0
  <2> DEFINE share(r) == (avail * Weight[r]) \div (Cost[r] * TotalWeight)
  <2>1. /\ pc' = "greedy"
        /\ qty' = [r \in Route |-> IF r \in Active THEN share(r) ELSE 0]
    BY <1>4
  <2>2. /\ avail \in Nat /\ TotalWeight \in Nat /\ TotalWeight > 0
        /\ \A r \in Route : Weight[r] \in Nat /\ Cost[r] \in Nat
        /\ \A r \in Active : Cost[r] > 0
    BY <1>1, <1>4, SizingTypes DEF TypeOK
  <2>3. \A r \in Route : /\ qty'[r] \in Nat
                         /\ qty'[r] * Cost[r] \in Nat
                         /\ (qty'[r] * Cost[r]) * TotalWeight <= avail * Weight[r]
    <3> SUFFICES ASSUME NEW r \in Route
                 PROVE  /\ qty'[r] \in Nat /\ qty'[r] * Cost[r] \in Nat
                        /\ (qty'[r] * Cost[r]) * TotalWeight <= avail * Weight[r]
      OBVIOUS
    <3>1. CASE r \in Active
      <4>1. qty'[r] = share(r)
        BY <2>1, <3>1
      <4>2. share(r) \in Nat /\ (share(r) * Cost[r]) * TotalWeight <= avail * Weight[r]
        BY <2>2, <3>1, ShareFits
      <4> HIDE DEF share
      <4> QED BY <2>2, <4>1, <4>2, ProductNat
    <3>2. CASE r \notin Active
      <4>1. qty'[r] = 0
        BY <2>1, <3>2
      <4>2. avail * Weight[r] \in Nat
        BY <2>2, ProductNat
      <4> QED BY <2>2, <4>1, <4>2
    <3> QED BY <3>1, <3>2
  <2>4. qty' \in [Route -> Nat]
    <3> HIDE DEF share
    <3> QED BY <2>1, <2>3
  <2>5. Spent' <= avail
    <3>1. Spent' = qty'["bid"] * Cost["bid"] + qty'["mid"] * Cost["mid"]
                     + qty'["ask"] * Cost["ask"]
      BY <1>1, <2>4 DEF Spent, Est, Cost, Sum, Route
    <3>2. TotalWeight = Weight["bid"] + Weight["mid"] + Weight["ask"]
      BY DEF TotalWeight, Sum
    <3> QED BY <2>2, <2>3, <3>1, <3>2, SharesFit DEF Route
  <2> QED BY <1>1, <1>2, <2>1, <2>4, <2>5
    DEF Inv, TypeOK, Affords, Balanced, Working, Buying
<1> QED BY <1>3, <1>4

\* The sorts of the code have a first element.
LEMMA Leader ==
  ASSUME NEW A \in SUBSET Route, A # {}, NEW s \in [Route -> Int], NEW c \in [Route -> Int]
  PROVE  \E r \in A : \A q \in A : s[q] < s[r] \/ (s[q] = s[r] /\ c[r] <= c[q])
<1> DEFINE Leads(r, B) ==
      r \in B /\ \A q \in B : s[q] < s[r] \/ (s[q] = s[r] /\ c[r] <= c[q])
<1>1. \A r \in Route : s[r] \in Int /\ c[r] \in Int
  OBVIOUS
<1>2. \A B \in SUBSET Route, x \in Route, r \in Route :
        Leads(r, B) => Leads(r, B \cup {x}) \/ Leads(x, B \cup {x})
  BY <1>1
<1>3. \A x \in Route : Leads(x, {x})
  BY <1>1
<1>4. "bid" \in Route /\ "mid" \in Route /\ "ask" \in Route
  BY DEF Route
<1>5. \E r \in Route : Leads(r, A)
  <2> HIDE DEF Leads
  <2>1. \/ \E x \in Route : A = {x}
        \/ \E x, y \in Route : A = {x} \cup {y}
        \/ \E x, y, z \in Route : A = ({x} \cup {y}) \cup {z}
    <3>1. CASE "bid" \in A /\ "mid" \in A /\ "ask" \in A
      <4>1. A = ({"bid"} \cup {"mid"}) \cup {"ask"}
        BY <3>1 DEF Route
      <4> QED BY <1>4, <4>1
    <3>2. CASE "bid" \in A /\ "mid" \in A /\ "ask" \notin A
      <4>1. A = {"bid"} \cup {"mid"}
        BY <3>2 DEF Route
      <4> QED BY <1>4, <4>1
    <3>3. CASE "bid" \in A /\ "mid" \notin A /\ "ask" \in A
      <4>1. A = {"bid"} \cup {"ask"}
        BY <3>3 DEF Route
      <4> QED BY <1>4, <4>1
    <3>4. CASE "bid" \notin A /\ "mid" \in A /\ "ask" \in A
      <4>1. A = {"mid"} \cup {"ask"}
        BY <3>4 DEF Route
      <4> QED BY <1>4, <4>1
    <3>5. CASE "bid" \in A /\ "mid" \notin A /\ "ask" \notin A
      <4>1. A = {"bid"}
        BY <3>5 DEF Route
      <4> QED BY <1>4, <4>1
    <3>6. CASE "bid" \notin A /\ "mid" \in A /\ "ask" \notin A
      <4>1. A = {"mid"}
        BY <3>6 DEF Route
      <4> QED BY <1>4, <4>1
    <3>7. CASE "bid" \notin A /\ "mid" \notin A
      <4>1. A = {"ask"}
        BY <3>7 DEF Route
      <4> QED BY <1>4, <4>1
    <3> QED BY <3>1, <3>2, <3>3, <3>4, <3>5, <3>6, <3>7
  <2>2. CASE \E x \in Route : A = {x}
    BY <2>2, <1>3
  <2>3. CASE \E x, y \in Route : A = {x} \cup {y}
    <3>1. PICK x, y \in Route : A = {x} \cup {y}
      BY <2>3
    <3> QED BY <3>1, <1>2, <1>3
  <2>4. CASE \E x, y, z \in Route : A = ({x} \cup {y}) \cup {z}
    <3>1. PICK x, y, z \in Route : A = ({x} \cup {y}) \cup {z}
      BY <2>4
    <3>2. PICK r \in Route : Leads(r, {x} \cup {y})
      BY <1>2, <1>3
    <3>3. {x} \cup {y} \in SUBSET Route
      OBVIOUS
    <3> QED BY <3>1, <3>2, <3>3, <1>2
  <2> QED BY <2>1, <2>2, <2>3, <2>4
<1> QED BY <1>5

LEMMA NeediestAffordable ==
  ASSUME TypeOK, Affordable # {}
  PROVE  Neediest \in Affordable
<1> DEFINE s == [r \in Route |-> Shortfall(r)]
<1>1. /\ avail \in Nat /\ TotalWeight \in Nat
      /\ Weight \in [Route -> Nat] /\ Est \in [Route -> Nat] /\ Cost \in [Route -> Nat]
  BY SizingTypes DEF TypeOK
<1>2. s \in [Route -> Int] /\ Cost \in [Route -> Int]
  <2>1. \A r \in Route : avail * Weight[r] \in Nat /\ TotalWeight * Est[r] \in Nat
    BY <1>1, ProductNat
  <2>2. \A r \in Route : Shortfall(r) \in Int
    BY <2>1 DEF Shortfall
  <2> QED BY <1>1, <2>2
<1>3. Affordable \in SUBSET Route
  BY DEF Affordable, Active
<1>4. \E r \in Affordable : \A q \in Affordable :
        s[q] < s[r] \/ (s[q] = s[r] /\ Cost[r] <= Cost[q])
  <2> HIDE DEF s
  <2> QED BY <1>2, <1>3, Leader
<1>5. \E r \in Affordable : \A q \in Affordable :
        \/ Shortfall(q) < Shortfall(r)
        \/ Shortfall(q) = Shortfall(r) /\ Cost[r] <= Cost[q]
  BY <1>3, <1>4
<1> QED BY <1>5 DEF Neediest

LEMMA TrimTargetHolds ==
  ASSUME TypeOK, Total > 0
  PROVE  pickTrimTarget \in Route /\ qty[pickTrimTarget] > 0
<1> DEFINE A == {r \in Route : qty[r] > 0}
<1>1. qty \in [Route -> Nat] /\ Weight \in [Route -> Nat]
  BY SizingTypes DEF TypeOK
<1>2. A # {} /\ A \in SUBSET Route
  BY <1>1 DEF Total, Sum, Route
<1>3. \E r \in A : \A q \in A :
        qty[q] < qty[r] \/ (qty[q] = qty[r] /\ Weight[r] <= Weight[q])
  <2>1. qty \in [Route -> Int] /\ Weight \in [Route -> Int]
    BY <1>1
  <2> HIDE DEF A
  <2> QED BY <1>2, <2>1, Leader
<1>4. \E r \in Route : qty[r] > 0 /\ \A q \in Route :
        qty[q] < qty[r] \/ (qty[q] = qty[r] /\ Weight[r] <= Weight[q])
  <2>1. PICK r \in A : \A q \in A :
          qty[q] < qty[r] \/ (qty[q] = qty[r] /\ Weight[r] <= Weight[q])
    BY <1>3
  <2>2. \A q \in Route : q \notin A => qty[q] < qty[r]
    BY <1>1
  <2> QED BY <2>1, <2>2
<1> QED BY <1>4 DEF pickTrimTarget

-----------------------------------------------------------------------------
(* Each step of sizing and of buying keeps the invariant. *)

\* A step that changes one quantity.
LEMMA SpentStep ==
  ASSUME TypeOK, NEW r \in Route, NEW v \in Int, quote' = quote,
         qty' = [qty EXCEPT ![r] = v]
  PROVE  Spent' = Spent + (v - qty[r]) * Cost[r]
<1>1. Cost \in [Route -> Nat] /\ qty \in [Route -> Nat]
  BY SizingTypes DEF TypeOK
<1>2. Cost' = Cost
  BY DEF Cost
<1> DEFINE d == (v - qty[r]) * Cost[r]
<1>3. v * Cost[r] = qty[r] * Cost[r] + d /\ d \in Int
  BY <1>1
<1>4. Est' = [Est EXCEPT ![r] = @ + d]
  BY <1>1, <1>2, <1>3 DEF Est
<1>5. Est \in [Route -> Nat]
  BY SizingTypes
<1>6. /\ Spent = Est["bid"] + Est["mid"] + Est["ask"]
      /\ Spent' = Est'["bid"] + Est'["mid"] + Est'["ask"]
  BY DEF Spent, Sum
<1> HIDE DEF d
<1>7. Spent' = Spent + d
  BY <1>3, <1>4, <1>5, <1>6 DEF Route
<1> QED BY <1>7 DEF d

LEMMA GiveInv == ASSUME Inv, GiveOneMore PROVE Inv'
<1> DEFINE n == Neediest
<1>1. /\ TypeOK /\ pc = "greedy" /\ pc' = "greedy" /\ rounds' = rounds + 1
      /\ qty' = [qty EXCEPT ![n] = @ + 1]
      /\ UNCHANGED <<left, buying, exposed, in, onHeld, avail, quote, route, price, ticks,
                     live, filled, taken, now>>
  BY DEF GiveOneMore, Inv, budget, group, order
<1>2. n \in Affordable
  BY <1>1, NeediestAffordable DEF GiveOneMore
<1>3. n \in Route /\ Cost[n] <= avail - Spent
  BY <1>2 DEF Affordable, Active
<1> HIDE DEF n
<1>4. Spent' = Spent + Cost[n]
  <2>1. qty[n] \in Nat /\ Cost[n] \in Nat
    BY <1>1, <1>3, SizingTypes DEF TypeOK
  <2>2. qty[n] + 1 \in Int /\ (qty[n] + 1) - qty[n] = 1
    BY <2>1
  <2>3. Spent' = Spent + ((qty[n] + 1) - qty[n]) * Cost[n]
    BY <1>1, <1>3, <2>2, SpentStep
  <2> QED BY <2>1, <2>2, <2>3
<1>5. Cost[n] \in Nat /\ Spent \in Nat /\ avail \in Nat
  BY <1>1, <1>3, SizingTypes DEF TypeOK
<1>6. qty' \in [Route -> Nat]
  BY <1>1, <1>3 DEF TypeOK
<1> QED BY <1>1, <1>3, <1>4, <1>5, <1>6
  DEF Inv, TypeOK, Funded, Affords, Balanced, Working, Buying

LEMMA TrimInv == ASSUME Inv, TrimOne PROVE Inv'
<1> DEFINE n == pickTrimTarget
<1>1. /\ TypeOK /\ pc = "trim" /\ pc' = "trim"
      /\ qty' = [qty EXCEPT ![n] = @ - 1]
      /\ UNCHANGED <<left, buying, exposed, in, onHeld, avail, quote, rounds, route, price,
                     ticks, live, filled, taken, now>>
  BY DEF TrimOne, Inv, budget, group, order
<1>2. Total > 0
  <2>1. ContractHeadroom(in) \in Nat
    BY <1>1, Constants DEF ContractHeadroom, Most, TypeOK, GroupInput
  <2>2. Total \in Nat /\ Total > ContractHeadroom(in)
    BY <1>1, SizingTypes DEF TrimOne
  <2> QED BY <2>1, <2>2
<1>3. n \in Route /\ qty[n] > 0
  BY <1>1, <1>2, TrimTargetHolds
<1> HIDE DEF n
<1>5. Spent' = Spent - Cost[n]
  <2>1. qty[n] \in Nat /\ Cost[n] \in Nat /\ Spent \in Nat
    BY <1>1, <1>3, SizingTypes DEF TypeOK
  <2>2. qty[n] - 1 \in Int /\ (qty[n] - 1) - qty[n] = -1
    BY <2>1
  <2>3. Spent' = Spent + ((qty[n] - 1) - qty[n]) * Cost[n]
    BY <1>1, <1>3, <2>2, SpentStep
  <2> QED BY <2>1, <2>2, <2>3
<1>6. Cost[n] \in Nat /\ Spent \in Nat /\ avail \in Nat
  BY <1>1, <1>3, SizingTypes DEF TypeOK
<1>7. qty' \in [Route -> Nat]
  BY <1>1, <1>3 DEF TypeOK
<1> QED BY <1>1, <1>5, <1>6, <1>7
  DEF Inv, TypeOK, Funded, Affords, Balanced, Working, Buying

LEMMA MoreInv == ASSUME Inv, NothingMore PROVE Inv'
<1>1. pc = "greedy" /\ pc' = "trim"
      /\ UNCHANGED <<left, buying, exposed, in, onHeld, avail, quote, qty, rounds, route,
                     price, ticks, live, filled, taken, now>>
  BY DEF NothingMore, budget, group, order, sizing
<1>2. Spent' = Spent
  BY <1>1, SpentFrame
<1> QED BY <1>1, <1>2 DEF Inv, TypeOK, Funded, Affords, Balanced, Working, Buying

LEMMA RetryInv == ASSUME Inv, Retries PROVE Inv'
<1>1. /\ pc = "trim" /\ pc' = "floor" /\ onHeld' = TRUE /\ quote' = in.heldQuote
      /\ qty' = Zero /\ rounds' = 0
      /\ UNCHANGED <<left, buying, exposed, in, avail, route, price, ticks, live, filled,
                     taken, now>>
  BY DEF Retries, Fits, budget, order
<1>2. quote' \in Quote
  BY <1>1 DEF Inv, TypeOK, GroupInput
<1> QED BY <1>1, <1>2, NoGroupTyped
  DEF Inv, TypeOK, Funded, Affords, Balanced, Working, Buying

LEMMA GiveUpInv == ASSUME Inv, GivesUp PROVE Inv'
<1>1. pc' = "group" /\ left' \in Nat
  BY DEF GivesUp, Fits, Inv, TypeOK, Funded, Working
<1> QED BY <1>1, IdleInv DEF GivesUp

LEMMA StartInv == ASSUME Inv, StartBuying PROVE Inv'
<1>1. /\ pc = "trim" /\ pc' = "place" /\ route' = "bid"
      /\ price' = StartPrice(quote, "bid") /\ ticks' = 0 /\ live' = FALSE /\ filled' = 0
      /\ UNCHANGED <<left, buying, exposed, in, onHeld, avail, quote, qty, rounds, taken, now>>
  BY DEF StartBuying, Fits, OpenRoute, budget, group, sizing
<1>2. Spent' = Spent
  BY <1>1, SpentFrame
<1>3. route' \in Route
  BY <1>1 DEF Route
<1>4. price' \in Nat
  BY <1>1, <1>3, ChaseTypes DEF Inv, TypeOK
<1>5. TypeOK'
  BY <1>1, <1>3, <1>4 DEF Inv, TypeOK, Buying
<1>6. Funded' /\ Affords' /\ Balanced'
  BY <1>1, <1>2 DEF Inv, Funded, Affords, Balanced, Working
<1> QED BY <1>5, <1>6 DEF Inv

LEMMA RouteDoneInv ==
  ASSUME Inv, pc \in {"place", "wait", "cancel"}, RouteDone, taken' \in Int, now' \in Nat,
         UNCHANGED <<in, onHeld, avail, quote, qty, rounds>>
  PROVE  Inv'
<1>1. Spent' = Spent /\ Spent \in Nat /\ Spent <= avail /\ route \in Route
  BY SpentFrame, SizingTypes DEF Inv, Affords, Working, TypeOK, Buying
<1>2. CASE route = "ask"
  <2>1. /\ pc' = "group" /\ route' = None /\ left' = left - 1
        /\ buying' = Most(0, buying - Spent) /\ exposed' = exposed + Spent
        /\ price' = 0 /\ ticks' = 0 /\ live' = FALSE /\ filled' = 0
    BY <1>2 DEF RouteDone
  <2>2. /\ left \in Nat /\ left > 0 /\ buying \in Nat /\ exposed \in Nat /\ avail \in Nat
        /\ avail <= buying
    BY DEF Inv, TypeOK, Funded, Working
  <2>3. buying' = buying - Spent /\ buying' \in Nat /\ exposed' \in Nat /\ left' \in Nat
    BY <1>1, <2>1, <2>2 DEF Most
  <2>4. Balanced'
    <3>1. buying' = buying - Spent /\ exposed' = exposed + Spent
      BY <2>1, <2>3
    <3>2. \A x, y, z \in Int : (x - z) + (y + z) = x + y
      OBVIOUS
    <3>3. buying' + exposed' = buying + exposed
      BY <1>1, <2>2, <3>1, <3>2
    <3> QED BY <3>3 DEF Inv, Balanced
  <2>5. TypeOK'
    BY <2>1, <2>3 DEF Inv, TypeOK, Buying
  <2> QED BY <2>1, <2>4, <2>5 DEF Inv, Funded, Affords, Working
<1>3. CASE route # "ask"
  <2>1. /\ pc' = "place" /\ route' = After(route)
        /\ price' = StartPrice(quote, After(route)) /\ ticks' = 0
        /\ live' = FALSE /\ filled' = 0 /\ UNCHANGED <<left, buying, exposed>>
    BY <1>3 DEF RouteDone, OpenRoute, budget
  <2>2. After(route) \in Route
    BY <1>1, <1>3 DEF After, Route
  <2>3. price' \in Nat
    BY <2>1, <2>2, ChaseTypes DEF Inv, TypeOK
  <2>4. TypeOK'
    BY <2>1, <2>2, <2>3 DEF Inv, TypeOK, Buying
  <2>5. Funded' /\ Affords' /\ Balanced'
    BY <1>1, <2>1 DEF Inv, Funded, Affords, Balanced, Working
  <2> QED BY <2>4, <2>5 DEF Inv
<1> QED BY <1>2, <1>3

\* A step within a route: the phase, the price and the broker change.
LEMMA ChaseInv ==
  ASSUME Inv, pc \in {"place", "wait", "cancel"}, pc' \in {"place", "wait", "cancel"},
         UNCHANGED <<left, buying, exposed, in, onHeld, avail, quote, qty, rounds, route>>,
         price' \in Nat, ticks' \in Nat, live' \in BOOLEAN, filled' \in Nat,
         taken' \in Int, now' \in Nat
  PROVE  Inv'
<1>1. Spent' = Spent
  BY SpentFrame
<1> QED BY <1>1 DEF Inv, TypeOK, Funded, Affords, Balanced, Working, Buying

LEMMA NextPriceNat == ASSUME TypeOK, Buying PROVE NextPrice \in Nat
<1>1. /\ CeilingPrice(quote, route) \in Nat /\ price \in Nat
      /\ calculateDynamicTickSize(Midpoint(quote), CeilingPrice(quote, route)) \in Nat
  BY ChaseTypes DEF TypeOK
<1> QED BY <1>1 DEF NextPrice, Least

\* What a step at the broker leaves alone.
LEMMA BrokerFrame ==
  ASSUME UNCHANGED <<group, sizing>>
  PROVE  UNCHANGED <<in, onHeld, avail, quote, qty, rounds>>
  BY DEF group, sizing

LEMMA PlaceInv == ASSUME Inv, PlaceOrder PROVE Inv'
<1>1. /\ pc = "place" /\ taken' = taken + qty[route] /\ now' = now
      /\ route \in Route /\ taken' \in Int /\ now' \in Nat
      /\ UNCHANGED <<in, onHeld, avail, quote, qty, rounds>>
  BY BrokerFrame DEF PlaceOrder, Inv, TypeOK, Buying
<1>2. CASE ticks >= MaxTicks(quote, route)
  BY <1>1, <1>2, RouteDoneInv DEF PlaceOrder
<1>3. CASE ~(ticks >= MaxTicks(quote, route))
  <2>1. /\ pc' = "wait" /\ live' = TRUE /\ filled' = 0
        /\ UNCHANGED <<left, buying, exposed, route, price, ticks>>
    BY <1>3 DEF PlaceOrder, budget
  <2>2. price' \in Nat /\ ticks' \in Nat
    BY <2>1 DEF Inv, TypeOK
  <2> QED BY <1>1, <2>1, <2>2, ChaseInv
<1> QED BY <1>2, <1>3

LEMMA BesideInv == ASSUME Inv, Beside PROVE Inv'
<1>1. /\ pc = "place" /\ taken' = taken + qty[route] /\ now' = now
      /\ route \in Route /\ taken' \in Int /\ now' \in Nat
      /\ UNCHANGED <<in, onHeld, avail, quote, qty, rounds>>
  BY BrokerFrame DEF Beside, Inv, TypeOK, Buying
<1>2. CASE NextPrice = price
  BY <1>1, <1>2, RouteDoneInv DEF Beside
<1>3. CASE NextPrice # price
  <2>1. /\ price' = NextPrice /\ ticks' = ticks + 1
        /\ UNCHANGED <<pc, left, buying, exposed, route, live, filled>>
    BY <1>3 DEF Beside, budget
  <2>2. /\ price' \in Nat /\ ticks' \in Nat /\ live' \in BOOLEAN /\ filled' \in Nat
        /\ pc' \in {"place", "wait", "cancel"}
    BY <1>1, <2>1, NextPriceNat DEF Inv, TypeOK, Buying
  <2> QED BY <1>1, <2>1, <2>2, ChaseInv
<1> QED BY <1>2, <1>3

LEMMA EmptyInv == ASSUME Inv, EmptyRoute PROVE Inv'
<1>1. /\ pc = "place" /\ RouteDone /\ taken' \in Int /\ now' \in Nat
      /\ UNCHANGED <<in, onHeld, avail, quote, qty, rounds>>
  BY BrokerFrame DEF EmptyRoute, Inv, TypeOK
<1> QED BY <1>1, RouteDoneInv

LEMMA SeesInv == ASSUME Inv, SeesFill PROVE Inv'
<1>1. /\ pc = "wait" /\ RouteDone /\ taken' \in Int /\ now' \in Nat
      /\ UNCHANGED <<in, onHeld, avail, quote, qty, rounds>>
  BY BrokerFrame DEF SeesFill, Inv, TypeOK
<1> QED BY <1>1, RouteDoneInv

LEMMA RefusedInv == ASSUME Inv, CancelRefused PROVE Inv'
<1>1. /\ pc = "cancel" /\ RouteDone /\ taken' \in Int /\ now' \in Nat
      /\ UNCHANGED <<in, onHeld, avail, quote, qty, rounds>>
  BY BrokerFrame DEF CancelRefused, Inv, TypeOK
<1> QED BY <1>1, RouteDoneInv

LEMMA FillInv == ASSUME Inv, Fills PROVE Inv'
<1>1. /\ pc \in {"wait", "cancel"} /\ filled' = filled + 1
      /\ UNCHANGED <<pc, left, buying, exposed, in, onHeld, avail, quote, qty, rounds, route,
                     price, ticks, live, taken, now>>
  BY DEF Fills, budget, group, sizing
<1>2. /\ price' \in Nat /\ ticks' \in Nat /\ live' \in BOOLEAN /\ filled' \in Nat
      /\ taken' \in Int /\ now' \in Nat /\ pc' \in {"place", "wait", "cancel"}
  BY <1>1 DEF Inv, TypeOK
<1>3. pc \in {"place", "wait", "cancel"}
  BY <1>1
<1> QED BY <1>1, <1>2, <1>3, ChaseInv

LEMMA WaitInv == ASSUME Inv, WaitEnds PROVE Inv'
<1>1. /\ pc = "wait" /\ route \in Route /\ taken' = taken /\ now' = now + TickInterval(route)
      /\ UNCHANGED <<in, onHeld, avail, quote, qty, rounds>>
  BY BrokerFrame DEF WaitEnds, Inv, TypeOK, Buying
<1>2. taken' \in Int /\ now' \in Nat
  <2>1. TickInterval(route) \in Nat
    BY <1>1, ChaseTypes DEF Inv, TypeOK
  <2> QED BY <1>1, <2>1 DEF Inv, TypeOK
<1>3. CASE NextPrice = price
  BY <1>1, <1>2, <1>3, RouteDoneInv DEF WaitEnds
<1>4. CASE NextPrice # price
  <2>1. pc' = "cancel" /\ UNCHANGED <<left, buying, exposed, route, price, ticks, live, filled>>
    BY <1>4 DEF WaitEnds, budget, order
  <2>2. price' \in Nat /\ ticks' \in Nat /\ live' \in BOOLEAN /\ filled' \in Nat
    BY <2>1 DEF Inv, TypeOK
  <2> QED BY <1>1, <1>2, <2>1, <2>2, ChaseInv
<1> QED BY <1>3, <1>4

LEMMA CancelInv == ASSUME Inv, CancelAccepted PROVE Inv'
<1>1. /\ pc = "cancel" /\ pc' = "place" /\ route \in Route
      /\ taken' = taken - (qty[route] - filled)
      /\ price' = NextPrice /\ ticks' = ticks + 1 /\ live' = FALSE /\ filled' = 0
      /\ UNCHANGED <<left, buying, exposed, in, onHeld, avail, quote, qty, rounds, route, now>>
  BY DEF CancelAccepted, Inv, TypeOK, Buying, budget, group, sizing
<1>2. price' \in Nat
  BY <1>1, NextPriceNat DEF Inv, Buying
<1>3. taken' \in Int /\ now' \in Nat /\ ticks' \in Nat
  BY <1>1 DEF Inv, TypeOK
<1> QED BY <1>1, <1>2, <1>3, ChaseInv

LEMMA StepInv ==
  ASSUME NEW late, NEW lacking, Inv, Step(late, lacking) \/ UNCHANGED vars
  PROVE  Inv'
<1>1. CASE Skips
  <2>1. pc' = "group" /\ left' \in Nat
    BY <1>1 DEF Skips, Inv, TypeOK
  <2> QED BY <1>1, <2>1, IdleInv DEF Skips
<1>2. CASE OrderRefused
  <2>1. pc' = "aborted" /\ left' = left /\ left' \in Nat
    BY <1>2 DEF OrderRefused, Inv, TypeOK, budget
  <2> QED BY <1>2, <2>1, IdleInv DEF OrderRefused, budget
<1>3. CASE UNCHANGED vars
  <2>1. UNCHANGED <<pc, left, buying, exposed, in, onHeld, avail, quote, qty, rounds, route,
                   price, ticks, live, filled, taken, now>>
    BY <1>3 DEF vars, budget, group, sizing, order
  <2>2. Spent' = Spent
    BY <2>1, SpentFrame
  <2> QED BY <2>1, <2>2 DEF Inv, TypeOK, Funded, Affords, Balanced, Working, Buying
<1> QED BY <1>1, <1>2, <1>3, SizeInv, FloorInv, GiveInv, MoreInv, TrimInv, RetryInv, GiveUpInv,
           StartInv, EmptyInv, PlaceInv, BesideInv, FillInv, SeesInv, WaitInv, CancelInv,
           RefusedInv
    DEF Step

LEMMA NextInv == ASSUME Inv, [Next]_vars PROVE Inv'
BY NextIsStep, StepInv DEF Inv

LEMMA InvHolds == Spec => []Inv
<1>1. Inv /\ [Next]_vars => Inv'
  BY NextInv
<1> QED BY InitInv, <1>1, PTL DEF Spec

\* Every state of the buying half of a cycle is well formed, for every set of
\* groups, every weight and every quote (manageAllocationForGroup).
THEOREM TypeCorrect == Spec => []TypeOK
<1>1. Inv => TypeOK
  BY DEF Inv
<1> QED BY InvHolds, <1>1, PTL

LEMMA InvBalances == Inv => BudgetBalances
BY DEF Inv, Balanced, Affords, Funded, Working, BudgetBalances, Buying

LEMMA InvRespects == Inv => TargetRespected
<1> SUFFICES ASSUME Inv, Buying PROVE TargetRespected
  BY DEF TargetRespected
<1>1. /\ Spent \in Nat /\ avail \in Nat /\ exposed \in Nat /\ in.value \in Nat
      /\ Spent <= avail /\ in.value + avail <= MaxNotional
      /\ 10000 * (exposed + avail) <= TotalCapital * EffectiveTarget(in)
  BY SizingTypes DEF Inv, TypeOK, GroupInput, Affords, Funded, Working, Buying
<1>2. TotalCapital * EffectiveTarget(in) \in Int
  <2>1. EffectiveTarget(in) \in Int
    <3>1. /\ in.exposure \in Nat /\ in.maxExposure \in Nat /\ in.boost \in Nat
      BY DEF Inv, TypeOK, GroupInput
    <3> QED BY <3>1 DEF EffectiveTarget, Least
  <2> QED BY <2>1, Constants
<1>3. in.value + Spent <= MaxNotional
  BY <1>1, Constants
<1>4. 10000 * (exposed + Spent) <= TotalCapital * EffectiveTarget(in)
  <2> DEFINE k == TotalCapital * EffectiveTarget(in)
  <2> HIDE DEF k
  <2>1. k \in Int /\ 10000 * (exposed + avail) <= k
    BY <1>1, <1>2 DEF k
  <2>2. 10000 * (exposed + Spent) <= k
    BY <1>1, <2>1
  <2> QED BY <2>2 DEF k
<1> QED BY <1>3, <1>4 DEF TargetRespected

\* The groups of a cycle never commit more than the buying power it began with
\* (allocateContractsByWeight, getUpdatedBudgetAfterAllocation).
THEOREM BudgetIsKept == Spec => []BudgetBalances
BY InvHolds, InvBalances, PTL

\* Buying never takes the portfolio past the target of the group, nor the group
\* past its notional ceiling (the gates and availableCapital).
THEOREM TargetIsRespected == Spec => []TargetRespected
BY InvHolds, InvRespects, PTL

-----------------------------------------------------------------------------
(* The ceiling of contracts: what has been taken is what the routes before the
   current one were given, and the order that is working. *)

Before(r) ==
  CASE r = "bid" -> 0
    [] r = "mid" -> qty["bid"]
    [] r = "ask" -> qty["bid"] + qty["mid"]

Capped ==
  /\ pc \in {"floor", "greedy", "trim"} => taken = 0
  /\ pc \in Working => in.held + ContractHeadroom(in) <= MaxContracts
  /\ pc \in {"place", "wait", "cancel"} => Total <= ContractHeadroom(in)
  /\ pc = "place" => taken = Before(route)
  /\ pc \in {"wait", "cancel"} => taken = Before(route) + qty[route]
  /\ pc = "cancel" => filled = 0
  /\ GroupWithinCap

LEMMA BeforeTypes ==
  ASSUME TypeOK, route \in Route
  PROVE  /\ Before(route) \in Nat /\ qty[route] \in Nat /\ Total \in Nat
         /\ Before(route) + qty[route] <= Total
         /\ route = "ask" => Before(route) + qty[route] = Total
         /\ route # "ask" => Before(After(route)) = Before(route) + qty[route]
  BY DEF TypeOK, Route, Before, After, Total, Sum

LEMMA HeadroomTypes ==
  ASSUME TypeOK
  PROVE  ContractHeadroom(in) \in Nat /\ in.held \in Nat /\ MaxContracts \in Nat
  BY Constants DEF TypeOK, GroupInput, ContractHeadroom, Most

LEMMA CapFrame ==
  ASSUME UNCHANGED <<in, qty>>
  PROVE  ContractHeadroom(in)' = ContractHeadroom(in) /\ Total' = Total
         /\ \A r : Before(r)' = Before(r)
  BY DEF ContractHeadroom, Total, Sum, Before

LEMMA RouteDoneCapped ==
  ASSUME Inv, Capped, pc \in {"place", "wait", "cancel"}, RouteDone,
         taken' = Before(route) + qty[route], UNCHANGED <<in, qty>>
  PROVE  Capped'
<1>1. /\ TypeOK /\ route \in Route
      /\ in.held + ContractHeadroom(in) <= MaxContracts /\ Total <= ContractHeadroom(in)
  BY DEF Inv, TypeOK, Buying, Capped, Working
<1>2. in.held + taken' <= MaxContracts
  BY <1>1, BeforeTypes, HeadroomTypes
<1>3. CASE route = "ask"
  <2>1. pc' = "group"
    BY <1>3 DEF RouteDone
  <2> QED BY <1>2, <2>1 DEF Capped, GroupWithinCap, Working
<1>4. CASE route # "ask"
  <2>1. pc' = "place" /\ route' = After(route)
    BY <1>4 DEF RouteDone, OpenRoute
  <2>2. taken' = Before(After(route))
    BY <1>1, <1>4, BeforeTypes
  <2>3. taken' = Before(route)'
    BY <2>1, <2>2 DEF Before
  <2> QED BY <1>1, <1>2, <2>1, <2>3, CapFrame DEF Capped, GroupWithinCap, Working
<1> QED BY <1>3, <1>4

LEMMA ServeCapped ==
  ASSUME Inv, Capped, Grants \/ FloorShares \/ GiveOneMore \/ NothingMore \/ TrimOne
                      \/ Retries \/ StartBuying
  PROVE  Capped'
<1>1. CASE Grants
  <2>1. PICK g \in Inputs : g.held + ContractHeadroom(g) <= MaxContracts /\ in' = g
    BY <1>1 DEF Grants, Grantable
  <2>4. ContractHeadroom(in)' = ContractHeadroom(g)
    BY <2>1 DEF ContractHeadroom
  <2>5. pc' = "floor" /\ taken' = 0
    BY <1>1 DEF Grants
  <2> QED BY <2>1, <2>4, <2>5 DEF Capped, GroupWithinCap, Working
<1>2. CASE FloorShares \/ GiveOneMore \/ NothingMore \/ TrimOne \/ Retries
  <2>1. /\ pc \in {"floor", "greedy", "trim"} /\ pc' \in {"floor", "greedy", "trim"}
        /\ in' = in /\ taken' = taken
    BY <1>2 DEF FloorShares, GiveOneMore, NothingMore, TrimOne, Retries, Fits, group
  <2>2. ContractHeadroom(in)' = ContractHeadroom(in)
    BY <2>1 DEF ContractHeadroom
  <2> QED BY <2>1, <2>2 DEF Capped, GroupWithinCap, Working
<1>3. CASE StartBuying
  <2>1. /\ pc = "trim" /\ Total <= ContractHeadroom(in) /\ pc' = "place" /\ route' = "bid"
        /\ UNCHANGED <<in, qty, taken>>
    BY <1>3 DEF StartBuying, Fits, OpenRoute, group, sizing
  <2>2. Before(route)' = 0
    BY <2>1 DEF Before
  <2> QED BY <2>1, <2>2, CapFrame DEF Capped, GroupWithinCap, Working
<1> QED BY <1>1, <1>2, <1>3

LEMMA BuyCapped ==
  ASSUME Inv, Capped,
         EmptyRoute \/ PlaceOrder \/ (Fills /\ pc = "wait") \/ SeesFill \/ WaitEnds
         \/ CancelAccepted \/ CancelRefused
  PROVE  Capped'
<1>1. /\ pc \in {"place", "wait", "cancel"} /\ UNCHANGED <<in, qty>> /\ TypeOK
      /\ route \in Route
      /\ in.held + ContractHeadroom(in) <= MaxContracts /\ Total <= ContractHeadroom(in)
  BY DEF EmptyRoute, PlaceOrder, Fills, SeesFill, WaitEnds, CancelAccepted,
         CancelRefused, Inv, TypeOK, Buying, Capped, Working, group, sizing
<1>2. /\ Before(route) \in Nat /\ qty[route] \in Nat /\ Total \in Nat
      /\ in.held + (Before(route) + qty[route]) <= MaxContracts
      /\ in.held + Before(route) <= MaxContracts
  BY <1>1, BeforeTypes, HeadroomTypes
<1>3. CASE EmptyRoute
  <2>1. pc = "place" /\ qty[route] = 0 /\ RouteDone /\ taken' = taken
    BY <1>3 DEF EmptyRoute
  <2>2. taken' = Before(route) + qty[route]
    BY <1>2, <2>1 DEF Capped
  <2> QED BY <1>1, <2>1, <2>2, RouteDoneCapped
<1>4. CASE PlaceOrder
  <2>1. pc = "place" /\ taken' = Before(route) + qty[route]
    BY <1>4 DEF PlaceOrder, Capped
  <2>2. CASE ticks >= MaxTicks(quote, route)
    BY <1>1, <1>4, <2>1, <2>2, RouteDoneCapped DEF PlaceOrder
  <2>3. CASE ~(ticks >= MaxTicks(quote, route))
    <3>1. pc' = "wait" /\ route' = route
      BY <1>4, <2>3 DEF PlaceOrder
    <3>2. Before(route)' = Before(route) /\ (qty[route])' = qty[route]
      BY <1>1, <3>1 DEF Before
    <3> QED BY <1>1, <1>2, <2>1, <3>1, <3>2, CapFrame DEF Capped, GroupWithinCap, Working
  <2> QED BY <2>2, <2>3
<1>5. CASE Fills /\ pc = "wait"
  <2>1. /\ pc = "wait" /\ UNCHANGED <<pc, route, taken>>
    BY <1>5 DEF Fills
  <2>2. Before(route)' = Before(route) /\ (qty[route])' = qty[route]
    BY <1>1, <2>1 DEF Before
  <2> QED BY <1>1, <2>1, <2>2, CapFrame DEF Capped, GroupWithinCap, Working
<1>6. CASE SeesFill
  <2>1. pc = "wait" /\ RouteDone /\ taken' = Before(route) + qty[route]
    BY <1>6 DEF SeesFill, Capped
  <2> QED BY <1>1, <2>1, RouteDoneCapped
<1>7. CASE WaitEnds
  <2>1. pc = "wait" /\ filled = 0 /\ taken' = taken /\ taken = Before(route) + qty[route]
    BY <1>7 DEF WaitEnds, Capped
  <2>2. CASE NextPrice = price
    BY <1>1, <1>7, <2>1, <2>2, RouteDoneCapped DEF WaitEnds
  <2>3. CASE NextPrice # price
    <3>1. pc' = "cancel" /\ UNCHANGED <<route, filled>>
      BY <1>7, <2>3 DEF WaitEnds, order
    <3>2. Before(route)' = Before(route) /\ (qty[route])' = qty[route]
      BY <1>1, <3>1 DEF Before
    <3> QED BY <1>1, <1>2, <2>1, <3>1, <3>2, CapFrame DEF Capped, GroupWithinCap, Working
  <2> QED BY <2>2, <2>3
<1>8. CASE CancelAccepted
  <2>1. /\ pc = "cancel" /\ pc' = "place" /\ route' = route
        /\ taken' = taken - (qty[route] - filled)
        /\ filled = 0 /\ taken = Before(route) + qty[route]
    BY <1>8 DEF CancelAccepted, Capped
  <2>2. taken' = Before(route)
    BY <1>2, <2>1
  <2>3. Before(route)' = Before(route)
    BY <1>1, <2>1 DEF Before
  <2> QED BY <1>1, <1>2, <2>1, <2>2, <2>3, CapFrame DEF Capped, GroupWithinCap, Working
<1>9. CASE CancelRefused
  <2>1. pc = "cancel" /\ RouteDone /\ taken' = Before(route) + qty[route]
    BY <1>9 DEF CancelRefused, Capped
  <2> QED BY <1>1, <2>1, RouteDoneCapped
<1> QED BY <1>3, <1>4, <1>5, <1>6, <1>7, <1>8, <1>9

LEMMA RestCapped ==
  ASSUME Inv, Capped, Skips \/ GivesUp \/ OrderRefused \/ UNCHANGED vars
  PROVE  Capped'
<1>1. CASE Skips \/ GivesUp \/ OrderRefused
  <2>1. pc' \in {"group", "aborted"} /\ UNCHANGED <<in, taken>>
    BY <1>1 DEF Skips, GivesUp, OrderRefused, group
  <2> QED BY <2>1 DEF Capped, GroupWithinCap, Working
<1>2. CASE UNCHANGED vars
  <2>1. UNCHANGED <<pc, in, qty, route, filled, taken>>
    BY <1>2 DEF vars, group, sizing, order
  <2>2. Before(route)' = Before(route) /\ (qty[route])' = qty[route]
    BY <2>1 DEF Before
  <2> QED BY <2>1, <2>2, CapFrame DEF Capped, GroupWithinCap, Working
<1> QED BY <1>1, <1>2

LEMMA StepCapped ==
  ASSUME Inv, Capped, Step(FALSE, FALSE) \/ UNCHANGED vars
  PROVE  Capped'
BY ServeCapped, BuyCapped, RestCapped DEF Step

\* Where a poll follows every fill and every answer names its order, a group
\* never holds more contracts than STRATEGY_MAX_UNDERLYING_CONTRACTS, with all
\* that still may fill counted (chaseRouteOrderFill, the headroom and the clamp).
THEOREM CapIsKept ==
  ASSUME ~LateFills, ~AnswersLackId
  PROVE  Spec => []GroupWithinCap
<1>1. Init => Inv /\ Capped
  <2>1. Init => Capped
    BY DEF Init, Capped, GroupWithinCap, Working
  <2> QED BY <2>1, InitInv
<1>2. (Inv /\ Capped) /\ [Next]_vars => (Inv /\ Capped)'
  <2>1. Inv /\ [Next]_vars => Step(FALSE, FALSE) \/ UNCHANGED vars
    BY NextIsStep DEF Step, Inv
  <2> QED BY <2>1, StepCapped, NextInv
<1>3. Inv /\ Capped => GroupWithinCap
  BY DEF Capped
<1> QED BY <1>1, <1>2, <1>3, PTL DEF Spec

-----------------------------------------------------------------------------
(* The cutoff: the groups still to be served need no more time than is left. *)

Rungs(r) == CASE r = "bid" -> 0 [] r = "mid" -> MidTicks [] r = "ask" -> AskTicks

\* The longest a group's chases may take, and what is left of it on the n-th rung
\* of a route.
ChaseTime == MidTicks * MidWait + AskTicks * AskWait

RouteTime(r, n) ==
  CASE r = "bid" -> ChaseTime
    [] r = "mid" -> (MidTicks - n) * MidWait + AskTicks * AskWait
    [] r = "ask" -> (AskTicks - n) * AskWait

LastOrder == Evaluated + CloseTime + Groups * ChaseTime

RungAhead == IF pc = "cancel" THEN ticks + 1 ELSE ticks

TimeInv ==
  /\ pc \in {"group", "floor", "greedy", "trim"} => now + left * ChaseTime <= LastOrder
  /\ Buying => /\ RungAhead <= Rungs(route) /\ (pc = "wait" => ticks < Rungs(route))
               /\ now + (left - 1) * ChaseTime + RouteTime(route, RungAhead) <= LastOrder
  /\ pc \in Working => Account = "unknown" \/ ~isTooCloseToAccumulationCutoff

LEMMA TimeFacts ==
  /\ ChaseTime \in Nat /\ LastOrder \in Nat
  /\ \A m \in Int : m * ChaseTime \in Int /\ (m - 1) * ChaseTime = m * ChaseTime - ChaseTime
  /\ \A m \in Nat : m * ChaseTime \in Nat
  /\ \A r \in Route : Rungs(r) \in Nat /\ TickInterval(r) \in Nat
  /\ \A q \in Quote, r \in Route : MaxTicks(q, r) <= Rungs(r)
<1>1. ChaseTime \in Nat
  BY ProductNat, Constants DEF ChaseTime
<1>2. \A m \in Int : m * ChaseTime \in Int /\ (m - 1) * ChaseTime = m * ChaseTime - ChaseTime
  <2> DEFINE c == ChaseTime
  <2>1. c \in Int
    BY <1>1
  <2> HIDE DEF c
  <2>2. \A m \in Int : m * c \in Int /\ (m - 1) * c = m * c - c
    BY <2>1
  <2> QED BY <2>2 DEF c
<1>3. \A m \in Nat : m * ChaseTime \in Nat
  BY <1>1, ProductNat
<1>4. LastOrder \in Nat
  BY <1>1, <1>3, Constants DEF LastOrder
<1>5. \A q \in Quote, r \in Route : MaxTicks(q, r) <= Rungs(r)
  BY Constants DEF MaxTicks, Rungs, Route
<1> QED BY <1>1, <1>2, <1>3, <1>4, <1>5, Constants DEF Rungs, Route, TickInterval

\* A rung less is its wait less; the last rung of a route leaves the next route's.
LEMMA RouteTimes ==
  ASSUME NEW r \in Route, NEW n \in Nat, n <= Rungs(r)
  PROVE  /\ RouteTime(r, n) \in Nat
         /\ n < Rungs(r) => RouteTime(r, n + 1) + TickInterval(r) = RouteTime(r, n)
         /\ r # "ask" => RouteTime(After(r), 0) <= RouteTime(r, n)
         /\ RouteTime("bid", 0) = ChaseTime
<1>1. \A m, w \in Nat : n <= m => (m - n) * w \in Nat /\ (m - 0) * w = m * w
  OBVIOUS
<1>2. \A m, w \in Nat : n < m => (m - (n + 1)) * w + w = (m - n) * w
  OBVIOUS
<1>3. /\ MidTicks \in Nat /\ MidWait \in Nat /\ AskTicks \in Nat /\ AskWait \in Nat
      /\ MidTicks * MidWait \in Nat /\ AskTicks * AskWait \in Nat
  BY Constants, ProductNat
<1>4. CASE r = "bid"
  <2>1. RouteTime(r, n) = ChaseTime /\ Rungs(r) = 0
    BY <1>4 DEF RouteTime, Rungs
  <2>2. RouteTime("mid", 0) = (MidTicks - 0) * MidWait + AskTicks * AskWait
    BY DEF RouteTime
  <2>3. (MidTicks - 0) * MidWait = MidTicks * MidWait
    BY <1>3
  <2>4. RouteTime("mid", 0) = ChaseTime
    BY <2>2, <2>3 DEF ChaseTime
  <2>5. ChaseTime \in Nat
    BY TimeFacts
  <2> QED BY <1>4, <2>1, <2>4, <2>5 DEF After, RouteTime
<1>5. CASE r = "mid"
  <2>1. /\ Rungs(r) = MidTicks /\ TickInterval(r) = MidWait /\ After(r) = "ask"
        /\ \A k \in Nat : RouteTime(r, k) = (MidTicks - k) * MidWait + AskTicks * AskWait
    BY <1>5 DEF RouteTime, Rungs, TickInterval, After
  <2>2. RouteTime("ask", 0) = AskTicks * AskWait
    <3>1. RouteTime("ask", 0) = (AskTicks - 0) * AskWait
      BY DEF RouteTime
    <3> QED BY <1>3, <3>1
  <2>3. (MidTicks - n) * MidWait \in Nat
    BY <1>1, <1>3, <2>1
  <2>4. n < MidTicks => (MidTicks - (n + 1)) * MidWait + MidWait = (MidTicks - n) * MidWait
                        /\ (MidTicks - (n + 1)) * MidWait \in Int
    BY <1>2, <1>3
  <2>5. RouteTime("bid", 0) = ChaseTime
    BY DEF RouteTime
  <2>6. n + 1 \in Nat
    OBVIOUS
  <2> DEFINE x == (MidTicks - n) * MidWait
             y == (MidTicks - (n + 1)) * MidWait
             z == AskTicks * AskWait
  <2>7. RouteTime(r, n) = x + z /\ RouteTime(r, n + 1) = y + z
    BY <2>1, <2>6
  <2> HIDE DEF x, y, z
  <2>8. x \in Nat /\ z \in Nat /\ (n < MidTicks => y + MidWait = x /\ y \in Int)
        /\ RouteTime("ask", 0) = z
    BY <1>3, <2>2, <2>3, <2>4 DEF x, y, z
  <2> QED BY <1>3, <1>5, <2>1, <2>5, <2>7, <2>8
<1>6. CASE r = "ask"
  <2>1. /\ Rungs(r) = AskTicks /\ TickInterval(r) = AskWait
        /\ \A k \in Nat : RouteTime(r, k) = (AskTicks - k) * AskWait
    BY <1>6 DEF RouteTime, Rungs, TickInterval
  <2>2. n < AskTicks => (AskTicks - (n + 1)) * AskWait + AskWait = (AskTicks - n) * AskWait
    BY <1>2, <1>3
  <2>3. (AskTicks - n) * AskWait \in Nat
    BY <1>1, <1>3, <2>1
  <2>4. RouteTime("bid", 0) = ChaseTime
    BY DEF RouteTime
  <2>5. n + 1 \in Nat
    OBVIOUS
  <2> QED BY <1>6, <2>1, <2>2, <2>3, <2>4, <2>5
<1> QED BY <1>4, <1>5, <1>6 DEF Route

LEMMA TimeInit == Init => TimeInv
<1> SUFFICES ASSUME Init PROVE TimeInv
  OBVIOUS
<1>1. pc = "group" /\ left = Groups /\ now <= Evaluated + CloseTime /\ now \in Nat
  BY Constants DEF Init
<1>2. Groups * ChaseTime \in Nat
  BY TimeFacts, Constants
<1>3. now + left * ChaseTime <= LastOrder
  BY <1>1, <1>2, Constants DEF LastOrder
<1> QED BY <1>1, <1>3 DEF TimeInv, Buying, Working

\* The route ends while its time is not used up.
LEMMA RouteDoneInTime ==
  ASSUME TypeOK, TimeInv, left > 0, Buying, RouteDone, NEW n \in Nat, n <= Rungs(route),
         now' \in Nat, now' + (left - 1) * ChaseTime + RouteTime(route, n) <= LastOrder
  PROVE  TimeInv'
<1>1. /\ route \in Route /\ left \in Nat /\ (left - 1) * ChaseTime \in Int
      /\ LastOrder \in Nat
  BY TimeFacts DEF TypeOK
<1>2. RouteTime(route, n) \in Nat
      /\ (route # "ask" => RouteTime(After(route), 0) <= RouteTime(route, n))
  BY <1>1, RouteTimes
<1>3. Account = "unknown" \/ ~isTooCloseToAccumulationCutoff
  BY DEF TimeInv, Buying, Working
<1>4. CASE route = "ask"
  <2>1. pc' = "group" /\ left' = left - 1
    BY <1>4 DEF RouteDone
  <2>2. now' + left' * ChaseTime <= LastOrder
    BY <1>1, <1>2, <2>1
  <2> QED BY <2>1, <2>2 DEF TimeInv, Buying, Working
<1>5. CASE route # "ask"
  <2>1. pc' = "place" /\ route' = After(route) /\ ticks' = 0 /\ left' = left
    BY <1>5 DEF RouteDone, OpenRoute, budget
  <2>2. After(route) \in Route
    BY <1>1, <1>5 DEF After, Route
  <2>3. RouteTime(After(route), 0) \in Nat /\ 0 <= Rungs(After(route))
    BY <2>2, RouteTimes, TimeFacts
  <2>4. now' + (left' - 1) * ChaseTime + RouteTime(route', 0) <= LastOrder
    BY <1>1, <1>2, <1>5, <2>1, <2>3
  <2>5. RungAhead' = 0
    BY <2>1 DEF RungAhead
  <2> QED BY <1>3, <2>1, <2>3, <2>4, <2>5 DEF TimeInv, Buying, Working
<1> QED BY <1>4, <1>5

LEMMA TimeStep == ASSUME Inv, TimeInv, [Next]_vars PROVE TimeInv'
<1>1. TypeOK /\ (pc \in Working => left > 0)
  BY DEF Inv, Funded
<1>2. /\ left \in Nat /\ now \in Nat /\ ticks \in Nat /\ route \in Route \cup {None}
      /\ (Buying => route \in Route) /\ LastOrder \in Nat /\ ChaseTime \in Nat
      /\ left * ChaseTime \in Int /\ (left - 1) * ChaseTime = left * ChaseTime - ChaseTime
  BY <1>1, TimeFacts DEF TypeOK
<1>3. CASE SkipGroup \/ GiveUp
  <2>1. /\ pc' = "group" /\ left' = left - 1 /\ now' = now
        /\ pc \in {"group", "floor", "greedy", "trim"}
    BY <1>3 DEF SkipGroup, GiveUp, Fits
  <2>2. now' + left' * ChaseTime <= LastOrder
    BY <1>2, <2>1 DEF TimeInv
  <2> QED BY <2>1, <2>2 DEF TimeInv, Buying, Working
<1>4. CASE SizeGroup
  <2>1. /\ pc = "group" /\ pc' = "floor" /\ left' = left /\ now' = now
        /\ \E g \in Inputs : ~Skipped(g)
    BY <1>4 DEF SizeGroup, budget
  <2>2. Account = "unknown" \/ ~isTooCloseToAccumulationCutoff
    BY <2>1 DEF Skipped
  <2> QED BY <2>1, <2>2 DEF TimeInv, Buying, Working
<1>5. CASE FloorShares \/ GiveOneMore \/ NothingMore \/ TrimOne \/ RetryOnHeld
  <2>1. /\ pc \in {"floor", "greedy", "trim"} /\ pc' \in {"floor", "greedy", "trim"}
        /\ left' = left /\ now' = now
    BY <1>5 DEF FloorShares, GiveOneMore, NothingMore, TrimOne, RetryOnHeld, Fits, budget
  <2> QED BY <2>1 DEF TimeInv, Buying, Working
<1>6. CASE StartBuying
  <2>1. /\ pc = "trim" /\ pc' = "place" /\ route' = "bid" /\ ticks' = 0
        /\ left' = left /\ now' = now
    BY <1>6 DEF StartBuying, Fits, OpenRoute, budget
  <2>2. RouteTime("bid", 0) = ChaseTime /\ Rungs("bid") \in Nat
    BY RouteTimes, TimeFacts DEF Route
  <2>3. now' + (left' - 1) * ChaseTime + RouteTime(route', 0) <= LastOrder
    BY <1>2, <2>1, <2>2 DEF TimeInv
  <2>4. RungAhead' = 0
    BY <2>1 DEF RungAhead
  <2> QED BY <2>1, <2>2, <2>3, <2>4 DEF TimeInv, Buying, Working
<1>7. ASSUME Buying
      PROVE  /\ route \in Route /\ RungAhead \in Nat /\ RungAhead <= Rungs(route)
             /\ now + (left - 1) * ChaseTime + RouteTime(route, RungAhead) <= LastOrder
             /\ left > 0
  BY <1>1, <1>2, <1>7 DEF TimeInv, RungAhead, Buying, Working
<1>8. CASE EmptyRoute \/ SeesFill \/ CancelRefused
  <2>1. Buying /\ RouteDone /\ now' = now
    BY <1>8 DEF EmptyRoute, SeesFill, CancelRefused, Buying
  <2> QED BY <1>1, <1>2, <1>7, <2>1, RouteDoneInTime
<1>9. CASE PlaceOrder
  <2>1. pc = "place" /\ Buying /\ now' = now
    BY <1>9 DEF PlaceOrder, Buying
  <2>2. CASE ticks >= MaxTicks(quote, route)
    BY <1>1, <1>2, <1>7, <1>9, <2>1, <2>2, RouteDoneInTime DEF PlaceOrder
  <2>3. CASE ~(ticks >= MaxTicks(quote, route))
    <3>1. pc' = "wait" /\ UNCHANGED <<left, route, ticks>>
      BY <1>9, <2>3 DEF PlaceOrder, budget
    <3>2. MaxTicks(quote, route) \in Int /\ MaxTicks(quote, route) <= Rungs(route)
          /\ Rungs(route) \in Nat
      BY <1>1, <1>7, <2>1, TimeFacts, Constants DEF TypeOK, MaxTicks, Route
    <3>3. ticks < Rungs(route)
      BY <1>2, <2>3, <3>2
    <3>4. RungAhead' = RungAhead
      BY <2>1, <3>1 DEF RungAhead
    <3> QED BY <1>7, <2>1, <3>1, <3>3, <3>4 DEF TimeInv, Buying, Working
  <2> QED BY <2>2, <2>3
<1>10. CASE PlaceBeside
  <2>1. pc = "place" /\ Buying /\ now' = now /\ ticks < MaxTicks(quote, route)
    BY <1>10 DEF PlaceBeside, Buying
  <2>2. CASE NextPrice = price
    BY <1>1, <1>2, <1>7, <1>10, <2>1, <2>2, RouteDoneInTime DEF PlaceBeside
  <2>3. CASE NextPrice # price
    <3>1. pc' = pc /\ left' = left /\ route' = route /\ ticks' = ticks + 1
      BY <1>10, <2>3 DEF PlaceBeside, budget
    <3>2. MaxTicks(quote, route) \in Int /\ MaxTicks(quote, route) <= Rungs(route)
          /\ Rungs(route) \in Nat /\ TickInterval(route) \in Nat
      BY <1>1, <1>7, <2>1, TimeFacts, Constants DEF TypeOK, MaxTicks, Route
    <3>3. RungAhead = ticks /\ RungAhead' = ticks + 1 /\ ticks < Rungs(route)
      BY <1>2, <2>1, <3>1, <3>2 DEF RungAhead
    <3>4. /\ RouteTime(route, ticks + 1) \in Nat /\ RouteTime(route, ticks) \in Nat
          /\ RouteTime(route, ticks + 1) + TickInterval(route) = RouteTime(route, ticks)
      BY <1>2, <1>7, <2>1, <3>2, <3>3, RouteTimes
    <3>5. now' + (left' - 1) * ChaseTime + RouteTime(route', RungAhead') <= LastOrder
      BY <1>2, <1>7, <2>1, <3>1, <3>2, <3>3, <3>4
    <3> QED BY <1>2, <2>1, <3>1, <3>2, <3>3, <3>5 DEF TimeInv, Buying, Working
  <2> QED BY <2>2, <2>3
<1>11. CASE WaitEnds
  <2>1. pc = "wait" /\ Buying /\ now' = now + TickInterval(route) /\ RungAhead = ticks
        /\ ticks < Rungs(route)
    BY <1>11 DEF WaitEnds, Buying, RungAhead, TimeInv
  <2>2. Rungs(route) \in Nat /\ TickInterval(route) \in Nat
    BY <1>7, <2>1, TimeFacts
  <2>3. /\ RouteTime(route, ticks + 1) \in Nat /\ RouteTime(route, ticks) \in Nat
        /\ RouteTime(route, ticks + 1) + TickInterval(route) = RouteTime(route, ticks)
        /\ ticks + 1 \in Nat /\ ticks + 1 <= Rungs(route)
    BY <1>2, <1>7, <2>1, <2>2, RouteTimes
  <2>4. now' \in Nat /\ now' + (left - 1) * ChaseTime + RouteTime(route, ticks + 1) <= LastOrder
    BY <1>2, <1>7, <2>1, <2>2, <2>3
  <2>5. CASE NextPrice = price
    BY <1>1, <1>7, <1>11, <2>1, <2>3, <2>4, <2>5, RouteDoneInTime DEF WaitEnds
  <2>6. CASE NextPrice # price
    <3>1. pc' = "cancel" /\ UNCHANGED <<left, route, ticks>>
      BY <1>11, <2>6 DEF WaitEnds, budget, order
    <3>2. RungAhead' = ticks + 1
      BY <3>1 DEF RungAhead
    <3> QED BY <2>1, <2>3, <2>4, <3>1, <3>2 DEF TimeInv, Buying, Working
  <2> QED BY <2>5, <2>6
<1>12. CASE CancelAccepted
  <2>1. /\ pc = "cancel" /\ pc' = "place" /\ ticks' = ticks + 1 /\ UNCHANGED <<left, route,
           now>>
    BY <1>12 DEF CancelAccepted, budget
  <2>2. RungAhead' = RungAhead /\ Buying
    BY <2>1 DEF RungAhead, Buying
  <2> QED BY <1>7, <2>1, <2>2 DEF TimeInv, Buying, Working
<1>13. CASE BrokerFills \/ Done \/ UNCHANGED vars
  <2>1. UNCHANGED <<pc, left, route, ticks, now>>
    BY <1>13 DEF BrokerFills, Done, vars, budget, order
  <2>2. RungAhead' = RungAhead
    BY <2>1 DEF RungAhead
  <2> QED BY <2>1, <2>2 DEF TimeInv, Buying, Working
<1>14. CASE OrderRefused
  BY <1>14 DEF OrderRefused, TimeInv, Buying, Working
<1> QED
  BY <1>3, <1>4, <1>5, <1>6, <1>8, <1>9, <1>10, <1>11, <1>12, <1>13, <1>14 DEF Next

LEMMA InTime ==
  ASSUME CloseTime + Groups * ChaseTime <= 2 * RunInterval, Inv, TimeInv
  PROVE  BuysBeforeCutoff
<1> SUFFICES ASSUME pc = "place", Account # "unknown" PROVE now <= Cutoff
  BY DEF BuysBeforeCutoff
<1>1. Buying /\ TypeOK /\ left > 0 /\ ~(Evaluated > Cutoff - 2 * RunInterval)
  BY DEF Inv, Funded, TimeInv, Buying, Working, isTooCloseToAccumulationCutoff
<1>2. /\ now \in Nat /\ left \in Nat /\ left - 1 \in Nat /\ (left - 1) * ChaseTime \in Nat
      /\ Groups * ChaseTime \in Nat /\ route \in Route /\ ticks \in Nat
  BY <1>1, TimeFacts, Constants DEF TypeOK
<1>3. RungAhead = ticks /\ RouteTime(route, ticks) \in Nat
  BY <1>1, <1>2, RouteTimes DEF TimeInv, RungAhead
<1>4. now <= LastOrder
  BY <1>1, <1>2, <1>3, TimeFacts DEF TimeInv
<1> QED BY <1>1, <1>2, <1>4, Constants DEF LastOrder

\* The guard looks two intervals ahead, and that is enough for every group whose
\* chases, with the closes before, fit into two intervals: no order is placed past the
\* cutoff, although the clock is not read again (isTooCloseToAccumulationCutoff).
THEOREM OrdersKeepTheCutoff ==
  ASSUME CloseTime + Groups * ChaseTime <= 2 * RunInterval
  PROVE  Spec => []BuysBeforeCutoff
<1>1. Init => Inv /\ TimeInv
  BY InitInv, TimeInit
<1>2. (Inv /\ TimeInv) /\ [Next]_vars => (Inv /\ TimeInv)'
  BY NextInv, TimeStep
<1>3. Inv /\ TimeInv => BuysBeforeCutoff
  BY InTime
<1> QED BY <1>1, <1>2, <1>3, PTL DEF Spec

-----------------------------------------------------------------------------
(* The worlds the run checks: what does not depend on their constants. *)

LEMMA CashOperators ==
  /\ Cash!Route = Route /\ Cash!Zero = Zero /\ Cash!None = None /\ Cash!Spent = Spent
  /\ (Cash!Fits <=> Fits) /\ (Cash!RouteDone <=> RouteDone)
       /\ (Cash!OpenRoute("bid") <=> OpenRoute("bid"))
  /\ Cash!NextPrice = NextPrice
  /\ \A q, r : Cash!MaxTicks(q, r) = MaxTicks(q, r) /\ Cash!TickInterval(r) = TickInterval(r)
  /\ \A g : /\ Cash!EffectiveTarget(g) = EffectiveTarget(g)
            /\ Cash!ExposureHeadroom(g) = ExposureHeadroom(g)
            /\ Cash!ContractHeadroom(g) = ContractHeadroom(g)
            /\ Cash!NotionalHeadroom(g) = NotionalHeadroom(g)
  /\ (Cash!FloorShares <=> FloorShares) /\ (Cash!GiveOneMore <=> GiveOneMore)
  /\ (Cash!NothingMore <=> NothingMore) /\ (Cash!TrimOne <=> TrimOne)
<1> USE DEF Cash!Route, Route, Cash!Zero, Zero, Cash!None, None, Cash!budget, budget,
    Cash!group, group,
            Cash!sizing, sizing, Cash!order, order, Cash!Least, Least, Cash!Most, Most,
            Cash!Sum, Sum
<1> USE DEF Cash!Midpoint, Midpoint, Cash!LimitPrice, LimitPrice, Cash!Cost, Cost, Cash!Est, Est
<1>1. Cash!Spent = Spent
  BY DEF Cash!Spent, Spent
<1>2. \A g : /\ Cash!EffectiveTarget(g) = EffectiveTarget(g)
             /\ Cash!ExposureHeadroom(g) = ExposureHeadroom(g)
             /\ Cash!ContractHeadroom(g) = ContractHeadroom(g)
             /\ Cash!NotionalHeadroom(g) = NotionalHeadroom(g)
  BY DEF Cash!EffectiveTarget, EffectiveTarget, Cash!ExposureHeadroom, ExposureHeadroom,
         Cash!ContractHeadroom, ContractHeadroom, Cash!NotionalHeadroom, NotionalHeadroom
<1>3. Cash!Fits <=> Fits
  BY DEF Cash!Fits, Fits, Cash!Total, Total, Cash!ContractHeadroom, ContractHeadroom
<1>4. \A r : Cash!OpenRoute(r) <=> OpenRoute(r)
  BY DEF Cash!OpenRoute, OpenRoute, Cash!StartPrice, StartPrice, Cash!TightSpread, TightSpread,
         Cash!Ceiling, Ceiling, Cash!MinTick, MinTick
<1>5. Cash!RouteDone <=> RouteDone
  BY <1>1, <1>4 DEF Cash!RouteDone, RouteDone, Cash!After, After
<1>6. Cash!NextPrice = NextPrice
  BY DEF Cash!NextPrice, NextPrice, Cash!CeilingPrice, CeilingPrice, Cash!Ceiling, Ceiling,
         Cash!calculateDynamicTickSize, calculateDynamicTickSize, Cash!MinTick, MinTick
<1>7. \A q, r : Cash!MaxTicks(q, r) = MaxTicks(q, r) /\ Cash!TickInterval(r) = TickInterval(r)
  BY DEF Cash!MaxTicks, MaxTicks, Cash!TightSpread, TightSpread, Cash!Ceiling, Ceiling,
         Cash!MinTick, MinTick, Cash!TickInterval, TickInterval
<1> USE DEF Cash!Active, Active, Cash!Weight, Weight, Cash!TotalWeight, TotalWeight
<1>8. Cash!FloorShares <=> FloorShares
  BY DEF Cash!FloorShares, FloorShares
<1>9. /\ Cash!GiveOneMore <=> GiveOneMore
      /\ Cash!NothingMore <=> NothingMore
  <2>1. Cash!Affordable = Affordable /\ Cash!Neediest = Neediest
    BY DEF Cash!Affordable, Affordable, Cash!Neediest, Neediest, Cash!Shortfall, Shortfall,
           Cash!Spent, Spent
  <2> QED BY <2>1 DEF Cash!GiveOneMore, GiveOneMore, Cash!NothingMore, NothingMore
<1>10. Cash!TrimOne <=> TrimOne
  <2>1. Cash!pickTrimTarget = pickTrimTarget
    BY DEF Cash!pickTrimTarget, pickTrimTarget
  <2> QED BY <1>2, <2>1 DEF Cash!TrimOne, TrimOne, Cash!Total, Total
<1> QED BY <1>1, <1>2, <1>3, <1>4, <1>5, <1>6, <1>7, <1>8, <1>9, <1>10

LEMMA CashSteps ==
  ASSUME TypeOK, Cash!Next
  PROVE  Step(LateFills, AnswersLackId) \/ UNCHANGED vars
<1> USE DEF Cash!budget, budget, Cash!group, group, Cash!sizing, sizing, Cash!order, order
<1>1. ASSUME Cash!SizeGroup PROVE Grants
  <2>1. PICK g \in Inputs :
          /\ ~Cash!Skipped(g) /\ in' = g /\ onHeld' = Cash!HeldInstead(g)
          /\ quote' = IF Cash!HeldInstead(g) THEN g.heldQuote ELSE g.quote
          /\ avail' = Cash!AvailableCapital(g)
    BY <1>1 DEF Cash!SizeGroup
  <2>2. g \in GroupInput /\ Cash!HeldInstead(g) \in BOOLEAN
    BY Constants DEF Cash!HeldInstead
  <2>3. Cash!MaxBuyPerAction(g) \in Nat
    <3>1. TotalCapital \in Nat /\ 10 + g.surplus \in Nat
      BY <2>2, Constants DEF GroupInput
    <3> QED BY <3>1, ProductNat, Division DEF Cash!MaxBuyPerAction
  <2>4. /\ left > 0 /\ left \in Nat /\ exposed \in Nat /\ buying \in Nat
        /\ ExposureHeadroom(g) \in Int /\ ContractHeadroom(g) \in Int
        /\ NotionalHeadroom(g) \in Int
    BY <1>1, <2>2, RoomTypes DEF Cash!SizeGroup, TypeOK
  <2>5. ExposureHeadroom(g) > 0 /\ ContractHeadroom(g) >= 1 /\ NotionalHeadroom(g) > 0
    BY <2>1, <2>4, CashOperators DEF Cash!Skipped
  <2>6. Cash!AvailableCapital(g) = Capital(g, Cash!MaxBuyPerAction(g))
    BY CashOperators DEF Cash!AvailableCapital, Capital, Cash!Least, Least, Cash!Most, Most
  <2>7. Grantable(g, Cash!AvailableCapital(g))
    BY <2>2, <2>3, <2>4, <2>5, <2>6, CapitalBounds
  <2>8. Cash!AvailableCapital(g) \in Nat
    BY <2>7 DEF Grantable
  <2>9. /\ pc = "group" /\ left > 0 /\ qty' = Zero /\ rounds' = 0 /\ taken' = 0
        /\ pc' = "floor" /\ UNCHANGED <<budget, route, order, now>>
    BY <1>1, CashOperators DEF Cash!SizeGroup
  <2> QED BY <2>1, <2>2, <2>7, <2>8, <2>9, Zenon DEF Grants
<1>2. Cash!SkipGroup \/ Cash!RetryOnHeld \/ Cash!GiveUp => Skips \/ Retries \/ GivesUp
  BY CashOperators DEF Cash!SkipGroup, Cash!RetryOnHeld, Cash!GiveUp, Skips, Retries, GivesUp
<1>3. Cash!StartBuying \/ Cash!EmptyRoute \/ Cash!PlaceOrder \/ Cash!OrderRefused
        => StartBuying \/ EmptyRoute \/ PlaceOrder \/ OrderRefused
  BY CashOperators DEF Cash!StartBuying, StartBuying, Cash!EmptyRoute, EmptyRoute,
    Cash!PlaceOrder,
     PlaceOrder, Cash!OrderRefused, OrderRefused, Cash!Total, Total, Cash!Sum, Sum
<1>4. Cash!PlaceBeside => AnswersLackId /\ Beside
  BY CashOperators DEF Cash!PlaceBeside, Beside
<1>5. Cash!BrokerFills => Fills /\ (pc = "wait" \/ LateFills)
  BY DEF Cash!BrokerFills, Fills
<1>6. Cash!SeesFill \/ Cash!WaitEnds \/ Cash!CancelAccepted \/ Cash!CancelRefused
        => SeesFill \/ WaitEnds \/ CancelAccepted \/ CancelRefused
  BY CashOperators DEF Cash!SeesFill, SeesFill, Cash!WaitEnds, WaitEnds, Cash!CancelAccepted,
     CancelAccepted, Cash!CancelRefused, CancelRefused
<1>7. Cash!Done => UNCHANGED vars
  BY DEF Cash!Done, Cash!vars, vars
<1> QED BY <1>1, <1>2, <1>3, <1>4, <1>5, <1>6, <1>7, CashOperators DEF Cash!Next, Step

LEMMA EveningOperators ==
  /\ Evening!Route = Route /\ Evening!Zero = Zero /\ Evening!None = None
       /\ Evening!Spent = Spent
  /\ (Evening!Fits <=> Fits) /\ (Evening!RouteDone <=> RouteDone)
       /\ (Evening!OpenRoute("bid") <=> OpenRoute("bid"))
  /\ Evening!NextPrice = NextPrice
  /\ \A q, r : Evening!MaxTicks(q, r) = MaxTicks(q, r)
       /\ Evening!TickInterval(r) = TickInterval(r)
  /\ \A g : /\ Evening!EffectiveTarget(g) = EffectiveTarget(g)
            /\ Evening!ExposureHeadroom(g) = ExposureHeadroom(g)
            /\ Evening!ContractHeadroom(g) = ContractHeadroom(g)
            /\ Evening!NotionalHeadroom(g) = NotionalHeadroom(g)
  /\ (Evening!FloorShares <=> FloorShares) /\ (Evening!GiveOneMore <=> GiveOneMore)
  /\ (Evening!NothingMore <=> NothingMore) /\ (Evening!TrimOne <=> TrimOne)
<1> USE DEF Evening!Route, Route, Evening!Zero, Zero, Evening!None, None, Evening!budget,
    budget, Evening!group, group,
            Evening!sizing, sizing, Evening!order, order, Evening!Least, Least, Evening!Most,
            Most, Evening!Sum, Sum
<1> USE DEF Evening!Midpoint, Midpoint, Evening!LimitPrice, LimitPrice, Evening!Cost, Cost,
    Evening!Est, Est
<1>1. Evening!Spent = Spent
  BY DEF Evening!Spent, Spent
<1>2. \A g : /\ Evening!EffectiveTarget(g) = EffectiveTarget(g)
             /\ Evening!ExposureHeadroom(g) = ExposureHeadroom(g)
             /\ Evening!ContractHeadroom(g) = ContractHeadroom(g)
             /\ Evening!NotionalHeadroom(g) = NotionalHeadroom(g)
  BY DEF Evening!EffectiveTarget, EffectiveTarget, Evening!ExposureHeadroom, ExposureHeadroom,
         Evening!ContractHeadroom, ContractHeadroom, Evening!NotionalHeadroom, NotionalHeadroom
<1>3. Evening!Fits <=> Fits
  BY DEF Evening!Fits, Fits, Evening!Total, Total, Evening!ContractHeadroom, ContractHeadroom
<1>4. \A r : Evening!OpenRoute(r) <=> OpenRoute(r)
  BY DEF Evening!OpenRoute, OpenRoute, Evening!StartPrice, StartPrice, Evening!TightSpread,
    TightSpread,
         Evening!Ceiling, Ceiling, Evening!MinTick, MinTick
<1>5. Evening!RouteDone <=> RouteDone
  BY <1>1, <1>4 DEF Evening!RouteDone, RouteDone, Evening!After, After
<1>6. Evening!NextPrice = NextPrice
  BY DEF Evening!NextPrice, NextPrice, Evening!CeilingPrice, CeilingPrice, Evening!Ceiling,
    Ceiling,
         Evening!calculateDynamicTickSize, calculateDynamicTickSize, Evening!MinTick, MinTick
<1>7. \A q, r : Evening!MaxTicks(q, r) = MaxTicks(q, r)
      /\ Evening!TickInterval(r) = TickInterval(r)
  BY DEF Evening!MaxTicks, MaxTicks, Evening!TightSpread, TightSpread, Evening!Ceiling, Ceiling,
         Evening!MinTick, MinTick, Evening!TickInterval, TickInterval
<1> USE DEF Evening!Active, Active, Evening!Weight, Weight, Evening!TotalWeight, TotalWeight
<1>8. Evening!FloorShares <=> FloorShares
  BY DEF Evening!FloorShares, FloorShares
<1>9. /\ Evening!GiveOneMore <=> GiveOneMore
      /\ Evening!NothingMore <=> NothingMore
  <2>1. Evening!Affordable = Affordable /\ Evening!Neediest = Neediest
    BY DEF Evening!Affordable, Affordable, Evening!Neediest, Neediest, Evening!Shortfall,
      Shortfall,
           Evening!Spent, Spent
  <2> QED BY <2>1 DEF Evening!GiveOneMore, GiveOneMore, Evening!NothingMore, NothingMore
<1>10. Evening!TrimOne <=> TrimOne
  <2>1. Evening!pickTrimTarget = pickTrimTarget
    BY DEF Evening!pickTrimTarget, pickTrimTarget
  <2> QED BY <1>2, <2>1 DEF Evening!TrimOne, TrimOne, Evening!Total, Total
<1> QED BY <1>1, <1>2, <1>3, <1>4, <1>5, <1>6, <1>7, <1>8, <1>9, <1>10

LEMMA EveningSteps ==
  ASSUME TypeOK, Evening!Next
  PROVE  Step(LateFills, AnswersLackId) \/ UNCHANGED vars
<1> USE DEF Evening!budget, budget, Evening!group, group, Evening!sizing, sizing, Evening!order,
    order
<1>1. ASSUME Evening!SizeGroup PROVE Grants
  <2>1. PICK g \in Inputs :
          /\ ~Evening!Skipped(g) /\ in' = g /\ onHeld' = Evening!HeldInstead(g)
          /\ quote' = IF Evening!HeldInstead(g) THEN g.heldQuote ELSE g.quote
          /\ avail' = Evening!AvailableCapital(g)
    BY <1>1 DEF Evening!SizeGroup
  <2>2. g \in GroupInput /\ Evening!HeldInstead(g) \in BOOLEAN
    BY Constants DEF Evening!HeldInstead
  <2>3. Evening!MaxBuyPerAction(g) \in Nat
    <3>1. TotalCapital \in Nat /\ BuyPct + g.surplus \in Nat
      BY <2>2, Constants DEF GroupInput
    <3> QED BY <3>1, ProductNat, Division DEF Evening!MaxBuyPerAction
  <2>4. /\ left > 0 /\ left \in Nat /\ exposed \in Nat /\ buying \in Nat
        /\ ExposureHeadroom(g) \in Int /\ ContractHeadroom(g) \in Int
        /\ NotionalHeadroom(g) \in Int
    BY <1>1, <2>2, RoomTypes DEF Evening!SizeGroup, TypeOK
  <2>5. ExposureHeadroom(g) > 0 /\ ContractHeadroom(g) >= 1 /\ NotionalHeadroom(g) > 0
    BY <2>1, <2>4, EveningOperators DEF Evening!Skipped
  <2>6. Evening!AvailableCapital(g) = Capital(g, Evening!MaxBuyPerAction(g))
    BY EveningOperators DEF Evening!AvailableCapital, Capital, Evening!Least, Least,
      Evening!Most, Most
  <2>7. Grantable(g, Evening!AvailableCapital(g))
    BY <2>2, <2>3, <2>4, <2>5, <2>6, CapitalBounds
  <2>8. Evening!AvailableCapital(g) \in Nat
    BY <2>7 DEF Grantable
  <2>9. /\ pc = "group" /\ left > 0 /\ qty' = Zero /\ rounds' = 0 /\ taken' = 0
        /\ pc' = "floor" /\ UNCHANGED <<budget, route, order, now>>
    BY <1>1, EveningOperators DEF Evening!SizeGroup
  <2> QED BY <2>1, <2>2, <2>7, <2>8, <2>9, Zenon DEF Grants
<1>2. Evening!SkipGroup \/ Evening!RetryOnHeld \/ Evening!GiveUp => Skips \/ Retries \/ GivesUp
  BY EveningOperators DEF Evening!SkipGroup, Evening!RetryOnHeld, Evening!GiveUp, Skips,
    Retries, GivesUp
<1>3. Evening!StartBuying \/ Evening!EmptyRoute \/ Evening!PlaceOrder \/ Evening!OrderRefused
        => StartBuying \/ EmptyRoute \/ PlaceOrder \/ OrderRefused
  BY EveningOperators DEF Evening!StartBuying, StartBuying, Evening!EmptyRoute, EmptyRoute,
    Evening!PlaceOrder,
     PlaceOrder, Evening!OrderRefused, OrderRefused, Evening!Total, Total, Evening!Sum, Sum
<1>4. Evening!PlaceBeside => AnswersLackId /\ Beside
  BY EveningOperators DEF Evening!PlaceBeside, Beside
<1>5. Evening!BrokerFills => Fills /\ (pc = "wait" \/ LateFills)
  BY DEF Evening!BrokerFills, Fills
<1>6. Evening!SeesFill \/ Evening!WaitEnds \/ Evening!CancelAccepted \/ Evening!CancelRefused
        => SeesFill \/ WaitEnds \/ CancelAccepted \/ CancelRefused
  BY EveningOperators DEF Evening!SeesFill, SeesFill, Evening!WaitEnds, WaitEnds,
    Evening!CancelAccepted,
     CancelAccepted, Evening!CancelRefused, CancelRefused
<1>7. Evening!Done => UNCHANGED vars
  BY DEF Evening!Done, Evening!vars, vars
<1> QED BY <1>1, <1>2, <1>3, <1>4, <1>5, <1>6, <1>7, EveningOperators DEF Evening!Next, Step

LEMMA RoughOperators ==
  /\ Rough!Route = Route /\ Rough!Zero = Zero /\ Rough!None = None /\ Rough!Spent = Spent
  /\ (Rough!Fits <=> Fits) /\ (Rough!RouteDone <=> RouteDone)
       /\ (Rough!OpenRoute("bid") <=> OpenRoute("bid"))
  /\ Rough!NextPrice = NextPrice
  /\ \A q, r : Rough!MaxTicks(q, r) = MaxTicks(q, r) /\ Rough!TickInterval(r) = TickInterval(r)
  /\ \A g : /\ Rough!EffectiveTarget(g) = EffectiveTarget(g)
            /\ Rough!ExposureHeadroom(g) = ExposureHeadroom(g)
            /\ Rough!ContractHeadroom(g) = ContractHeadroom(g)
            /\ Rough!NotionalHeadroom(g) = NotionalHeadroom(g)
  /\ (Rough!FloorShares <=> FloorShares) /\ (Rough!GiveOneMore <=> GiveOneMore)
  /\ (Rough!NothingMore <=> NothingMore) /\ (Rough!TrimOne <=> TrimOne)
<1> USE DEF Rough!Route, Route, Rough!Zero, Zero, Rough!None, None, Rough!budget, budget,
    Rough!group, group,
            Rough!sizing, sizing, Rough!order, order, Rough!Least, Least, Rough!Most, Most,
            Rough!Sum, Sum
<1> USE DEF Rough!Midpoint, Midpoint, Rough!LimitPrice, LimitPrice, Rough!Cost, Cost, Rough!Est,
    Est
<1>1. Rough!Spent = Spent
  BY DEF Rough!Spent, Spent
<1>2. \A g : /\ Rough!EffectiveTarget(g) = EffectiveTarget(g)
             /\ Rough!ExposureHeadroom(g) = ExposureHeadroom(g)
             /\ Rough!ContractHeadroom(g) = ContractHeadroom(g)
             /\ Rough!NotionalHeadroom(g) = NotionalHeadroom(g)
  BY DEF Rough!EffectiveTarget, EffectiveTarget, Rough!ExposureHeadroom, ExposureHeadroom,
         Rough!ContractHeadroom, ContractHeadroom, Rough!NotionalHeadroom, NotionalHeadroom
<1>3. Rough!Fits <=> Fits
  BY DEF Rough!Fits, Fits, Rough!Total, Total, Rough!ContractHeadroom, ContractHeadroom
<1>4. \A r : Rough!OpenRoute(r) <=> OpenRoute(r)
  BY DEF Rough!OpenRoute, OpenRoute, Rough!StartPrice, StartPrice, Rough!TightSpread,
    TightSpread,
         Rough!Ceiling, Ceiling, Rough!MinTick, MinTick
<1>5. Rough!RouteDone <=> RouteDone
  BY <1>1, <1>4 DEF Rough!RouteDone, RouteDone, Rough!After, After
<1>6. Rough!NextPrice = NextPrice
  BY DEF Rough!NextPrice, NextPrice, Rough!CeilingPrice, CeilingPrice, Rough!Ceiling, Ceiling,
         Rough!calculateDynamicTickSize, calculateDynamicTickSize, Rough!MinTick, MinTick
<1>7. \A q, r : Rough!MaxTicks(q, r) = MaxTicks(q, r) /\ Rough!TickInterval(r) = TickInterval(r)
  BY DEF Rough!MaxTicks, MaxTicks, Rough!TightSpread, TightSpread, Rough!Ceiling, Ceiling,
         Rough!MinTick, MinTick, Rough!TickInterval, TickInterval
<1> USE DEF Rough!Active, Active, Rough!Weight, Weight, Rough!TotalWeight, TotalWeight
<1>8. Rough!FloorShares <=> FloorShares
  BY DEF Rough!FloorShares, FloorShares
<1>9. /\ Rough!GiveOneMore <=> GiveOneMore
      /\ Rough!NothingMore <=> NothingMore
  <2>1. Rough!Affordable = Affordable /\ Rough!Neediest = Neediest
    BY DEF Rough!Affordable, Affordable, Rough!Neediest, Neediest, Rough!Shortfall, Shortfall,
           Rough!Spent, Spent
  <2> QED BY <2>1 DEF Rough!GiveOneMore, GiveOneMore, Rough!NothingMore, NothingMore
<1>10. Rough!TrimOne <=> TrimOne
  <2>1. Rough!pickTrimTarget = pickTrimTarget
    BY DEF Rough!pickTrimTarget, pickTrimTarget
  <2> QED BY <1>2, <2>1 DEF Rough!TrimOne, TrimOne, Rough!Total, Total
<1> QED BY <1>1, <1>2, <1>3, <1>4, <1>5, <1>6, <1>7, <1>8, <1>9, <1>10

LEMMA RoughSteps ==
  ASSUME TypeOK, Rough!Next
  PROVE  Step(TRUE, TRUE) \/ UNCHANGED vars
<1> USE DEF Rough!budget, budget, Rough!group, group, Rough!sizing, sizing, Rough!order, order
<1>1. ASSUME Rough!SizeGroup PROVE Grants
  <2>1. PICK g \in Inputs :
          /\ ~Rough!Skipped(g) /\ in' = g /\ onHeld' = Rough!HeldInstead(g)
          /\ quote' = IF Rough!HeldInstead(g) THEN g.heldQuote ELSE g.quote
          /\ avail' = Rough!AvailableCapital(g)
    BY <1>1 DEF Rough!SizeGroup
  <2>2. g \in GroupInput /\ Rough!HeldInstead(g) \in BOOLEAN
    BY Constants DEF Rough!HeldInstead
  <2>3. Rough!MaxBuyPerAction(g) \in Nat
    <3>1. TotalCapital \in Nat /\ BuyPct + g.surplus \in Nat
      BY <2>2, Constants DEF GroupInput
    <3> QED BY <3>1, ProductNat, Division DEF Rough!MaxBuyPerAction
  <2>4. /\ left > 0 /\ left \in Nat /\ exposed \in Nat /\ buying \in Nat
        /\ ExposureHeadroom(g) \in Int /\ ContractHeadroom(g) \in Int
        /\ NotionalHeadroom(g) \in Int
    BY <1>1, <2>2, RoomTypes DEF Rough!SizeGroup, TypeOK
  <2>5. ExposureHeadroom(g) > 0 /\ ContractHeadroom(g) >= 1 /\ NotionalHeadroom(g) > 0
    BY <2>1, <2>4, RoughOperators DEF Rough!Skipped
  <2>6. Rough!AvailableCapital(g) = Capital(g, Rough!MaxBuyPerAction(g))
    BY RoughOperators DEF Rough!AvailableCapital, Capital, Rough!Least, Least, Rough!Most, Most
  <2>7. Grantable(g, Rough!AvailableCapital(g))
    BY <2>2, <2>3, <2>4, <2>5, <2>6, CapitalBounds
  <2>8. Rough!AvailableCapital(g) \in Nat
    BY <2>7 DEF Grantable
  <2>9. /\ pc = "group" /\ left > 0 /\ qty' = Zero /\ rounds' = 0 /\ taken' = 0
        /\ pc' = "floor" /\ UNCHANGED <<budget, route, order, now>>
    BY <1>1, RoughOperators DEF Rough!SizeGroup
  <2> QED BY <2>1, <2>2, <2>7, <2>8, <2>9, Zenon DEF Grants
<1>2. Rough!SkipGroup \/ Rough!RetryOnHeld \/ Rough!GiveUp => Skips \/ Retries \/ GivesUp
  BY RoughOperators DEF Rough!SkipGroup, Rough!RetryOnHeld, Rough!GiveUp, Skips, Retries,
    GivesUp
<1>3. Rough!StartBuying \/ Rough!EmptyRoute \/ Rough!PlaceOrder \/ Rough!OrderRefused
        => StartBuying \/ EmptyRoute \/ PlaceOrder \/ OrderRefused
  BY RoughOperators DEF Rough!StartBuying, StartBuying, Rough!EmptyRoute, EmptyRoute,
    Rough!PlaceOrder,
     PlaceOrder, Rough!OrderRefused, OrderRefused, Rough!Total, Total, Rough!Sum, Sum
<1>4. Rough!PlaceBeside => TRUE /\ Beside
  BY RoughOperators DEF Rough!PlaceBeside, Beside
<1>5. Rough!BrokerFills => Fills /\ (pc = "wait" \/ TRUE)
  BY DEF Rough!BrokerFills, Fills
<1>6. Rough!SeesFill \/ Rough!WaitEnds \/ Rough!CancelAccepted \/ Rough!CancelRefused
        => SeesFill \/ WaitEnds \/ CancelAccepted \/ CancelRefused
  BY RoughOperators DEF Rough!SeesFill, SeesFill, Rough!WaitEnds, WaitEnds,
    Rough!CancelAccepted,
     CancelAccepted, Rough!CancelRefused, CancelRefused
<1>7. Rough!Done => UNCHANGED vars
  BY DEF Rough!Done, Rough!vars, vars
<1> QED BY <1>1, <1>2, <1>3, <1>4, <1>5, <1>6, <1>7, RoughOperators DEF Rough!Next, Step

\* Whatever differs between the worlds, they begin alike.
LEMMA WorldsBegin == MCInit => Begins /\ (world = "margin" => Init)
<1>1. Cash!Init => Begins
  BY Constants DEF Cash!Init, Begins, Cash!NoGroup, NoGroup, Cash!Zero, Zero, Cash!None,
     None, Cash!Route, Route
<1>2. Evening!Init => Begins
  BY Constants DEF Evening!Init, Begins, Evening!NoGroup, NoGroup, Evening!Zero, Zero,
     Evening!None, None, Evening!Route, Route
<1>3. Rough!Init => Begins
  BY Constants DEF Rough!Init, Begins, Rough!NoGroup, NoGroup, Rough!Zero, Zero,
     Rough!None, None, Rough!Route, Route
<1> QED BY <1>1, <1>2, <1>3, InitBegins DEF MCInit

LEMMA WorldStep ==
  ASSUME Inv, [MCNext]_<<vars, world>>
  PROVE  /\ world' = world
         /\ Step(TRUE, TRUE) \/ UNCHANGED vars
         /\ world # "rough" => Step(LateFills, AnswersLackId) \/ UNCHANGED vars
<1>1. TypeOK
  BY DEF Inv
<1>2. ASSUME Step(LateFills, AnswersLackId) PROVE Step(TRUE, TRUE)
  BY <1>2 DEF Step
<1> QED BY <1>1, <1>2, NextIsStep, CashSteps, EveningSteps, RoughSteps DEF MCNext

LEMMA WorldsKeepInv == MCSpec => []Inv
<1>1. MCInit => Inv
  BY WorldsBegin, BeginsInv
<1>2. Inv /\ [MCNext]_<<vars, world>> => Inv'
  BY WorldStep, StepInv
<1> QED BY <1>1, <1>2, PTL DEF MCSpec

\* Both hold in each of the worlds the run checks: on margin, on cash, past the guard's
\* deadline and where the broker fills late and leaves out ids.
THEOREM EveryWorldKeepsItsBudget == MCSpec => [](BudgetBalances /\ TargetRespected)
<1>1. Inv => BudgetBalances /\ TargetRespected
  BY InvBalances, InvRespects
<1> QED BY <1>1, WorldsKeepInv, PTL

\* A group stays within its ceiling in every world in which a poll follows each fill and
\* each answer names its order.
THEOREM CapIsKeptIfSeen ==
  ASSUME ~LateFills, ~AnswersLackId
  PROVE  MCSpec => []GroupWithinCapIfSeen
<1> DEFINE CapInv == Inv /\ (world # "rough" => Capped)
<1>1. MCInit => CapInv
  <2>1. Begins => Capped
    BY DEF Begins, Capped, GroupWithinCap, Working
  <2> QED BY <2>1, WorldsBegin, BeginsInv
<1>2. CapInv /\ [MCNext]_<<vars, world>> => CapInv'
  <2> SUFFICES ASSUME CapInv, [MCNext]_<<vars, world>> PROVE CapInv'
    OBVIOUS
  <2>1. Inv'
    BY WorldStep, StepInv
  <2>2. ASSUME world' # "rough" PROVE Capped'
    <3>1. world # "rough" /\ Capped
      BY <2>2, WorldStep
    <3>2. Step(FALSE, FALSE) \/ UNCHANGED vars
      BY <3>1, WorldStep DEF Step
    <3> QED BY <3>1, <3>2, StepCapped
  <2> QED BY <2>1, <2>2
<1>3. CapInv => GroupWithinCapIfSeen
  BY DEF Capped, GroupWithinCapIfSeen
<1> QED BY <1>1, <1>2, <1>3, PTL DEF MCSpec

\* Where the chases of the groups fit into two intervals, and in the world that is
\* evaluated past the guard's deadline, no order is placed past the cutoff.
THEOREM CutoffIsKeptIfFew ==
  ASSUME CloseTime + Groups * ChaseTime <= 2 * RunInterval,
         Evening!isTooCloseToAccumulationCutoff, Account # "unknown"
  PROVE  MCSpec => []BuysBeforeCutoffIfFew
<1> DEFINE CutoffInv == /\ Inv /\ (world = "margin" => TimeInv)
                        /\ world = "evening" => pc = "group"
<1>1. MCInit => CutoffInv
  BY WorldsBegin, BeginsInv, TimeInit DEF Begins
<1>2. CutoffInv /\ [MCNext]_<<vars, world>> => CutoffInv'
  <2> SUFFICES ASSUME CutoffInv, [MCNext]_<<vars, world>> PROVE CutoffInv'
    OBVIOUS
  <2>1. Inv' /\ world' = world
    BY WorldStep, StepInv
  <2>2. ASSUME world = "margin" PROVE TimeInv'
    <3>1. [Next]_vars
      BY <2>2 DEF MCNext
    <3> QED BY <2>2, <3>1, TimeStep
  <2>3. ASSUME world = "evening" PROVE pc' = "group"
    <3>1. pc = "group" /\ (Evening!Next \/ UNCHANGED vars)
      BY <2>3 DEF MCNext
    <3>2. ~Evening!SizeGroup
      BY DEF Evening!SizeGroup, Evening!Skipped
    <3> QED BY <3>1, <3>2 DEF Evening!Next, Evening!SkipGroup, Evening!FloorShares,
         Evening!GiveOneMore, Evening!NothingMore, Evening!TrimOne, Evening!RetryOnHeld,
         Evening!GiveUp, Evening!Fits, Evening!StartBuying, Evening!EmptyRoute,
         Evening!PlaceOrder, Evening!PlaceBeside, Evening!OrderRefused, Evening!BrokerFills,
         Evening!SeesFill, Evening!WaitEnds, Evening!CancelAccepted, Evening!CancelRefused,
         Evening!Done, Evening!vars, vars
  <2> QED BY <2>1, <2>2, <2>3
<1>3. CutoffInv => BuysBeforeCutoffIfFew
  <2>1. pc = "group" => BuysBeforeCutoff
    BY DEF BuysBeforeCutoff
  <2> QED BY <2>1, InTime DEF BuysBeforeCutoffIfFew
<1> QED BY <1>1, <1>2, <1>3, PTL DEF MCSpec
=============================================================================
