----------------------------- MODULE CloseChase -----------------------------
(***************************************************************************)
(* One call of closePosition (bot/actions/close-position.ts): it sells the *)
(* legs of a position group one after the other, and for each leg walks a  *)
(* limit order from a generous price down to an edge (runCloseTickChase),  *)
(* cancelling the resting order and placing a new one at every rung.  The  *)
(* broker fills, refuses and expires orders between any two awaits of the  *)
(* walk.                                                                   *)
(*                                                                         *)
(* Only the selling side is modelled: the bot holds long positions.        *)
(* tickChaseEnabled = false is MaxTickMoves = 0.  Prices are integers, in  *)
(* a unit that makes the division of getCloseTickSize exact.               *)
(***************************************************************************)
EXTENDS Integers, Sequences, FiniteSetsExt

CONSTANTS
  Held,           \* the position: a sequence, the quantity held of each leg
  MaxToClose,     \* maxQuantityToClose
  MaxTickMoves,   \* maxTickMoves
  Bid, Ask,       \* the cycle-start quote every leg is priced from
  FreshBids,      \* the bids a live quote may show before the last rung
  MinTick, Grid,  \* getMinTickSize; the grid of roundOrderPrice
  Urgent,         \* isUrgentClose
  MidFloor,       \* midFloorApplies, for a close that is not urgent
  Requote,        \* isCloseRequoteBeforeFinalTickEnabled
  PartialFills,   \* the market may fill an order in part
  OrdersExpire,   \* the broker may end an order nobody cancelled
  CancelIsFinal,  \* an accepted cancel has already taken the order off the book
  CancelErrors,   \* a cancel request may fail although the order is working
  StatusErrors,   \* status reads may fail for the whole wait at a rung
  LostReplies,    \* a placement may time out after the broker took the order
  AnswersLackId   \* the answer to a placement may name no order

ASSUME CloseAssumption ==
  /\ Held \in Seq(Nat \ {0}) /\ MaxToClose \in Nat \ {0}
  /\ MaxTickMoves \in Nat
  /\ {Bid, Ask, MinTick, Grid} \subseteq Nat \ {0} /\ Bid < Ask
  /\ FreshBids \subseteq Nat \ {0}
  /\ {Urgent, MidFloor, Requote, PartialFills, OrdersExpire, CancelIsFinal,
      CancelErrors, StatusErrors, LostReplies, AnswersLackId} \subseteq BOOLEAN

VARIABLES
  orders,     \* what the broker has for each leg, in the order it was placed
  results,    \* what closePosition reports for each leg
  pc, leg,    \* the await the call is at, and the leg it is selling
  remaining,  \* remainingToClose
  moves,      \* tickMoveCount
  price,      \* currentPrice
  edge,       \* currentEdgePrice
  refreshed,  \* hasRefreshedEdge
  active,     \* index of activeOrderId's order, 0 if undefined
  response    \* is lastOrderResponse defined?

inHand == <<active, response>>
chase == <<pc, leg, remaining, moves, price, edge, refreshed, inHand>>
vars == <<orders, results, chase>>

Legs == DOMAIN Held

-----------------------------------------------------------------------------
(* Prices. *)

Midpoint == (Bid + Ask) \div 2

EdgeOf(bid, mid) == IF MidFloor /\ ~Urgent /\ mid > bid THEN mid ELSE bid

getEdgePrice == EdgeOf(Bid, Midpoint)

getCloseStartPrice ==
  IF Urgent THEN Min({Ask, Midpoint + 2 * MinTick}) ELSE Ask

getCloseTickSize ==
  LET safeMoveCount == Max({1, MaxTickMoves})
  IN  Max({(getCloseStartPrice - getEdgePrice) \div safeMoveCount, MinTick})

ASSUME ExactTicks == (getCloseStartPrice - getEdgePrice) % Max({1, MaxTickMoves}) = 0

roundOrderPrice(p) == ((2 * p + Grid) \div (2 * Grid)) * Grid

steppedPrice(p, e, isFinalTickMove) == Max({e, p - getCloseTickSize})

\* The rung after currentPrice p when the edge is e; the last move of an urgent
\* close crosses to the edge.
advanceClosePrice(p, e, isFinalTickMove) ==
  IF Urgent /\ isFinalTickMove THEN e ELSE steppedPrice(p, e, isFinalTickMove)

isLastRungAhead(p, e, isFinalTickMove) ==
  isFinalTickMove \/ advanceClosePrice(p, e, isFinalTickMove) = e

\* The edge after a live quote: undefined (no usable quote) keeps the stale one,
\* and a fresh one may only lower it.
refreshEdgePriceFromQuote(stale) ==
  {stale} \cup {Min({stale, EdgeOf(b, b + (Ask - Bid) \div 2)}) : b \in FreshBids}

-----------------------------------------------------------------------------
(* The broker's book. *)

\* answer is a history, which no action reads: how the placement was answered,
\* with the order's id, without one, or not at all.
Order == [quantity : Nat \ {0}, filled : Nat, price : Nat,
          status : {"live", "cancelling", "dead"}, answer : {"id", "none", "lost"}]

Working(o) == o.status # "dead" /\ o.filled < o.quantity

\* The orders that count: all but those answered without an id, beside which the
\* chase goes on.
Counted(o) == o.answer # "none"
Count(l, f(_)) == MapThenSumSet(LAMBDA i : f(orders[l][i]), DOMAIN orders[l])
\* Sold already, or going to be if every order that counts and works fills.
Exposed(l) ==
  Count(l, LAMBDA o : IF ~Counted(o) THEN 0 ELSE IF Working(o) THEN o.quantity ELSE o.filled)

\* The market takes one contract, or all the order has left.
FillOrder(l, i) ==
  /\ Working(orders[l][i])
  /\ orders' = [orders EXCEPT ![l][i].filled =
                  IF PartialFills THEN @ + 1 ELSE orders[l][i].quantity]
  /\ UNCHANGED <<results, chase>>

\* A cancel takes effect, or the broker ends an order by itself.
EndOrder(l, i) ==
  /\ Working(orders[l][i])
  /\ OrdersExpire \/ orders[l][i].status = "cancelling"
  /\ orders' = [orders EXCEPT ![l][i].status = "dead"]
  /\ UNCHANGED <<results, chase>>

-----------------------------------------------------------------------------
(* closePosition. *)

qtyOfSnapshot == Held[leg]                       \* the whole leg, always

qtyToClose == Min({Held[leg], remaining})

\* The legs are sold in order until the requested quantity is covered.
HasLeg == leg \in Legs /\ remaining > 0

\* No payload, no midpoint, or the strategy recovered since the cycle began.
SkipLeg ==
  /\ pc = "leg" /\ HasLeg
  /\ results' = [results EXCEPT ![leg] = "skipped"]
  /\ leg' = leg + 1
  /\ UNCHANGED <<orders, pc, remaining, moves, price, edge, refreshed, inHand>>

BeginChase ==
  /\ pc = "leg" /\ HasLeg
  /\ pc' = "cancel"
  /\ price' = getCloseStartPrice
  /\ edge' = getEdgePrice
  /\ moves' = 0
  /\ refreshed' = FALSE
  /\ active' = 0 /\ response' = FALSE
  /\ UNCHANGED <<orders, results, leg, remaining>>

Return ==
  /\ pc = "leg" /\ ~HasLeg
  /\ pc' = "done"
  /\ UNCHANGED <<orders, results, leg, remaining, moves, price, edge, refreshed, inHand>>

\* Nothing happens on the caller's side after the call returned.
Returned == pc = "done" /\ UNCHANGED vars

\* The closed leg is reported.  A placement that was ever answered counts as a
\* close of the whole quantity, whatever became of it.
ReportLeg ==
  /\ pc = "report"
  /\ results' = [results EXCEPT ![leg] = IF response THEN "placed" ELSE "rejected"]
  /\ remaining' = IF response THEN remaining - qtyToClose ELSE remaining
  /\ leg' = leg + 1
  /\ pc' = "leg"
  /\ UNCHANGED <<orders, moves, price, edge, refreshed, inHand>>

-----------------------------------------------------------------------------
(* runCloseTickChase: cancel, place, check the fill, advance. *)

goto(at) ==
  /\ pc' = at
  /\ UNCHANGED <<results, leg, remaining, moves, price, edge, refreshed>>

mustCancelPrevious == active # 0 /\ moves > 0

NothingToCancel ==
  /\ pc = "cancel" /\ ~mustCancelPrevious
  /\ goto("place")
  /\ UNCHANGED <<orders, inHand>>

\* cancelOrderById returned true: the request was accepted.
CancelAccepted ==
  /\ pc = "cancel" /\ mustCancelPrevious /\ Working(orders[leg][active])
  /\ orders' = [orders EXCEPT ![leg][active].status =
                  IF CancelIsFinal THEN "dead" ELSE "cancelling"]
  /\ goto("place")
  /\ UNCHANGED inHand

\* Mutant: places again all the same.
CancelRefusedIgnored ==
  /\ pc = "cancel" /\ mustCancelPrevious
  /\ CancelErrors \/ ~Working(orders[leg][active])
  /\ goto("place")
  /\ UNCHANGED <<orders, inHand>>

\* It threw, because the order is no longer working or the request failed: the
\* chase leaves whatever works to the next cycle's sweep.
CancelRefused ==
  /\ pc = "cancel" /\ mustCancelPrevious
  /\ CancelErrors \/ ~Working(orders[leg][active])
  /\ goto("report")
  /\ UNCHANGED <<orders, inHand>>

NewOrder(answer) ==
  [quantity |-> qtyToClose, filled |-> 0, price |-> roundOrderPrice(price),
   status |-> "live", answer |-> answer]

\* The last rung and the edge are left to rest: nothing waits for their fill.
OrWait == goto(IF moves >= MaxTickMoves \/ price = edge THEN "report" ELSE "poll")

PlaceAccepted ==
  /\ pc = "place"
  /\ orders' = [orders EXCEPT ![leg] = Append(@, NewOrder("id"))]
  /\ active' = Len(orders[leg]) + 1 /\ response' = TRUE
  /\ OrWait

\* The answer has no order or no id, whether the broker took the order or listed
\* errors: there is a response, and nothing to wait for or to cancel.
PlaceUnnamed ==
  /\ AnswersLackId
  /\ pc = "place"
  /\ \/ orders' = [orders EXCEPT ![leg] = Append(@, NewOrder("none"))]
     \/ orders' = orders
  /\ active' = 0 /\ response' = TRUE
  /\ OrWait

\* placeCloseOrder turned a throw into undefined; activeOrderId and
\* lastOrderResponse are still those of the previous rung.
PlaceRejected ==
  /\ pc = "place"
  /\ goto("report")
  /\ UNCHANGED <<orders, inHand>>

\* The throw was a timeout, and the broker has the order.
PlaceReplyLost ==
  /\ LostReplies
  /\ pc = "place"
  /\ orders' = [orders EXCEPT ![leg] = Append(@, NewOrder("lost"))]
  /\ goto("report")
  /\ UNCHANGED inHand

\* The status is Filled or Partially Filled.
HasFill(o) == o.filled > 0 /\ (o.status # "dead" \/ o.filled = o.quantity)

\* An order without an id is not asked for.
isFilled == active # 0 /\ HasFill(orders[leg][active])

FillSeen ==
  /\ pc = "poll" /\ isFilled
  /\ goto("report")
  /\ UNCHANGED <<orders, inHand>>

isFinalTickMove == moves + 1 >= MaxTickMoves

Advance(e) ==
  /\ price' = advanceClosePrice(price, e, isFinalTickMove)
  /\ edge' = e
  /\ moves' = moves + 1
  /\ pc' = "cancel"
  /\ UNCHANGED <<orders, results, leg, remaining, inHand>>

AskForQuote == Requote /\ ~refreshed /\ isLastRungAhead(price, edge, isFinalTickMove)

\* The wait ran out, or there was none, or the order is dead or unknown: on to
\* the next rung.
NoFillSeen ==
  /\ pc = "poll"
  /\ StatusErrors \/ ~isFilled
  /\ IF AskForQuote THEN goto("requote") /\ UNCHANGED <<orders, inHand>>
                    ELSE Advance(edge) /\ UNCHANGED refreshed

\* The one live quote of the chase.
RequoteAnswered ==
  /\ pc = "requote"
  /\ refreshed' = TRUE
  /\ \E e \in refreshEdgePriceFromQuote(edge) : Advance(e)

-----------------------------------------------------------------------------
Init ==
  /\ orders = [l \in Legs |-> << >>]
  /\ results = [l \in Legs |-> "pending"]
  /\ pc = "leg" /\ leg = 1 /\ remaining = MaxToClose
  /\ moves = 0 /\ price = getCloseStartPrice /\ edge = getEdgePrice
  /\ refreshed = FALSE /\ active = 0 /\ response = FALSE

Next ==
  \/ SkipLeg \/ BeginChase \/ ReportLeg \/ Return \/ Returned
  \/ NothingToCancel \/ CancelAccepted \/ CancelRefused
  \/ PlaceAccepted \/ PlaceUnnamed \/ PlaceRejected \/ PlaceReplyLost
  \/ FillSeen \/ NoFillSeen \/ RequoteAnswered
  \/ \E l \in Legs : \E i \in DOMAIN orders[l] : FillOrder(l, i) \/ EndOrder(l, i)

Spec == Init /\ [][Next]_vars

-----------------------------------------------------------------------------
(* Properties. *)

\* The state is well formed.  No order asks for more than its leg holds or fills
\* beyond its own quantity, no leg gets more orders than the chase has rungs,
\* and remainingToClose never goes below zero.
TypeOK ==
  /\ \A l \in Legs :
       /\ orders[l] \in Seq(Order) /\ Len(orders[l]) <= MaxTickMoves + 1
       /\ \A i \in DOMAIN orders[l] :
            orders[l][i].filled <= orders[l][i].quantity
              /\ orders[l][i].quantity <= Held[l]
  /\ results \in [Legs -> {"pending", "skipped", "rejected", "placed"}]
  /\ pc \in {"leg", "cancel", "place", "poll", "requote", "report", "done"}
  /\ leg \in 1..(Len(Held) + 1) /\ remaining \in 0..MaxToClose
  /\ moves \in 0..MaxTickMoves /\ price \in Nat /\ edge \in Nat
  /\ refreshed \in BOOLEAN /\ response \in BOOLEAN
  /\ pc \notin {"leg", "done"} => leg \in Legs /\ active \in 0..Len(orders[leg])

\* A leg is never sold twice: of the orders whose placement was not answered
\* without an id, what has sold and what still may sell is at most what the
\* account held (the double sell cancelOrderById's comment guards against).  An
\* order answered without an id comes on top: the chase neither polls nor cancels
\* it, and places the next rung beside it.
NeverDoubleSells == \A l \in Legs : Exposed(l) <= Held[l]

\* A partial close stays partial: over all legs, those orders sell or have up for
\* sale at most maxQuantityToClose contracts.
BudgetKept == MapThenSumSet(Exposed, Legs) <= MaxToClose

\* A rung is placed only when the previous rung's order is off the book, if its
\* answer named it.
SingleWorkingClose ==
  \A l \in Legs : \A i, j \in {n \in DOMAIN orders[l] : Counted(orders[l][n])} :
    Working(orders[l][i]) /\ Working(orders[l][j]) => i = j

\* The walk only concedes: no rung asks more than an earlier one, also when the
\* edge was re-quoted on the way.
NeverClimbs ==
  \A l \in Legs : \A i, j \in DOMAIN orders[l] :
    i < j => orders[l][j].price <= orders[l][i].price

\* Of the orders an urgent close was given the id of, none rests above the edge
\* when the close ends, whichever rung it ends at: the next cycle may find that no
\* bid has come for it, never that it asked too much.
UrgentEndsAtEdge ==
  (Urgent /\ pc = "report") =>
    \A i \in DOMAIN orders[leg] :
      LET o == orders[leg][i]
      IN  (o.answer = "id" /\ o.status = "live" /\ o.filled < o.quantity)
            => o.price = roundOrderPrice(edge)

\* What the orders of one leg that count offer, and what they have sold.
OnOffer(book) ==
  MapThenSumSet(LAMBDA i : IF Counted(book[i]) /\ Working(book[i])
                           THEN book[i].quantity - book[i].filled ELSE 0,
                DOMAIN book)
SoldBy(book) ==
  MapThenSumSet(LAMBDA i : IF Counted(book[i]) THEN book[i].filled ELSE 0, DOMAIN book)

\* What the close promises is a Sale of its legs: of each leg one quantity at a
\* time is on offer, never again once it sold, never more than is held, and all
\* legs together within maxQuantityToClose.  The promise is kept by the orders
\* that count, also beside one that was answered without an id.
Promise == INSTANCE Sale WITH
  Items <- Legs, Stock <- Held, Allowance <- MaxToClose,
  offered <- [l \in Legs |-> OnOffer(orders[l])],
  sold <- [l \in Legs |-> SoldBy(orders[l])]

ImplementsSale == Promise!Spec

\* A leg is reported as closed only when some order of it sold or still may
\* (closePosition's "claim a close that never happened").
ClaimedCloseIsReal ==
  [][\A l \in Legs :
       (results[l] = "pending" /\ results'[l] = "placed") => Exposed(l) > 0]_vars

=============================================================================
