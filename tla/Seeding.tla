------------------------------ MODULE Seeding -------------------------------
(***************************************************************************)
(* One underlying seeded in two accounts (bot/seed-symbol.ts and           *)
(* bot/run-cycle-seed.ts).                                                 *)
(*                                                                         *)
(* An attempt resolves its account, asks whether the underlying is already *)
(* held there, selects a contract, quotes it, reads the buying power,      *)
(* sizes the order against the caps, has the broker check it and places    *)
(* it; every await is a step of its own.  A pick that is too expensive     *)
(* starts a second, cheaper pass inside the first, and a cash seed from a  *)
(* margin position may end with the very contract margin holds.            *)
(*                                                                         *)
(* Attempts come from the signal feed, from IPC, which may leave the       *)
(* account open, and from the cycles that average one account's position   *)
(* in the other; their gates are a free choice.  Chain, quotes and         *)
(* buying-power caps are the market's choice; prices and exposures are in  *)
(* units of the cheapest contract.  A spray is handed its quantity as one  *)
(* order (SprayBuy follows it), and the registry entry of a seed is        *)
(* PositionRegistry's.                                                     *)
(***************************************************************************)
EXTENDS Integers, FiniteSets, FiniteSetsExt

CONSTANTS
  Attempts,       \* seed attempts that may be under way at once
  Dtes,           \* days to expiry of the contracts on offer
  Prices,         \* quotes of a contract
  Liquid,         \* account -> its net liquidating value
  CapPct,         \* parts per hundred of it: the band's ceiling ("model"), the
                  \* caps ("underlying", "combined") and the leverage ("margin")
  DayCaps,        \* parts per hundred of it one action may spend now
  Elsewhere,      \* margin exposure in other underlyings
  MaxOrders       \* bound: orders in the book

AccountTypes == {"cash", "margin"}
None == -1
Other(a) == IF a = "cash" THEN "margin" ELSE "cash"

CashWindow == 14 .. 30
FallbackWindow == 7 .. 60
HeldFallbackMinDte == 4

VARIABLES
  pc,        \* of each attempt
  task,      \* the cash fill it may not exceed, the days left of the contract
             \* margin holds; neither for other callers
  pass,      \* "first", "retry" (cheaper pick) or "held" (margin's contract)
  account,   \* the account it resolved
  dte,       \* of the contract it picked
  price,     \* its limit price
  power,     \* the buying power it read
  qty,       \* the quantity it sized
  placed,    \* history: its orders the broker took
  position,  \* broker: of each account, the contract held
  book,      \* broker: working orders
  funds,     \* broker: of each account
  restricted,\* broker: is the underlying closing-only?
  benched    \* is it in closingOnlyUntilBySymbol?

attemptVars == <<pc, task, pass, account, dte, price, power, qty, placed>>
brokerVars == <<position, book, funds, restricted>>
vars == <<attemptVars, brokerVars, benched>>

NoPosition == [qty |-> 0, value |-> 0, dte |-> 0]
NoTask == [maxLimitPrice |-> None, heldDte |-> None]
Cost(o) == o.qty * o.price
Exposure(a) == position[a].value \* positions are valued at what they cost
Fill(a) == position[a].value \div position[a].qty

Init ==
  /\ pc = [t \in Attempts |-> "idle"]
  /\ task = [t \in Attempts |-> NoTask]
  /\ pass = [t \in Attempts |-> "first"]
  /\ account = [t \in Attempts |-> "cash"]
  /\ dte = [t \in Attempts |-> None]
  /\ price = [t \in Attempts |-> 0]
  /\ power = [t \in Attempts |-> 0]
  /\ qty = [t \in Attempts |-> 0]
  /\ placed = [t \in Attempts |-> 0]
  /\ position = [a \in AccountTypes |-> NoPosition]
  /\ book = {}
  /\ funds = Liquid
  /\ restricted = FALSE
  /\ benched = FALSE

-----------------------------------------------------------------------------
(* How an attempt starts, and how a pass ends.                             *)

BeginSeed(t, a, maxLimitPrice, heldDte, next) ==
  /\ pc[t] = "idle"
  /\ task' = [task EXCEPT ![t] =
                [maxLimitPrice |-> maxLimitPrice, heldDte |-> heldDte]]
  /\ account' = [account EXCEPT ![t] = a]
  /\ placed' = [placed EXCEPT ![t] = 0]
  /\ pc' = [pc EXCEPT ![t] = next]
  /\ UNCHANGED <<pass, dte, price, power, qty, brokerVars, benched>>

\* The feed seeds a given account; a request over IPC may leave it open.
SeedAsked(t) ==
  \/ \E a \in AccountTypes : BeginSeed(t, a, None, None, "starting")
  \/ BeginSeed(t, "cash", None, None, "resolving")

\* A cash position that is down is averaged in the margin account, at no more
\* than its fill.
maybeSeedMarginAccountFromCashAccount(t) ==
  /\ Exposure("cash") > 0
  /\ BeginSeed(t, "margin", Fill("cash"), None, "starting")

\* A margin position that is down is averaged in the cash account.
maybeSeedCashAccountFromMarginAccount(t) ==
  /\ Exposure("margin") > 0
  /\ BeginSeed(t, "cash", None, position["margin"].dte, "starting")

\* resolveSeedAccountNumber: cash, unless the underlying is held there.
ResolvesAccount(t) ==
  /\ pc[t] = "resolving"
  /\ account' = [account EXCEPT ![t] =
       IF Exposure("cash") = 0 THEN "cash" ELSE "margin"]
  /\ pc' = [pc EXCEPT ![t] = "starting"]
  /\ UNCHANGED <<task, pass, dte, price, power, qty, placed, brokerVars, benched>>

Idle(t) ==
  /\ pc' = [pc EXCEPT ![t] = "idle"]
  /\ task' = [task EXCEPT ![t] = NoTask]
  /\ pass' = [pass EXCEPT ![t] = "first"]
  /\ account' = [account EXCEPT ![t] = "cash"]
  /\ dte' = [dte EXCEPT ![t] = None]
  /\ price' = [price EXCEPT ![t] = 0]
  /\ power' = [power EXCEPT ![t] = 0]
  /\ qty' = [qty EXCEPT ![t] = 0]

StartsPass(t, next, contractDte) ==
  /\ pc' = [pc EXCEPT ![t] = "starting"]
  /\ pass' = [pass EXCEPT ![t] = next]
  /\ dte' = [dte EXCEPT ![t] = contractDte]
  /\ price' = [price EXCEPT ![t] = 0]
  /\ power' = [power EXCEPT ![t] = 0]
  /\ qty' = [qty EXCEPT ![t] = 0]
  /\ UNCHANGED <<task, account>>

\* The reasons after which the cash seed tries the contract margin holds:
\* isNoFittingSeedCandidateReason and isCostBlockedSeedReason.
OpensHeldFallback(reason) == reason \in {"no-fit", "funds"}

\* The attempt ends without an order.  A cheaper pass that ends this way
\* returns the first pass's reason; the caller then may fall back to the held
\* contract, if it has the days left and its quote passes the spread gate.
Skip(t, reason) ==
  LET result == IF pass[t] = "retry" THEN "funds" ELSE reason
      mayFallBack == /\ task[t].heldDte # None /\ pass[t] # "held"
                     /\ OpensHeldFallback(result)
                     /\ task[t].heldDte >= HeldFallbackMinDte
  IN  \/ mayFallBack /\ StartsPass(t, "held", task[t].heldDte)
      \/ Idle(t)

-----------------------------------------------------------------------------
(* The steps of a pass, as seedSymbol awaits them.                         *)

ChecksBench(t) ==
  /\ pc[t] = "starting"
  /\ IF benched THEN Skip(t, "closing-only")
     ELSE /\ pc' = [pc EXCEPT ![t] = "checking"]
          /\ UNCHANGED <<task, pass, account, dte, price, power, qty>>
  /\ UNCHANGED <<placed, brokerVars, benched>>

\* hasOpenUnderlyingPosition: positions, not working orders.
ChecksPosition(t) ==
  /\ pc[t] = "checking"
  /\ IF Exposure(account[t]) > 0 THEN Skip(t, "held")
     ELSE /\ pc' = [pc EXCEPT ![t] = IF pass[t] = "held" THEN "quoting"
                                     ELSE "selecting"]
          /\ UNCHANGED <<task, pass, account, dte, price, power, qty>>
  /\ UNCHANGED <<placed, brokerVars, benched>>

Candidate(found, kind, d) == [found |-> found, kind |-> kind, dte |-> d]

\* Walking the chain's contracts: the first that passes the liquidity gate, or
\* the first one it refused, without its symbol.
ContractAnswers ==
  {Candidate(TRUE, "contract", d) : d \in Dtes}
    \cup {Candidate(FALSE, "blocked", d) : d \in Dtes}

\* No chain at all, or no contract that fits or is cheap enough.
EmptyAnswers == {Candidate(FALSE, kind, None) : kind \in {"no-chain", "nothing"}}

\* A low IV rank answers before the chain is looked at.
getTopOptionCandidateForSymbol ==
  {Candidate(FALSE, "iv-gated", None)} \cup EmptyAnswers \cup ContractAnswers

shouldRetrySeedWithItm(a, candidate) ==
  a = "margin" /\ ~candidate.found /\ candidate.kind # "iv-gated"

\* A nearest expiration outside the window is flagged and does not count.
shouldRetryCashSeedWithFallbackDteWindow(a, candidate) ==
  a = "cash" /\ candidate.kind # "iv-gated" /\ candidate.dte \notin CashWindow

\* The candidate after the margin account's in-the-money retry or the cash
\* account's retry in the wider window.
FinalCandidate(a, first, second) ==
  IF /\ second.found
     /\ \/ shouldRetrySeedWithItm(a, first)
        \/ /\ shouldRetryCashSeedWithFallbackDteWindow(a, first)
           /\ second.dte \in FallbackWindow
  THEN second ELSE first

UsedCashFallback(a, first, candidate) ==
  a = "cash" /\ candidate # first /\ candidate.dte \in FallbackWindow

\* checkCashSeedDte, the strategy (absent for an IV-gated symbol), the missing
\* chain and the missing candidate, in that order.
SelectionSkip(a, first, candidate) ==
  LET unfit == /\ a = "cash" /\ candidate.dte \notin CashWindow
               /\ ~UsedCashFallback(a, first, candidate)
  IN  IF ~unfit /\ candidate.kind \in {"iv-gated", "no-chain"} THEN "other"
      ELSE IF unfit \/ ~candidate.found THEN "no-fit" ELSE "none"

Selects(t) ==
  /\ pc[t] = "selecting"
  /\ \E first, second \in getTopOptionCandidateForSymbol :
       LET a == account[t]
           candidate == FinalCandidate(a, first, second)
           skip == SelectionSkip(a, first, candidate)
       IN  IF skip # "none" THEN Skip(t, skip)
           ELSE /\ dte' = [dte EXCEPT ![t] = candidate.dte]
                /\ pc' = [pc EXCEPT ![t] = "quoting"]
                /\ UNCHANGED <<task, pass, account, price, power, qty>>
  /\ UNCHANGED <<placed, brokerVars, benched>>

\* Mutant: the cheaper pass is started without the caller's options.
LimitOfFirstPass(t) ==
  IF pass[t] = "retry" THEN None ELSE task[t].maxLimitPrice

\* The cheaper pass is given the caller's options again.
LimitOf(t) == task[t].maxLimitPrice

Quotes(t) ==
  /\ pc[t] = "quoting"
  /\ \E p \in Prices \cup {0} :
       IF p = 0 \/ (LimitOf(t) # None /\ p > LimitOf(t)) THEN Skip(t, "other")
       ELSE /\ price' = [price EXCEPT ![t] = p]
            /\ pc' = [pc EXCEPT ![t] = "budgeting"]
            /\ UNCHANGED <<task, pass, account, dte, power, qty>>
  /\ UNCHANGED <<placed, brokerVars, benched>>

\* The funds, under the exposure headroom of the hour and the per-action cap.
getEffectiveBuyingPowerSummary(a) ==
  {Min({funds[a], (Liquid[a] * cap) \div 100}) : cap \in DayCaps}

ReadsPower(t) ==
  /\ pc[t] = "budgeting"
  /\ \E p \in getEffectiveBuyingPowerSummary(account[t]) :
       power' = [power EXCEPT ![t] = p]
  /\ pc' = [pc EXCEPT ![t] = "sizing"]
  /\ UNCHANGED <<task, pass, account, dte, price, qty, placed, brokerVars, benched>>

CapOf(a, rail) == (Liquid[a] * CapPct[rail]) \div 100

\* contractsForHeadroom.
Contracts(headroom, p) == IF headroom > 0 THEN headroom \div p ELSE 0

\* computeSeedSizing: the band's target, faded to a free extent by liquidity
\* and governor.
modelContracts(a, p) == {Contracts(x, p) : x \in 0 .. CapOf(a, "model")}

\* The leverage rail; a cash account has none.
marginUtilizationContractsFor(a, p) ==
  IF a = "cash" THEN {}
  ELSE {Contracts(CapOf(a, "margin") - Elsewhere - Exposure(a), p)}

\* Mutant: the combined cap reads the seeding account alone.
CapsOfAccount(a, p) ==
  {Contracts(CapOf(a, "underlying") - Exposure(a), p),
   Contracts(CapOf(a, "combined") - Exposure(a), p)}

\* The cap of the account and the one over the positions of both accounts.
evaluateConcentrationCaps(a, p) ==
  {Contracts(CapOf(a, "underlying") - Exposure(a), p),
   Contracts(CapOf(a, "combined") - Exposure(a) - Exposure(Other(a)), p)}

HardRails(a, p) == evaluateConcentrationCaps(a, p) \cup marginUtilizationContractsFor(a, p)

\* resolveSeedQuantity: the least rail; a model below one contract is lifted to
\* one, where every hard rail has room for it.
resolveSeedQuantity(model, rails) ==
  LET least == Min(rails \cup {model})
  IN  IF least >= 1 THEN least
      ELSE IF \A rail \in rails : rail >= 1 THEN 1 ELSE 0

\* getAffordabilityRetryCap.
CheaperPass(t, cost) == pass[t] = "first" /\ power[t] > 0 /\ power[t] < cost

\* The exposures are read, the quantity resolved and compared with the power.
Sizes(t) ==
  /\ pc[t] = "sizing"
  /\ \E model \in modelContracts(account[t], price[t]) :
       LET quantity == resolveSeedQuantity(model, HardRails(account[t], price[t]))
           cost == quantity * price[t]
       IN  \/ quantity < 1 /\ Skip(t, "other")
           \/ /\ quantity >= 1 /\ cost > power[t]
              /\ IF CheaperPass(t, cost) THEN StartsPass(t, "retry", None)
                 ELSE Skip(t, "funds")
           \/ /\ quantity >= 1 /\ cost <= power[t]
              /\ qty' = [qty EXCEPT ![t] = quantity]
              /\ power' = [power EXCEPT ![t] = 0]
              /\ pc' = [pc EXCEPT ![t] = "dry-run"]
              /\ UNCHANGED <<task, pass, account, dte, price>>
  /\ UNCHANGED <<placed, brokerVars, benched>>

\* The broker's preflight: a closing-only rejection benches the underlying.
DryRuns(t) ==
  /\ pc[t] = "dry-run"
  /\ \/ /\ ~restricted
        /\ pc' = [pc EXCEPT ![t] = "placing"]
        /\ UNCHANGED <<task, pass, account, dte, price, power, qty>>
     \/ Skip(t, "other")
  /\ benched' = (benched \/ restricted)
  /\ UNCHANGED <<placed, brokerVars>>

Unused == CHOOSE i \in 1 .. MaxOrders : \A o \in book : o.id # i

Taken(t) ==
  [id |-> Unused, account |-> account[t], qty |-> qty[t], price |-> price[t], dte |-> dte[t],
   explicit |-> pass[t] = "held", maxLimitPrice |-> task[t].maxLimitPrice]

\* The broker reserves the cost of an order it takes.
BrokerTakes(t) ==
  /\ Cardinality(book) < MaxOrders
  /\ Cost(Taken(t)) <= funds[account[t]] /\ ~restricted
  /\ book' = book \cup {Taken(t)}
  /\ funds' = [funds EXCEPT ![account[t]] = @ - Cost(Taken(t))]
  /\ placed' = [placed EXCEPT ![t] = @ + 1]
  /\ UNCHANGED <<position, restricted, benched>>

\* Mutant: the first pass does not look at what the cheaper one did.
RetryIgnored(t) ==
  /\ pc[t] = "placing"
  /\ BrokerTakes(t)
  /\ IF pass[t] = "retry" THEN Skip(t, "funds") ELSE Idle(t)

\* createOrder: a pass that placed is the result of the attempt.
OrderSeed(t) ==
  /\ pc[t] = "placing"
  /\ BrokerTakes(t)
  /\ Idle(t)

\* trySpraySeed: several contracts in cash go to a spray, where the flag is on.
\* A spray counts as placed whether or not its first slice finds the funds.
trySpraySeed(t) ==
  /\ pc[t] = "placing" /\ account[t] = "cash" /\ qty[t] > 1
  /\ BrokerTakes(t) \/ UNCHANGED <<placed, brokerVars, benched>>
  /\ Idle(t)

\* createOrder throws, whether or not the broker took the order: the exception
\* leaves seedSymbol and its caller.
PlaceThrows(t) ==
  /\ pc[t] = "placing"
  /\ \/ UNCHANGED <<placed, brokerVars, benched>>
     \/ BrokerTakes(t)
  /\ Idle(t)

\* Any other call of the attempt throws.
CallThrows(t) ==
  /\ pc[t] \in {"resolving", "checking", "selecting", "quoting", "budgeting", "sizing"}
  /\ Idle(t)
  /\ UNCHANGED <<placed, brokerVars, benched>>

-----------------------------------------------------------------------------
(* The broker and the clock.                                               *)

OrderFills(o) ==
  /\ o \in book
  /\ book' = book \ {o}
  /\ position' = [position EXCEPT ![o.account] =
       [qty |-> @.qty + o.qty, value |-> @.value + Cost(o), dte |-> o.dte]]
  /\ UNCHANGED <<attemptVars, funds, restricted, benched>>

OrderDies(o) ==
  /\ o \in book
  /\ book' = book \ {o}
  /\ funds' = [funds EXCEPT ![o.account] = @ + Cost(o)]
  /\ UNCHANGED <<attemptVars, position, restricted, benched>>

PositionCloses(a) ==
  /\ Exposure(a) > 0
  /\ position' = [position EXCEPT ![a] = NoPosition]
  /\ funds' = [funds EXCEPT ![a] = @ + Exposure(a)]
  /\ UNCHANGED <<attemptVars, book, restricted, benched>>

RestrictionChanges ==
  /\ restricted' = ~restricted
  /\ UNCHANGED <<attemptVars, position, book, funds, benched>>

\* The entry of closingOnlyUntilBySymbol outlives its time.
BenchExpires ==
  /\ benched
  /\ benched' = FALSE
  /\ UNCHANGED <<attemptVars, brokerVars>>

Seed(t) ==
  \/ SeedAsked(t) \/ maybeSeedMarginAccountFromCashAccount(t)
  \/ maybeSeedCashAccountFromMarginAccount(t)
  \/ ResolvesAccount(t) \/ ChecksBench(t) \/ ChecksPosition(t) \/ Selects(t)
  \/ Quotes(t) \/ ReadsPower(t) \/ Sizes(t) \/ DryRuns(t) \/ OrderSeed(t) \/ trySpraySeed(t)
  \/ PlaceThrows(t) \/ CallThrows(t)

Next ==
  \/ \E t \in Attempts : Seed(t)
  \/ \E o \in book : OrderFills(o) \/ OrderDies(o)
  \/ \E a \in AccountTypes : PositionCloses(a)
  \/ RestrictionChanges \/ BenchExpires

Spec == Init /\ [][Next]_vars

-----------------------------------------------------------------------------

TypeOK ==
  /\ pc \in [Attempts -> {"idle", "resolving", "starting", "checking",
             "selecting", "quoting", "budgeting", "sizing", "dry-run", "placing"}]
  /\ pass \in [Attempts -> {"first", "retry", "held"}]
  /\ account \in [Attempts -> AccountTypes]
  /\ dte \in [Attempts -> Dtes \cup {None}]
  /\ price \in [Attempts -> Prices \cup {0}]
  /\ power \in [Attempts -> Nat] /\ qty \in [Attempts -> Nat]
  /\ placed \in [Attempts -> Nat]
  /\ funds \in [AccountTypes -> Nat]
  /\ restricted \in BOOLEAN /\ benched \in BOOLEAN

\* One attempt places at most one order, however its passes are nested: the
\* cheaper pass and the held contract are tried only when nothing was placed.
OneOrderPerAttempt == \A t \in Attempts : placed[t] <= 1

\* Whatever pass placed it, a cash seed expires within the wider window or is
\* the contract margin holds with days to spare, and a margin seed that
\* averages a cash position never pays more than that position did.
SeedIsSuitable ==
  \A o \in book :
    /\ o.account = "cash" =>
         \/ o.dte \in FallbackWindow
         \/ o.explicit /\ o.dte >= HeldFallbackMinDte
    /\ o.maxLimitPrice # None => o.price <= o.maxLimitPrice

Stake(a) == Exposure(a) + MapThenSumSet(Cost, {o \in book : o.account = a})

\* Seeds that are not placed beside one another keep the underlying under the
\* combined cap of the larger account, and a seeded margin account under its
\* leverage ceiling.
WithinCaps ==
  /\ Stake("cash") + Stake("margin")
       <= Max({CapOf(a, "combined") : a \in AccountTypes})
  /\ Stake("margin") > 0 => Elsewhere + Stake("margin") <= CapOf("margin", "margin")
=============================================================================
