------------------------------ MODULE RunCycle ------------------------------
(***************************************************************************)
(* One account's trading cycle (bot/run-cycle.ts with                      *)
(* execute-position-evaluations.ts and overnight-position-reduction.ts):   *)
(* sweep the account's orders, take a snapshot and decide, sweep again,    *)
(* close, buy, reduce what is held overnight, seed.  Nothing keeps a cycle *)
(* asked for over IPC from running beside the scheduler's, and the broker  *)
(* fills, ends and holds orders between any two steps.                     *)
(*                                                                         *)
(* A close, an allocation and a seed are here the order they leave in the  *)
(* book or do not: CloseChase, Allocation and Seeding have their inside.   *)
(* The decision on a group is a free choice among those the strategy can   *)
(* take for it.  Quantities are contracts.                                 *)
(***************************************************************************)
EXTENDS Integers, Sequences, FiniteSets, FiniteSetsExt

CONSTANTS
  Cycles,         \* cycles that may be under way at once
  AccountType,    \* accountMarginOrCash
  Symbols, Sides, \* the underlyings and "call", "put" or "none" (shares)
  HeldAtOpen,     \* contracts of each group at the start
  Overnight,      \* symbols isOvernightPosition answers yes for
  ExpiringToday,  \* groups with a leg of no days left
  DoNotTouch,     \* groups the configuration protects
  Resting,        \* sources of other orders that may rest in the book at the start
  ScalesOut,      \* getScaleOutConfig: is a first take-profit partial?
  HasExclusions,  \* recentlyClosedByAccount is there (not on a one-account run)
  MaxOrders,      \* bound: orders the account ever sees
  MaxHeld,        \* bound: contracts of a group
  LastPhase,      \* bound: the phase of the day the run ends with
  Flaky,          \* an order may be uncancellable for a moment, a cancel fail
  FillsInCycle,   \* orders fill and end while a cycle runs, not only between
  Throws          \* any await of a cycle may throw

Groups == Symbols \X Sides
SymbolOf(g) == g[1]

\* The day: before 7:30, the reduction window, from 11:30, from 12:00 (the
\* zero-DTE gate), and from 13:00.
Phases == 1 .. 5
isInOvernightReductionWindow(t) == t = 2
zeroDteArmed(t) == t >= 4
isPastCashCutoff(t) == t = 5

ASSUME RunCycleAssumption ==
  /\ AccountType \in {"cash", "margin"}
  /\ HeldAtOpen \in [Groups -> 0 .. MaxHeld]
  /\ Overnight \subseteq Symbols
  /\ ExpiringToday \subseteq Groups /\ DoNotTouch \subseteq Groups
  /\ {ScalesOut, HasExclusions, Flaky, FillsInCycle, Throws} \subseteq BOOLEAN
  /\ MaxOrders \in Nat \ {0} /\ MaxHeld \in Nat \ {0} /\ LastPhase \in Phases

VARIABLES
  orders,   \* every order of the account so far: its index is its id
  held,     \* contracts of each group
  phase,    \* the wall clock
  terminal, \* terminalOrderIdsByAccount: ids the sweep no longer looks at
  scaled,   \* the scale-out store: groups whose remainder is a runner
  sold,     \* history: groups a partial close was placed for
  cycle     \* each cycle's locals

vars == <<orders, held, phase, terminal, scaled, sold, cycle>>

-----------------------------------------------------------------------------
(* Orders and their sources (order-sources.ts, position-provenance.ts). *)

CycleSources == {"bot", "margin-seed-from-cash", "cash-seed-from-margin",
                 "overnight-reduction"}
Sources == CycleSources \cup
             {"secret-auto-seed", "spray-buy", "owner-directed", "manual", "blank"}

classifyOrderSource(source) ==
  CASE source = "blank" -> "unknown"
    [] source = "owner-directed" -> "owner-directed"
    [] source = "manual" -> "manual"
    [] OTHER -> "bot"

ASSUME RestingAssumption == Resting \subseteq Sources \ CycleSources

isSweepEligibleSource(source) == classifyOrderSource(source) = "bot"

\* Bot orders that rest across cycles by design.
ProtectedSources ==
  {"secret-auto-seed", "margin-seed-from-cash", "overnight-reduction", "spray-buy"}

SeedSource == IF AccountType = "margin" THEN "margin-seed-from-cash"
              ELSE "cash-seed-from-margin"

Gone == [status |-> "gone"]
Order(g, source, side, quantity) ==
  [status |-> "live", group |-> g, source |-> source, side |-> side,
   quantity |-> quantity]

Ids == 1 .. Len(orders)
\* In the book, whether or not a cancel would be taken now.
Working(i) == orders[i].status # "gone"
WorkingOf(source) == {i \in Ids : Working(i) /\ orders[i].source = source}
SellsOf(g) == {i \in Ids : Working(i) /\ orders[i].group = g /\ orders[i].side = "sell"}
OnSale(g) == MapThenSumSet(LAMBDA i : orders[i].quantity, SellsOf(g))

-----------------------------------------------------------------------------
(* The cycle's locals. *)

Steps == {"idle", "sweep1", "snapshot", "listing2", "sweep2", "select", "close", "record",
          "manage", "reduce", "seed", "seedPlace"}

NoPlan == [g \in Groups |-> "none"]
NoCount == [g \in Groups |-> 0]

Idle == [pc |-> "idle", list |-> {}, swept |-> 0, reducing |-> {}, at |-> 1,
         plan |-> NoPlan, seen |-> NoCount, strong |-> {}, todo |-> {},
         buys |-> {}, closed |-> {}, bought |-> {}, reduced |-> {},
         seeded |-> {}, seed |-> CHOOSE g \in Groups : TRUE]

TypeOK ==
  /\ Len(orders) <= MaxOrders
  /\ \A i \in Ids : Working(i) =>
       /\ orders[i].status \in {"live", "stuck"}
       /\ orders[i].group \in Groups /\ orders[i].source \in Sources
       /\ orders[i].side \in {"buy", "sell"} /\ orders[i].quantity \in 1 .. MaxHeld
  /\ held \in [Groups -> 0 .. MaxHeld]
  /\ phase \in Phases
  /\ terminal \subseteq Ids
  /\ scaled \subseteq Groups /\ sold \subseteq Groups
  /\ \A c \in Cycles :
       /\ cycle[c].pc \in Steps
       /\ cycle[c].list \subseteq Ids /\ cycle[c].swept \in 0 .. MaxOrders
       /\ cycle[c].todo \subseteq Groups /\ cycle[c].closed \subseteq Groups

Init ==
  /\ orders \in {<<>>} \cup
       {<<Order(g, source, "buy", 1)>> : g \in Groups, source \in Resting}
  /\ held = HeldAtOpen
  /\ phase \in 1 .. LastPhase
  /\ terminal = {} /\ scaled = {} /\ sold = {}
  /\ cycle = [c \in Cycles |-> Idle]

At(c, step) == cycle[c].pc = step
\* Cycle c goes on at a step, with other locals as given.
Goes(c, locals) == cycle' = [cycle EXCEPT ![c] = locals]
Local(c, step) == [cycle[c] EXCEPT !.pc = step]

-----------------------------------------------------------------------------
(* cancelAllLiveOrders, twice in a cycle. *)

\* Mutant: sells are left to work.
SweptIfBuying(i) ==
  /\ orders[i].status = "live" /\ i \notin terminal
  /\ isSweepEligibleSource(orders[i].source)
  /\ orders[i].source \notin ProtectedSources
  /\ orders[i].group \notin DoNotTouch
  /\ orders[i].side = "buy"

\* The listed orders the sweep asks the broker to cancel.
Swept(i) ==
  /\ orders[i].status = "live" /\ i \notin terminal
  /\ isSweepEligibleSource(orders[i].source)
  /\ orders[i].source \notin ProtectedSources
  /\ orders[i].group \notin DoNotTouch

\* The live orders arrive.  What needs no request is decided with them: an order
\* that cannot be cancelled just now is cached as terminal, and the protected
\* reductions that are not cached give the symbols they work for.
SweepLists(c, from, to) ==
  /\ At(c, from)
  /\ terminal' = terminal \cup {i \in Ids : orders[i].status = "stuck"}
  /\ Goes(c, [Local(c, to) EXCEPT
       !.list = {i \in Ids : Swept(i)},
       !.swept = Len(orders),
       !.reducing = {SymbolOf(orders[i].group) :
          i \in {j \in WorkingOf("overnight-reduction") :
                   orders[j].status = "live" /\ j \notin terminal}}])
  /\ UNCHANGED <<orders, held, phase, scaled, sold>>

\* cancelOrder on the next order of the list: taken, or refused because the
\* order is over or held, which caches it.
SweepCancels(c) ==
  LET i == Min(cycle[c].list)
  IN  /\ cycle[c].pc \in {"sweep1", "sweep2"} /\ cycle[c].list # {}
      /\ orders' = [orders EXCEPT ![i] = IF @.status = "live" THEN Gone ELSE @]
      /\ terminal' = IF orders[i].status = "live" THEN terminal ELSE terminal \cup {i}
      /\ Goes(c, [cycle[c] EXCEPT !.list = @ \ {i}])
      /\ UNCHANGED <<held, phase, scaled, sold>>

\* The request fails and the order works on; a message with "order" and, later,
\* "cancelled" in it reads as a refusal.
SweepCancelFails(c) ==
  LET i == Min(cycle[c].list)
  IN  /\ Flaky
      /\ cycle[c].pc \in {"sweep1", "sweep2"} /\ cycle[c].list # {}
      /\ terminal' \in {terminal, terminal \cup {i}}
      /\ Goes(c, [cycle[c] EXCEPT !.list = @ \ {i}])
      /\ UNCHANGED <<orders, held, phase, scaled, sold>>

SweepEnds(c, from, to) ==
  /\ At(c, from) /\ cycle[c].list = {}
  /\ Goes(c, Local(c, to))
  /\ UNCHANGED <<orders, held, phase, terminal, scaled, sold>>

-----------------------------------------------------------------------------
(* buildRunCycleContext: the snapshot and the decisions taken on it. *)

\* What evaluateTradingStrategy may answer for a group of n contracts; the
\* remainder of a scaled group is a runner, held or closed (isScaled's guard
\* against a fill price that has drifted is left out).
Decisions(g, n) ==
  IF n = 0 THEN {"none"}
  ELSE IF ScalesOut /\ AccountType = "cash" /\ g \in scaled THEN {"close", "hold"}
  ELSE {"close", "manage", "hold"} \cup
         (IF ScalesOut /\ AccountType = "cash" /\ n >= 2 THEN {"partial"} ELSE {})

\* withOvernightCloseOverrides, on a margin account.
withOvernightCloseOverrides(plan) ==
  [g \in Groups |->
     IF AccountType = "margin" /\ plan[g] = "manage" /\ SymbolOf(g) \in Overnight
     THEN "close" ELSE plan[g]]

Snapshot(c) ==
  /\ At(c, "snapshot")
  /\ \E plan \in [Groups -> {"none", "close", "partial", "manage", "hold"}],
        strong \in SUBSET (Symbols \cap Overnight) :
       /\ \A g \in Groups : plan[g] \in Decisions(g, held[g])
       /\ Goes(c, [Local(c, "listing2") EXCEPT
                     !.at = phase, !.seen = held, !.strong = strong, !.reducing = {},
                     !.plan = withOvernightCloseOverrides(plan)])
  /\ UNCHANGED <<orders, held, phase, terminal, scaled, sold>>

-----------------------------------------------------------------------------
(* executePositionEvaluations. *)

Actionable == Groups \ DoNotTouch
Openable(g) == g[2] # "none"

\* Mutant: the window does not hold back additions to overnight positions.
UngatedCandidates(l) == {g \in Actionable : l.plan[g] = "manage"}

\* The groups that may be added to: in the window not the overnight ones of a
\* cash account, unless a strong signal overrides.
ManageCandidates(l) ==
  {g \in Actionable :
     /\ l.plan[g] = "manage"
     /\ ~(/\ AccountType = "cash" /\ isInOvernightReductionWindow(l.at)
          /\ SymbolOf(g) \in Overnight /\ SymbolOf(g) \notin l.strong)}

\* Decided closes and those of the zero-DTE breaker, whatever the strategy said.
CloseCandidates(l) ==
  {g \in Actionable :
     \/ l.plan[g] \in {"close", "partial"}
     \/ /\ AccountType = "cash" /\ zeroDteArmed(l.at)
        /\ g \in ExpiringToday /\ l.seen[g] > 0}

partitionClosesByInstrumentGuard(l) == {g \in CloseCandidates(l) : Openable(g)}

\* selectManageEvaluationsByBuyingPower keeps as many as the funds allow.
Select(c) ==
  /\ At(c, "select")
  /\ \E buys \in SUBSET ManageCandidates(cycle[c]) :
       Goes(c, [Local(c, "close") EXCEPT
         !.todo = partitionClosesByInstrumentGuard(cycle[c]), !.buys = buys])
  /\ UNCHANGED <<orders, held, phase, terminal, scaled, sold>>

\* computeScaleOutMaxQuantity: half of a group, or all of it.
IsPartial(l, g) == l.plan[g] = "partial"
CloseQuantity(l, g) == IF IsPartial(l, g) THEN Max({1, l.seen[g] \div 2}) ELSE l.seen[g]

Places(g, source, side, quantity) ==
  /\ Len(orders) < MaxOrders
  /\ orders' = Append(orders, Order(g, source, side, quantity))

\* The closes run concurrently; closePosition places an order or skips.
CloseGroup(c, g) ==
  LET l == cycle[c]
  IN  /\ At(c, "close") /\ g \in l.todo
      /\ \/ /\ Places(g, "bot", "sell", CloseQuantity(l, g))
            /\ sold' = IF IsPartial(l, g) THEN sold \cup {g} ELSE sold
            /\ Goes(c, [l EXCEPT !.todo = @ \ {g}, !.closed = @ \cup {g}])
         \/ /\ Goes(c, [l EXCEPT !.todo = @ \ {g}])
            /\ UNCHANGED <<orders, sold>>
      /\ UNCHANGED <<held, phase, terminal, scaled>>

ClosesDone(c) ==
  /\ At(c, "close") /\ cycle[c].todo = {}
  /\ Goes(c, Local(c, "record"))
  /\ UNCHANGED <<orders, held, phase, terminal, scaled, sold>>

ClosedSymbols(l) == {SymbolOf(g) : g \in l.closed}

\* Mutant: a full close leaves the flag behind.
ScaledKeepingFlags(l) ==
  LET placed == {g \in partitionClosesByInstrumentGuard(l) : SymbolOf(g) \in ClosedSymbols(l)}
  IN  scaled \cup placed

\* The store after the closes: a group is marked or cleared when an order was
\* placed for its symbol, and what is no longer open is pruned.
ScaledAfter(l) ==
  LET placed == {g \in partitionClosesByInstrumentGuard(l) : SymbolOf(g) \in ClosedSymbols(l)}
      partial == {g \in placed : IsPartial(l, g)}
  IN  ((scaled \cup partial) \ (placed \ partial)) \cap {g \in Groups : l.seen[g] > 0}

RecordCloses(c) ==
  /\ At(c, "record")
  /\ scaled' = ScaledAfter(cycle[c])
  /\ sold' = sold \cap {g \in Groups : cycle[c].seen[g] > 0}
  /\ Goes(c, [Local(c, "manage") EXCEPT
       !.todo = cycle[c].buys, !.buys = {}, !.plan = NoPlan])
  /\ UNCHANGED <<orders, held, phase, terminal>>

\* manageAllocationForGroup, one group after the other.
ManageGroup(c, g) ==
  LET l == cycle[c]
  IN  /\ At(c, "manage") /\ g \in l.todo
      /\ \/ /\ Openable(g)
            /\ Places(g, "bot", "buy", 1)
            /\ Goes(c, [l EXCEPT !.todo = @ \ {g}, !.bought = @ \cup {g}])
         \/ /\ Goes(c, [l EXCEPT !.todo = @ \ {g}])
            /\ UNCHANGED orders
      /\ UNCHANGED <<held, phase, terminal, scaled, sold>>

\* On to the overnight reductions: all groups of the snapshot, from the moment
\* it is now and not the moment of the snapshot.
ManageDone(c) ==
  /\ At(c, "manage") /\ cycle[c].todo = {}
  /\ Goes(c, [Local(c, "reduce") EXCEPT
       !.todo = IF AccountType = "cash" /\ ~isPastCashCutoff(phase) /\ phase > 1
                THEN {g \in Groups : cycle[c].seen[g] > 0} ELSE {}])
  /\ UNCHANGED <<orders, held, phase, terminal, scaled, sold>>

-----------------------------------------------------------------------------
(* executeOvernightReductions. *)

\* Mutant: a reduction that already works is not looked for.
ReducibleAgain(l, g) ==
  /\ g \notin DoNotTouch
  /\ SymbolOf(g) \notin ClosedSymbols(l)
  /\ SymbolOf(g) \in Overnight /\ SymbolOf(g) \notin l.strong
  /\ Openable(g)

Reducible(l, g) ==
  /\ g \notin DoNotTouch
  /\ SymbolOf(g) \notin ClosedSymbols(l)
  /\ SymbolOf(g) \notin l.reducing
  /\ SymbolOf(g) \in Overnight /\ SymbolOf(g) \notin l.strong
  /\ Openable(g)

\* A reducible group is over its target by some contracts, or is not.
ReduceGroup(c, g) ==
  LET l == cycle[c]
  IN  /\ At(c, "reduce") /\ g \in l.todo
      /\ \/ \E n \in 1 .. l.seen[g] :
              /\ Reducible(l, g)
              /\ Places(g, "overnight-reduction", "sell", n)
              /\ Goes(c, [l EXCEPT !.todo = @ \ {g}, !.reduced = @ \cup {g}])
         \/ /\ Goes(c, [l EXCEPT !.todo = @ \ {g}])
            /\ UNCHANGED orders
      /\ UNCHANGED <<held, phase, terminal, scaled, sold>>

ReducesDone(c) ==
  /\ At(c, "reduce") /\ cycle[c].todo = {}
  /\ Goes(c, [Local(c, "seed") EXCEPT !.todo = {g \in Groups : Openable(g)}])
  /\ UNCHANGED <<orders, held, phase, terminal, scaled, sold>>

-----------------------------------------------------------------------------
(* Seeding from the other account: Seeding has the decisions. *)

\* Mutant: the symbols this run closed are not excluded.
NothingExcluded(l) == {}

\* The exclusion of the cash account is this run's; the margin account's is read
\* back from the map of the batch, which a one-account run lacks.
excludedSeedSymbols(l) ==
  IF AccountType = "cash" \/ HasExclusions THEN ClosedSymbols(l) ELSE {}

\* hasOpenUnderlyingPosition: positions, not working orders.
SeedChecks(c, g) ==
  LET l == cycle[c]
  IN  /\ At(c, "seed") /\ g \in l.todo
      /\ \/ /\ SymbolOf(g) \notin excludedSeedSymbols(l)
            /\ \A h \in Groups : SymbolOf(h) = SymbolOf(g) => held[h] = 0
            /\ Goes(c, [Local(c, "seedPlace") EXCEPT !.todo = @ \ {g}, !.seed = g])
         \/ Goes(c, [l EXCEPT !.todo = @ \ {g}])
      /\ UNCHANGED <<orders, held, phase, terminal, scaled, sold>>

SeedPlaces(c) ==
  LET l == cycle[c]
  IN  /\ At(c, "seedPlace")
      /\ \/ /\ Places(l.seed, SeedSource, "buy", 1)
            /\ Goes(c, [Local(c, "seed") EXCEPT !.seeded = @ \cup {l.seed}])
         \/ /\ Goes(c, Local(c, "seed"))
            /\ UNCHANGED orders
      /\ UNCHANGED <<held, phase, terminal, scaled, sold>>

-----------------------------------------------------------------------------

CycleBegins(c) == SweepLists(c, "idle", "sweep1")

CycleEnds(c) ==
  /\ At(c, "seed") /\ cycle[c].todo = {}
  /\ Goes(c, Idle)
  /\ UNCHANGED <<orders, held, phase, terminal, scaled, sold>>

\* An await throws: the rest of the cycle does not happen.
CycleThrows(c) ==
  /\ Throws /\ ~At(c, "idle")
  /\ Goes(c, Idle)
  /\ UNCHANGED <<orders, held, phase, terminal, scaled, sold>>

BrokerMoves == FillsInCycle \/ \A c \in Cycles : At(c, "idle")

OrderFills(i) ==
  LET o == orders[i]
  IN  /\ BrokerMoves /\ Working(i)
      /\ held' = [held EXCEPT ![o.group] =
           IF o.side = "buy" THEN Min({MaxHeld, @ + o.quantity})
           ELSE Max({0, @ - o.quantity})]
      /\ orders' = [orders EXCEPT ![i] = Gone]
      /\ UNCHANGED <<phase, terminal, scaled, sold, cycle>>

OrderExpires(i) ==
  /\ BrokerMoves /\ Working(i)
  /\ orders' = [orders EXCEPT ![i] = Gone]
  /\ UNCHANGED <<held, phase, terminal, scaled, sold, cycle>>

\* In flight, or a cancel or replace pending: not cancellable for a while.
OrderStalls(i) ==
  /\ Flaky /\ Working(i)
  /\ orders' = [orders EXCEPT ![i].status = IF @ = "live" THEN "stuck" ELSE "live"]
  /\ UNCHANGED <<held, phase, terminal, scaled, sold, cycle>>

TimePasses ==
  /\ phase < LastPhase
  /\ phase' = phase + 1
  /\ UNCHANGED <<orders, held, terminal, scaled, sold, cycle>>

Step(c) ==
  \/ CycleBegins(c)
  \/ SweepCancels(c) \/ SweepCancelFails(c)
  \/ SweepEnds(c, "sweep1", "snapshot")
  \/ Snapshot(c)
  \/ SweepLists(c, "listing2", "sweep2")
  \/ SweepEnds(c, "sweep2", "select")
  \/ Select(c)
  \/ \E g \in Groups : CloseGroup(c, g) \/ ManageGroup(c, g) \/ ReduceGroup(c, g)
                         \/ SeedChecks(c, g)
  \/ ClosesDone(c) \/ RecordCloses(c) \/ ManageDone(c) \/ ReducesDone(c)
  \/ SeedPlaces(c) \/ CycleEnds(c) \/ CycleThrows(c)

Next ==
  \/ \E c \in Cycles : Step(c)
  \/ \E i \in Ids : OrderFills(i) \/ OrderExpires(i) \/ OrderStalls(i)
  \/ TimePasses

Spec == Init /\ [][Next]_vars

-----------------------------------------------------------------------------
Acting(c) == cycle[c].pc \in {"select", "close", "record", "manage", "reduce",
                              "seed", "seedPlace"}

\* Once a cycle acts, nothing the sweep is there to clear is left of what the
\* sweep saw: no buy or close of an earlier cycle works beside the new ones.
SweptBeforeActing ==
  \A c \in Cycles : Acting(c) =>
    \A i \in 1 .. cycle[c].swept :
      ~(/\ Working(i) /\ isSweepEligibleSource(orders[i].source)
        /\ orders[i].source \notin ProtectedSources
        /\ orders[i].group \notin DoNotTouch)

\* A group has one working overnight reduction at most: the sweep protects it,
\* and the cycle that finds it protected places no other.
OneReduction ==
  \A g \in Groups :
    Cardinality({i \in WorkingOf("overnight-reduction") : orders[i].group = g}) <= 1

\* What the working closes and reductions of a group offer is held.
NeverOversells == \A g \in Groups : OnSale(g) <= held[g]

\* One cycle does not both sell out of a symbol and buy into it: not by an
\* addition, not by a seed.
NoRoundTrip ==
  \A c \in DOMAIN cycle :
    /\ cycle[c].bought \cap cycle[c].closed = {}
    /\ \A g \in cycle[c].seeded : SymbolOf(g) \notin ClosedSymbols(cycle[c])

\* A cycle that decided within the reduction window never adds to a position it
\* reduces.
NoFlipFlop ==
  \A c \in DOMAIN cycle : isInOvernightReductionWindow(cycle[c].at) =>
    cycle[c].bought \cap cycle[c].reduced = {}

\* A group is treated as a runner only after a first tranche was placed for sale
\* (scale-out-store.ts: a row means "the first tranche was scaled out").
RunnerSoldItsTranche == scaled \subseteq sold

\* An order the sweep no longer looks at is over
\* (execute-position-evaluations.ts: ids "confirmed as terminal").
TerminalIsOver == \A i \in terminal : ~Working(i)
=============================================================================
