------------------------------ MODULE SprayBuy ------------------------------
(***************************************************************************)
(* The spray-buy executor and its cross-cycle store                        *)
(* (bot/actions/spray-buy.ts, bot/actions/spray-store.ts).                 *)
(*                                                                         *)
(* A spray acquires Total contracts of one option along a time-ramped      *)
(* cumulative target, with one working limit order that is re-read,        *)
(* cancelled and re-placed as the ramp and the book move.  Its record      *)
(* lives in a JSON file that every activity reads, changes in memory and   *)
(* writes back without a lock.                                             *)
(*                                                                         *)
(* Three activities touch it: the run cycle (advanceSprays), a seed        *)
(* (startSprayBuy) and an abort (abortSprayBuy).  Each is asynchronous and *)
(* is split into one action per await, so that activities, broker events,  *)
(* the clock and a process crash interleave exactly where the event loop   *)
(* lets them.                                                              *)
(*                                                                         *)
(* Prices are abstracted: whether the working order is re-priced this      *)
(* cycle is a free choice, except that a size mismatch forces it.          *)
(***************************************************************************)
EXTENDS Integers, FiniteSets

CONSTANTS
  Contracts,        \* option contracts a seed may spray
  Total,            \* totalContracts of every spray
  Window,           \* windowMs, in clock ticks
  Ramp,             \* Ramp[e]: contracts unlocked e ticks after the start
  AbortAfter,       \* BOT_SPRAY_QUOTE_UNAVAILABLE_ABORT_MS, in clock ticks
  MaxClock,         \* bound: last clock tick; no spray starts that ends later
  MaxStarts,        \* bound: calls of startSprayBuy
  MaxOrders,        \* bound: orders the broker accepts
  MaxCrashes,       \* bound: process restarts
  Overlap,          \* may activities run while another one awaits?
  AbortCalls,       \* is abortSprayBuy ever called?
  StatusErrors,     \* may getOrderStatus throw?
  LostReplies,      \* may createOrder fail, or its answer lack an id, although the
                    \* order was accepted?
  StoreErrors,      \* may a write of the store file fail?
  CancelIsFinal,    \* does an accepted cancel stop all further fills?
  NoRecord, NoSpray \* "no such entry" and "no spray in hand"

RampAssumption ==
  /\ Total \in Nat \ {0} /\ Window \in Nat \ {0} /\ AbortAfter \in Nat
  /\ MaxClock \in Nat /\ MaxOrders \in Nat
  /\ MaxStarts \in Nat /\ MaxCrashes \in Nat
  /\ Ramp \in [0 .. Window - 1 -> 1 .. Total]
  /\ \A e, f \in 0 .. Window - 1 : e <= f => Ramp[e] <= Ramp[f]
ASSUME RampAssumption

SwitchAssumption ==
  /\ Overlap \in BOOLEAN /\ AbortCalls \in BOOLEAN /\ StatusErrors \in BOOLEAN
  /\ LostReplies \in BOOLEAN /\ StoreErrors \in BOOLEAN
  /\ CancelIsFinal \in BOOLEAN
ASSUME SwitchAssumption

Activities == {"cycle", "start", "abort"}

\* A spray's id is account:contract:startedAtMs, so the same contract started
\* at another time is another spray.
Sprays == Contracts \X (0 .. MaxClock)
ContractOf(s) == s[1]
startedAt(s) == s[2]

\* No caller passes notAfterMs, so only the window bounds a spray.
deadline(s) == startedAt(s) + Window

\* A working slot; id 0 is null.
SprayWorkingOrder == [id : Nat, quantity : Nat, filledBefore : Nat]
NoOrder == [id |-> 0, quantity |-> 0, filledBefore |-> 0]

SprayRampRecord ==
  [observedFilled : Nat, workingOrder : SprayWorkingOrder, aborted : BOOLEAN,
   quoteUnavailableSince : Nat \cup {-1}]
NewRecord == [observedFilled |-> 0, workingOrder |-> NoOrder,
              aborted |-> FALSE, quoteUnavailableSince |-> -1]

ASSUME NoRecordAssumption == NoRecord \notin SprayRampRecord
ASSUME NoSprayAssumption == NoSpray \notin Sprays

SprayData == [Sprays -> SprayRampRecord \cup {NoRecord}]
EmptyData == [s \in Sprays |-> NoRecord]

\* prior is history: what the spray had bought when the order was placed.
Orders == [spray : Sprays, quantity : 1 .. Total, filled : Nat, prior : Nat,
           status : {"live", "cancelling", "filled", "dead"}]

VARIABLES
  clock,   \* Date.now()
  store,   \* the content of spray-buys.json; a torn file reads as empty
  placed,  \* number of orders the broker has accepted
  orders,  \* the broker's orders, by id
  bought,  \* contracts bought for each spray
  starts, crashes,
  pc,      \* where each activity waits
  cur,     \* the spray it is advancing
  rec,     \* its in-memory copy of that record
  now,     \* the time it read when it began advancing the record
  todo,    \* records loaded by the cycle and not advanced yet
  goal,    \* why it retires an order, or what follows a store write
  out      \* the data it is about to write

brokerVars == <<placed, orders, bought>>
localVars == <<pc, cur, rec, now, todo, goal, out>>
vars == <<clock, store, brokerVars, starts, crashes, localVars>>

PCs == {"idle", "next", "reconcile", "retire", "cancel", "recheck", "quote",
        "place", "save", "truncate", "write"}

TypeOK ==
  /\ clock \in 0 .. MaxClock
  /\ store \in SprayData
  /\ placed \in 0 .. MaxOrders
  /\ orders \in [1 .. placed -> Orders]
  /\ bought \in [Sprays -> Nat]
  /\ starts \in 0 .. MaxStarts
  /\ crashes \in 0 .. MaxCrashes
  /\ pc \in [Activities -> PCs]
  /\ cur \in [Activities -> Sprays \cup {NoSpray}]
  /\ rec \in [Activities -> SprayRampRecord]
  /\ now \in [Activities -> 0 .. MaxClock]
  /\ todo \in [Activities -> SprayData]
  /\ goal \in [Activities -> {"none", "register", "abort", "replace"}]
  /\ out \in [Activities -> SprayData]
  /\ \A a \in Activities : pc[a] \notin {"idle", "next"} => cur[a] \in Sprays

Init ==
  /\ clock = 0
  /\ store = EmptyData
  /\ placed = 0
  /\ orders = [o \in {} |-> NoOrder]
  /\ bought = [s \in Sprays |-> 0]
  /\ starts = 0
  /\ crashes = 0
  /\ pc = [a \in Activities |-> "idle"]
  /\ cur = [a \in Activities |-> NoSpray]
  /\ rec = [a \in Activities |-> NewRecord]
  /\ now = [a \in Activities |-> 0]
  /\ todo = [a \in Activities |-> EmptyData]
  /\ goal = [a \in Activities |-> "none"]
  /\ out = [a \in Activities |-> EmptyData]

-----------------------------------------------------------------------------
(* Pure helpers *)

Larger(m, n) == IF m >= n THEN m ELSE n

\* Contracts the ramp allows to be filled `elapsed` ticks after the start.
cumulativeAllowed(elapsed) == IF elapsed >= Window THEN Total ELSE Ramp[elapsed]

isSprayComplete(r) == r.aborted \/ r.observedFilled >= Total

\* Drop resolved records before writing.
pruneCompletedSprays(data) ==
  [s \in Sprays |-> IF data[s] # NoRecord /\ isSprayComplete(data[s])
                    THEN NoRecord ELSE data[s]]

InBook(o) == orders[o].status \in {"live", "cancelling"}

\* Mutant: the order's fills are added to those already observed.
ReconciledTwice(r) ==
  LET w == r.workingOrder
  IN  [r EXCEPT !.observedFilled = @ + orders[w.id].filled,
                !.workingOrder = IF InBook(w.id) THEN w ELSE NoOrder]

\* The record after the broker answered for its working order.
Reconciled(r) ==
  LET w == r.workingOrder
      seen == Larger(r.observedFilled, w.filledBefore + orders[w.id].filled)
  IN  [r EXCEPT !.observedFilled = seen,
                !.workingOrder = IF InBook(w.id) THEN w ELSE NoOrder]

\* Mutant: a status call that throws frees the working slot.
reconcileForgets(r) ==
  IF r.workingOrder.id = 0 THEN {r}
  ELSE {Reconciled(r)}
       \cup (IF StatusErrors THEN {[r EXCEPT !.workingOrder = NoOrder]} ELSE {})

\* What reconcileWorkingOrder may leave in the record: a status call that
\* throws leaves it as it was.
reconcileWorkingOrder(r) ==
  IF r.workingOrder.id = 0 THEN {r}
  ELSE {Reconciled(r)} \cup (IF StatusErrors THEN {r} ELSE {})

\* Mutant: the whole remainder is ordered at once.
ShortfallOfTotal(a, r) == Total - r.observedFilled

Shortfall(a, r) ==
  cumulativeAllowed(now[a] - startedAt(cur[a])) - r.observedFilled

\* Whether an activity may begin.
MayBegin(a) ==
  /\ pc[a] = "idle"
  /\ Overlap \/ \A b \in Activities : pc[b] = "idle"

\* The activity is through with its spray.
DoneWithSpray(a) ==
  /\ pc' = [pc EXCEPT ![a] = IF a = "cycle" THEN "next" ELSE "idle"]
  /\ cur' = [cur EXCEPT ![a] = NoSpray]
  /\ rec' = [rec EXCEPT ![a] = NewRecord]
  /\ now' = [now EXCEPT ![a] = 0]
  /\ goal' = [goal EXCEPT ![a] = "none"]
  /\ out' = [out EXCEPT ![a] = EmptyData]

\* Go on with record r at program point p.
GoOn(a, r, p) ==
  /\ rec' = [rec EXCEPT ![a] = r]
  /\ pc' = [pc EXCEPT ![a] = p]

\* The working order is retired: abort at the deadline, or place its
\* successor for what is left.
Retired(a, r) ==
  IF goal[a] = "abort" THEN GoOn(a, [r EXCEPT !.aborted = TRUE], "save")
  ELSE IF Shortfall(a, r) > 0 /\ ~isSprayComplete(r) THEN GoOn(a, r, "place")
  ELSE GoOn(a, r, "save")

-----------------------------------------------------------------------------
(* Beginning an activity *)

\* advanceSprays: loads every active record at once.  Its pruning write never
\* happens, since no write leaves a resolved record behind (OnlyActiveStored).
advanceSprays ==
  /\ MayBegin("cycle")
  /\ todo' = [todo EXCEPT !["cycle"] = pruneCompletedSprays(store)]
  /\ pc' = [pc EXCEPT !["cycle"] = "next"]
  /\ UNCHANGED <<clock, store, brokerVars, starts, crashes, cur, rec, now,
                 goal, out>>

\* The loop of advanceSprays takes up the next loaded record: advanceOneSpray
\* reads the clock before its first await.
NextSpray(s) ==
  /\ pc["cycle"] = "next"
  /\ todo["cycle"][s] # NoRecord
  /\ todo' = [todo EXCEPT !["cycle"][s] = NoRecord]
  /\ cur' = [cur EXCEPT !["cycle"] = s]
  /\ now' = [now EXCEPT !["cycle"] = clock]
  /\ GoOn("cycle", todo["cycle"][s], "reconcile")
  /\ UNCHANGED <<clock, store, brokerVars, starts, crashes, goal, out>>

CycleEnds ==
  /\ pc["cycle"] = "next"
  /\ todo["cycle"] = EmptyData
  /\ pc' = [pc EXCEPT !["cycle"] = "idle"]
  /\ UNCHANGED <<clock, store, brokerVars, starts, crashes, cur, rec, now,
                 todo, goal, out>>

\* startSprayBuy for a contract the account does not hold (seedSymbol asks
\* the broker for positions first; working orders do not show there).
startSprayBuy(c) ==
  LET s == <<c, clock>>
      known == store[s] # NoRecord
  IN  /\ MayBegin("start")
      /\ starts < MaxStarts /\ deadline(s) <= MaxClock
      /\ \A z \in Sprays : ContractOf(z) = c => bought[z] = 0
      /\ starts' = starts + 1
      /\ cur' = [cur EXCEPT !["start"] = s]
      /\ now' = [now EXCEPT !["start"] = clock]
      /\ IF known  \* registerSpray returns the stored record untouched
         THEN /\ GoOn("start", store[s], "reconcile")
              /\ UNCHANGED <<goal, out>>
         ELSE /\ GoOn("start", NewRecord, "truncate")
              /\ goal' = [goal EXCEPT !["start"] = "register"]
              /\ out' = [out EXCEPT !["start"] = [store EXCEPT ![s] = NewRecord]]
      /\ UNCHANGED <<clock, store, brokerVars, crashes, todo>>

\* abortSpray: reads the store, marks the record and writes the pruned data.
abortSprayBuy(s) ==
  /\ AbortCalls
  /\ MayBegin("abort")
  /\ store[s] # NoRecord
  /\ cur' = [cur EXCEPT !["abort"] = s]
  /\ GoOn("abort", [store[s] EXCEPT !.aborted = TRUE], "truncate")
  /\ out' = [out EXCEPT !["abort"] =
       pruneCompletedSprays([store EXCEPT ![s].aborted = TRUE])]
  /\ UNCHANGED <<clock, store, brokerVars, starts, crashes, now, todo, goal>>

-----------------------------------------------------------------------------
(* advanceOneSpray, one action per await *)

\* Fold fills and free a dead slot; then past the deadline retire the order,
\* else chase a shortfall.
ReconcileOrder(a) ==
  /\ pc[a] = "reconcile"
  /\ \E r \in reconcileWorkingOrder(rec[a]) :
       IF now[a] >= deadline(cur[a])
       THEN /\ goal' = [goal EXCEPT ![a] = "abort"]
            /\ IF r.workingOrder.id = 0
               THEN GoOn(a, [r EXCEPT !.aborted = TRUE], "save")
               ELSE GoOn(a, r, "retire")
       ELSE /\ goal' = goal
            /\ IF Shortfall(a, r) > 0 THEN GoOn(a, r, "quote")
                                      ELSE GoOn(a, r, "save")
  /\ UNCHANGED <<clock, store, brokerVars, starts, crashes, cur, now, todo, out>>

\* A usable quote: place a first order, or hold the working one, or re-price it.
UsableQuote(a) ==
  LET r == [rec[a] EXCEPT !.quoteUnavailableSince = -1]
      w == r.workingOrder
  IN  /\ pc[a] = "quote"
      /\ \/ /\ w.id = 0
            /\ GoOn(a, r, "place")
            /\ goal' = goal
         \/ /\ w.id # 0 /\ w.quantity = Shortfall(a, r)
            /\ GoOn(a, r, "save")
            /\ goal' = goal
         \/ /\ w.id # 0
            /\ GoOn(a, r, "retire")
            /\ goal' = [goal EXCEPT ![a] = "replace"]
      /\ UNCHANGED <<clock, store, brokerVars, starts, crashes, cur, now, todo,
                     out>>

\* No usable quote: start or extend the streak, and abort when it is too long.
NoQuote(a) ==
  LET r == rec[a]
      since == IF r.quoteUnavailableSince = -1 THEN now[a]
               ELSE r.quoteUnavailableSince
  IN  /\ pc[a] = "quote"
      /\ GoOn(a, [r EXCEPT !.quoteUnavailableSince = since,
                           !.aborted = (now[a] - since >= AbortAfter)], "save")
      /\ UNCHANGED <<clock, store, brokerVars, starts, crashes, cur, now, todo,
                     goal, out>>

\* The first step of retireWorkingOrder: re-read the fill one last time.
RetireOrder(a) ==
  /\ pc[a] = "retire"
  /\ \E r \in reconcileWorkingOrder(rec[a]) :
       IF r.workingOrder.id = 0 THEN Retired(a, r) ELSE GoOn(a, r, "cancel")
  /\ UNCHANGED <<clock, store, brokerVars, starts, crashes, cur, now, todo,
                 goal, out>>

\* The cancel is accepted; only an order still in the book can be cancelled.
CancelAccepted(a) ==
  LET o == rec[a].workingOrder.id
  IN  /\ pc[a] = "cancel"
      /\ InBook(o)
      /\ orders' = [orders EXCEPT ![o].status =
                      IF CancelIsFinal THEN "dead" ELSE "cancelling"]
      /\ pc' = [pc EXCEPT ![a] = "recheck"]
      /\ UNCHANGED <<clock, store, placed, bought, starts, crashes, cur, rec,
                     now, todo, goal, out>>

\* Mutant: a failed cancel at the deadline keeps the spray for the next cycle.
CancelFailedKeeps(a) ==
  /\ pc[a] = "cancel"
  /\ GoOn(a, rec[a], "save")
  /\ UNCHANGED <<clock, store, brokerVars, starts, crashes, cur, now, todo,
                 goal, out>>

\* The cancel fails: never place a competitor.  At the deadline the result is
\* ignored and the spray is aborted all the same.
CancelFailed(a) ==
  /\ pc[a] = "cancel"
  /\ GoOn(a, [rec[a] EXCEPT !.aborted = (goal[a] = "abort")], "save")
  /\ UNCHANGED <<clock, store, brokerVars, starts, crashes, cur, now, todo,
                 goal, out>>

\* Capture a fill that landed before the cancel, then free the slot.
RecheckOrder(a) ==
  /\ pc[a] = "recheck"
  /\ \E r \in reconcileWorkingOrder(rec[a]) :
       Retired(a, [r EXCEPT !.workingOrder = NoOrder])
  /\ UNCHANGED <<clock, store, brokerVars, starts, crashes, cur, now, todo,
                 goal, out>>

\* createOrder is accepted.  When the reply is lost the order is in the book
\* and the record does not know it.
PlaceAccepted(a) ==
  LET quantity == Shortfall(a, rec[a])
      id == placed + 1
      w == [id |-> id, quantity |-> quantity,
            filledBefore |-> rec[a].observedFilled]
  IN  /\ pc[a] = "place"
      /\ placed < MaxOrders
      /\ placed' = id
      /\ orders' = [o \in 1 .. id |->
           IF o = id
           THEN [spray |-> cur[a], quantity |-> quantity, filled |-> 0,
                 prior |-> bought[cur[a]], status |-> "live"]
           ELSE orders[o]]
      /\ \/ GoOn(a, [rec[a] EXCEPT !.workingOrder = w], "save")
         \/ LostReplies /\ GoOn(a, rec[a], "save")
      /\ UNCHANGED <<clock, store, bought, starts, crashes, cur, now, todo,
                     goal, out>>

PlaceRejected(a) ==
  /\ pc[a] = "place"
  /\ GoOn(a, rec[a], "save")
  /\ UNCHANGED <<clock, store, brokerVars, starts, crashes, cur, now, todo,
                 goal, out>>

\* saveSpray reads the store; it gives up when the spray is gone.
ReadForSave(a) ==
  /\ pc[a] = "save"
  /\ IF store[cur[a]] = NoRecord
     THEN DoneWithSpray(a)
     ELSE /\ out' = [out EXCEPT ![a] =
               pruneCompletedSprays([store EXCEPT ![cur[a]] = rec[a]])]
          /\ goal' = [goal EXCEPT ![a] = "none"]
          /\ pc' = [pc EXCEPT ![a] = "truncate"]
          /\ UNCHANGED <<cur, rec, now>>
  /\ UNCHANGED <<clock, store, brokerVars, starts, crashes, todo>>

\* fs.writeFile truncates the file, then writes it: in between a reader sees
\* no JSON and takes the store to be empty.
TruncateFile(a) ==
  /\ pc[a] = "truncate"
  /\ store' = EmptyData
  /\ pc' = [pc EXCEPT ![a] = "write"]
  /\ UNCHANGED <<clock, brokerVars, starts, crashes, cur, rec, now, todo, goal,
                 out>>

\* After registering, the start advances its new spray once.
writeStore(a) ==
  /\ pc[a] = "write"
  /\ store' = out[a]
  /\ IF goal[a] = "register"
     THEN /\ pc' = [pc EXCEPT ![a] = "reconcile"]
          /\ now' = [now EXCEPT ![a] = clock]
          /\ goal' = [goal EXCEPT ![a] = "none"]
          /\ out' = [out EXCEPT ![a] = EmptyData]
          /\ UNCHANGED <<cur, rec>>
     ELSE DoneWithSpray(a)
  /\ UNCHANGED <<clock, brokerVars, starts, crashes, todo>>

\* An exception leaves advanceOneSpray: the quote session cannot be opened, or
\* the store file cannot be written.  The cycle skips all remaining sprays.
AdvanceThrows(a) ==
  /\ pc[a] = "quote" \/ (StoreErrors /\ pc[a] \in {"truncate", "write"})
  /\ pc' = [pc EXCEPT ![a] = "idle"]
  /\ cur' = [cur EXCEPT ![a] = NoSpray]
  /\ rec' = [rec EXCEPT ![a] = NewRecord]
  /\ now' = [now EXCEPT ![a] = 0]
  /\ todo' = [todo EXCEPT ![a] = EmptyData]
  /\ goal' = [goal EXCEPT ![a] = "none"]
  /\ out' = [out EXCEPT ![a] = EmptyData]
  /\ UNCHANGED <<clock, store, brokerVars, starts, crashes>>

-----------------------------------------------------------------------------
(* The broker, the clock and the process *)

FillOne(o) ==
  /\ InBook(o)
  /\ orders' = [orders EXCEPT
       ![o].filled = @ + 1,
       ![o].status = IF orders[o].filled + 1 >= orders[o].quantity
                     THEN "filled" ELSE @]
  /\ bought' = [bought EXCEPT ![orders[o].spray] = @ + 1]
  /\ UNCHANGED <<clock, store, placed, starts, crashes, localVars>>

\* A requested cancel takes effect, or the order leaves the book unfilled: the
\* day ends, the exchange rejects it, or the cancel sweep takes it (a spray
\* carries its seed's order source, which the sweep may not protect).
OrderDies(o) ==
  /\ InBook(o)
  /\ orders' = [orders EXCEPT ![o].status = "dead"]
  /\ UNCHANGED <<clock, store, placed, bought, starts, crashes, localVars>>

Tick ==
  /\ clock < MaxClock
  /\ clock' = clock + 1
  /\ UNCHANGED <<store, brokerVars, starts, crashes, localVars>>

\* The process dies and restarts: the file and the broker's book remain.
Crash ==
  /\ crashes < MaxCrashes
  /\ crashes' = crashes + 1
  /\ pc' = [a \in Activities |-> "idle"]
  /\ cur' = [a \in Activities |-> NoSpray]
  /\ rec' = [a \in Activities |-> NewRecord]
  /\ now' = [a \in Activities |-> 0]
  /\ todo' = [a \in Activities |-> EmptyData]
  /\ goal' = [a \in Activities |-> "none"]
  /\ out' = [a \in Activities |-> EmptyData]
  /\ UNCHANGED <<clock, store, brokerVars, starts>>

CycleSteps == advanceSprays \/ CycleEnds \/ \E s \in Sprays : NextSpray(s)

AdvanceSteps(a) ==
  \/ ReconcileOrder(a) \/ UsableQuote(a) \/ NoQuote(a)
  \/ RetireOrder(a) \/ CancelAccepted(a) \/ CancelFailed(a) \/ RecheckOrder(a)
  \/ PlaceAccepted(a) \/ PlaceRejected(a)
  \/ ReadForSave(a) \/ TruncateFile(a) \/ writeStore(a) \/ AdvanceThrows(a)

BrokerSteps == \E o \in 1 .. placed : FillOne(o) \/ OrderDies(o)

Next ==
  \/ CycleSteps
  \/ \E c \in Contracts : startSprayBuy(c)
  \/ \E s \in Sprays : abortSprayBuy(s)
  \/ \E a \in Activities : AdvanceSteps(a)
  \/ BrokerSteps
  \/ Tick
  \/ Crash

Spec == Init /\ [][Next]_vars

\* Awaited calls return, the scheduler keeps running cycles and time passes.
\* Nothing is assumed of fills, cancels, quotes or crashes.
Fairness ==
  /\ WF_vars(CycleSteps)
  /\ \A a \in Activities : WF_vars(AdvanceSteps(a))
  /\ WF_vars(Tick)

FairSpec == Spec /\ Fairness

-----------------------------------------------------------------------------
(* What the executor promises *)

\* All in-memory and stored copies of the record of s.
CopiesOf(s) ==
  {store[s]} \cup {rec[a] : a \in {b \in Activities : cur[b] = s}}
  \cup UNION {{todo[a][s], out[a][s]} : a \in Activities}

\* However activities, crashes and errors interleave, no copy of a record
\* claims more contracts than were bought: re-reading an order, or replaying a
\* stale record, never counts a fill twice (spray-store.ts, observedFilled).
NeverOvercounts ==
  \A s \in Sprays : \A r \in CopiesOf(s) \ {NoRecord} :
    r.observedFilled <= bought[s]

\* The file never keeps a spray that is resolved, so the pruning of
\* loadActiveSprays has nothing to write back (proved in SprayBuyProofs).
OnlyActiveStored ==
  \A s \in Sprays : store[s] # NoRecord => ~isSprayComplete(store[s])

\* What is about to overwrite the file is never behind it: the observed fill of
\* a spray only moves forward, across cycles, failed calls and restarts
\* (spray-store.ts, idempotence rules).
ObservedForward ==
  \A a \in Activities, s \in Sprays :
    (pc[a] = "truncate" /\ NoRecord \notin {store[s], out[a][s]})
      => store[s].observedFilled <= out[a][s].observedFilled

\* At most one working order of a spray is in the book: a status call that
\* throws or a cancel that fails never leads to a competitor (spray-buy.ts,
\* reconcileWorkingOrder and retireWorkingOrder).
SingleLiveOrder ==
  \A o, p \in 1 .. placed :
    (InBook(o) /\ InBook(p) /\ orders[o].spray = orders[p].spray) => o = p

\* The same for a contract, whatever its sprays (spray-buy.ts, header).
OneOrderPerContract ==
  \A o, p \in 1 .. placed :
    (/\ InBook(o) /\ InBook(p)
     /\ ContractOf(orders[o].spray) = ContractOf(orders[p].spray)) => o = p

\* Between activities, an order in the book of a spray that is still active is
\* the one its stored record names: the next cycle will find it.
LiveOrderIsKnown ==
  (\A a \in Activities : pc[a] = "idle") =>
    \A o \in 1 .. placed :
      LET r == store[orders[o].spray]
      IN  (InBook(o) /\ r # NoRecord) => r.workingOrder.id = o

\* Between activities, every order of a spray in the book is named by a stored
\* record, so that the executor can still clean it up.
NoStrandedOrder ==
  (\A a \in Activities : pc[a] = "idle") =>
    \A o \in 1 .. placed :
      InBook(o) => /\ store[orders[o].spray] # NoRecord
                   /\ store[orders[o].spray].workingOrder.id = o

\* What a spray has bought, and may still buy with the orders in the book,
\* never exceeds what the ramp allows by now; in the end, its total.
NeverAheadOfRamp ==
  \A s \in Sprays :
    LET allowed == cumulativeAllowed(clock - startedAt(s))
    IN  /\ bought[s] > 0 => bought[s] <= allowed
        /\ \A o \in 1 .. placed :
             (InBook(o) /\ orders[o].spray = s)
               => bought[s] + orders[o].quantity - orders[o].filled <= allowed

\* What the ramp of a spray has unlocked, and what its orders may still buy.
Unlocked(s) ==
  IF startedAt(s) <= clock THEN cumulativeAllowed(clock - startedAt(s)) ELSE 0
OpenOrders(s) ==
  {[id |-> o, rest |-> orders[o].quantity - orders[o].filled] :
     o \in {p \in 1 .. placed : InBook(p) /\ orders[p].spray = s}}

\* A spray is a Purchase: one order at a time, for no more than its ramp has
\* unlocked and it has not bought yet (spray-buy.ts, header).
Promise == INSTANCE Purchase WITH
  Items <- Sprays, Ids <- 1 .. MaxOrders,
  allowance <- [s \in Sprays |-> Unlocked(s)], open <- [s \in Sprays |-> OpenOrders(s)]

ImplementsPurchase == Promise!Spec

\* Every spray is resolved and leaves the file for good: the deadline gets it
\* even if no quote, cancel or order ever succeeds.
SprayResolved == \A s \in Sprays : <>[](store[s] = NoRecord)
=============================================================================
