--------------------------- MODULE SprayBuyProofs ---------------------------
(***************************************************************************)
(* Proofs about SprayBuy for every value of its constants: type            *)
(* correctness, that no copy of a record ever claims a fill that did not   *)
(* happen, that the file keeps active sprays only and, where activities    *)
(* take turns, that a spray has one order at a time, buys no more than its *)
(* ramp allows by then and is a Purchase.                                  *)
(***************************************************************************)
EXTENDS MCSprayBuy, TLAPS

\* A slot of spray s names an order of s, placed when at least filledBefore
\* contracts had been bought.
GoodSlot(s, w) ==
  w.id # 0 => /\ w.id \in 1 .. placed
              /\ orders[w.id].spray = s
              /\ w.filledBefore <= orders[w.id].prior

\* A record of s, wherever a copy of it is held.
GoodRecord(s, r) ==
  r # NoRecord => /\ startedAt(s) <= clock
                  /\ r.observedFilled <= bought[s]
                  /\ GoodSlot(s, r.workingOrder)

\* The fills of an order come on top of what had been bought before it.
FillsAccounted ==
  \A o \in 1 .. placed :
    orders[o].prior + orders[o].filled <= bought[orders[o].spray]

\* Points at which an activity works on its record with the time it read.
Advancing == {"reconcile", "retire", "cancel", "recheck", "quote", "place"}

LocalOK(a) ==
  /\ cur[a] # NoSpray => GoodRecord(cur[a], rec[a])
  /\ pc[a] \in Advancing => startedAt(cur[a]) <= now[a]
  /\ pc[a] \in {"cancel", "recheck"} => rec[a].workingOrder.id # 0
  /\ pc[a] \in {"quote", "place"} => Shortfall(a, rec[a]) > 0
  /\ \A s \in Sprays : GoodRecord(s, todo[a][s]) /\ GoodRecord(s, out[a][s])

StoreOK == \A s \in Sprays : GoodRecord(s, store[s])

IInv ==
  /\ TypeOK
  /\ FillsAccounted
  /\ StoreOK
  /\ \A a \in Activities : LocalOK(a)

-----------------------------------------------------------------------------
(* Facts about the data *)

\* A spray's start is a clock reading, and NoSpray is no spray.
LEMMA SprayFacts ==
  \A s \in Sprays : startedAt(s) \in 0 .. MaxClock /\ s # NoSpray
BY NoSprayAssumption, RampAssumption DEF Sprays, startedAt, RampAssumption

\* The empty store is a store; it holds no record.
LEMMA EmptyFacts ==
  /\ EmptyData \in SprayData
  /\ \A s \in Sprays : EmptyData[s] = NoRecord
BY DEF EmptyData, SprayData

\* A fresh record is a record.
LEMMA NewFacts ==
  /\ NewRecord \in SprayRampRecord
  /\ NewRecord.observedFilled = 0 /\ NewRecord.workingOrder.id = 0
  /\ NewRecord # NoRecord
<1>1. NoOrder \in SprayWorkingOrder /\ NoOrder.id = 0
  BY DEF NoOrder, SprayWorkingOrder
<1>2. NewRecord \in SprayRampRecord
  BY <1>1 DEF NewRecord, SprayRampRecord
<1>3. NewRecord.observedFilled = 0 /\ NewRecord.workingOrder = NoOrder
  BY DEF NewRecord
<1> QED
  BY <1>1, <1>2, <1>3, NoRecordAssumption

\* Pruning keeps a record as it is or drops it.
LEMMA PruneFacts ==
  ASSUME NEW data \in SprayData
  PROVE  /\ pruneCompletedSprays(data) \in SprayData
         /\ \A s \in Sprays :
              pruneCompletedSprays(data)[s] \in {data[s], NoRecord}
BY DEF SprayData, pruneCompletedSprays

\* The ramp never unlocks more than the total.
LEMMA RampBounded ==
  ASSUME NEW e \in Nat
  PROVE  cumulativeAllowed(e) \in 0 .. Total
<1>1. CASE e >= Window
  BY <1>1, RampAssumption DEF cumulativeAllowed, RampAssumption
<1>2. CASE ~(e >= Window)
  <2>1. e \in 0 .. Window - 1
    BY <1>2, RampAssumption DEF RampAssumption
  <2> QED
    BY <1>2, <2>1, RampAssumption DEF cumulativeAllowed, RampAssumption
<1> QED
  BY <1>1, <1>2

\* The parts of a record have their types.
LEMMA RecordFacts ==
  ASSUME NEW r \in SprayRampRecord
  PROVE  /\ r # NoRecord /\ r.observedFilled \in Nat
         /\ r.workingOrder \in SprayWorkingOrder
         /\ r.workingOrder.id \in Nat /\ r.workingOrder.quantity \in Nat
         /\ r.workingOrder.filledBefore \in Nat
         /\ \A b \in BOOLEAN : [r EXCEPT !.aborted = b] \in SprayRampRecord
         /\ \A q \in Nat \cup {-1} :
              [r EXCEPT !.quoteUnavailableSince = q] \in SprayRampRecord
         /\ \A w \in SprayWorkingOrder :
              [r EXCEPT !.workingOrder = w] \in SprayRampRecord
         /\ NoOrder \in SprayWorkingOrder
BY NoRecordAssumption DEF SprayRampRecord, SprayWorkingOrder, NoOrder

\* What a reconciliation leaves is still a good record, with the same working
\* order or none.
LEMMA ReconcileFacts ==
  ASSUME IInv, NEW a \in Activities, cur[a] \in Sprays,
         NEW r \in reconcileWorkingOrder(rec[a])
  PROVE  /\ r \in SprayRampRecord
         /\ GoodRecord(cur[a], r)
         /\ r.workingOrder \in {rec[a].workingOrder, NoOrder}
<1> DEFINE w == rec[a].workingOrder
<1>1. rec[a] \in SprayRampRecord /\ GoodRecord(cur[a], rec[a])
  BY SprayFacts DEF IInv, TypeOK, LocalOK
<1>2. CASE r = rec[a]
  BY <1>1, <1>2
<1>3. CASE r # rec[a]
  <2>1. w.id # 0 /\ r = Reconciled(rec[a])
    BY <1>3 DEF reconcileWorkingOrder
  <2>2. w.id \in 1 .. placed /\ orders[w.id].spray = cur[a]
        /\ w.filledBefore <= orders[w.id].prior
    BY <1>1, <2>1, RecordFacts DEF GoodRecord, GoodSlot
  <2>3. orders[w.id] \in Orders /\ bought[cur[a]] \in Nat
    BY <2>2 DEF IInv, TypeOK
  <2>4. w.filledBefore + orders[w.id].filled <= bought[cur[a]]
    BY <1>1, <2>2, <2>3, RecordFacts DEF IInv, FillsAccounted, Orders
  <2> DEFINE seen == Larger(rec[a].observedFilled,
                            w.filledBefore + orders[w.id].filled)
  <2>5. seen \in Nat /\ seen <= bought[cur[a]]
    BY <1>1, <2>3, <2>4, RecordFacts DEF GoodRecord, Larger, Orders
  <2>6. r = [rec[a] EXCEPT !.observedFilled = seen,
                           !.workingOrder = IF InBook(w.id) THEN w ELSE NoOrder]
    BY <2>1 DEF Reconciled
  <2> HIDE DEF seen
  <2>7. /\ r \in SprayRampRecord
        /\ r.observedFilled = seen
        /\ r.workingOrder \in {w, NoOrder}
    BY <1>1, <2>5, <2>6, RecordFacts DEF SprayRampRecord
  <2> QED
    BY <1>1, <2>5, <2>7, RecordFacts DEF GoodRecord, GoodSlot, NoOrder
<1> QED
  BY <1>2, <1>3

-----------------------------------------------------------------------------
(* What the steps have in common *)

\* Time passes and purchases accumulate; an order keeps its spray and history.
Grows ==
  /\ clock <= clock' /\ placed <= placed'
  /\ \A s \in Sprays : bought[s] <= bought'[s]
  /\ \A o \in 1 .. placed : /\ orders'[o].spray = orders[o].spray
                            /\ orders'[o].prior = orders[o].prior

\* What LocalOK(b) depends on stays as it is.
Untouched(b) ==
  /\ pc'[b] = pc[b] /\ cur'[b] = cur[b] /\ rec'[b] = rec[b]
  /\ now'[b] = now[b] /\ todo'[b] = todo[b] /\ out'[b] = out[b]

BrokerUnchanged == UNCHANGED <<clock, placed, orders, bought>>

LEMMA UnchangedGrows ==
  ASSUME IInv, BrokerUnchanged
  PROVE  Grows /\ FillsAccounted'
BY DEF IInv, TypeOK, FillsAccounted, Grows, BrokerUnchanged

\* A good record stays good.
LEMMA GoodStays ==
  ASSUME IInv, TypeOK', Grows, NEW s \in Sprays,
         NEW r \in SprayRampRecord \cup {NoRecord}, GoodRecord(s, r)
  PROVE  GoodRecord(s, r)'
<1> SUFFICES ASSUME r # NoRecord
             PROVE  GoodRecord(s, r)'
  BY DEF GoodRecord
<1>1. /\ startedAt(s) \in Int /\ clock \in Int /\ clock' \in Int
      /\ placed \in Nat /\ placed' \in Nat
      /\ bought[s] \in Nat /\ bought'[s] \in Nat
      /\ r.observedFilled \in Nat /\ r.workingOrder.id \in Nat
  BY SprayFacts, RecordFacts, RampAssumption DEF IInv, TypeOK, RampAssumption
<1>2. startedAt(s) <= clock' /\ r.observedFilled <= bought'[s]
  BY <1>1 DEF GoodRecord, Grows
<1>3. GoodSlot(s, r.workingOrder)'
  BY <1>1 DEF GoodRecord, GoodSlot, Grows
<1> QED
  BY <1>2, <1>3 DEF GoodRecord

LEMMA StoreStays ==
  ASSUME IInv, TypeOK', Grows, store' = store
  PROVE  StoreOK'
<1> SUFFICES ASSUME NEW s \in Sprays
             PROVE  GoodRecord(s, store[s])'
  BY DEF StoreOK
<1>1. store[s] \in SprayRampRecord \cup {NoRecord} /\ GoodRecord(s, store[s])
  BY DEF IInv, TypeOK, SprayData, StoreOK
<1> QED
  BY <1>1, GoodStays DEF GoodRecord, GoodSlot

LEMMA LocalStays ==
  ASSUME IInv, TypeOK', Grows, NEW b \in Activities, Untouched(b)
  PROVE  LocalOK(b)'
<1>1. LocalOK(b)
  BY DEF IInv
<1>2. (cur[b] # NoSpray => GoodRecord(cur[b], rec[b]))'
  <2> SUFFICES ASSUME cur[b] # NoSpray
               PROVE  GoodRecord(cur[b], rec[b])'
    BY DEF Untouched
  <2>1. cur[b] \in Sprays /\ rec[b] \in SprayRampRecord
    BY DEF IInv, TypeOK
  <2> QED
    BY <1>1, <2>1, GoodStays DEF LocalOK, GoodRecord, GoodSlot, Untouched
<1>3. /\ pc'[b] \in Advancing => startedAt(cur'[b]) <= now'[b]
      /\ pc'[b] \in {"cancel", "recheck"} => rec'[b].workingOrder.id # 0
      /\ (pc[b] \in {"quote", "place"} => Shortfall(b, rec[b]) > 0)'
  BY <1>1 DEF LocalOK, Untouched, Shortfall
<1>4. ASSUME NEW s \in Sprays
      PROVE  GoodRecord(s, todo[b][s])' /\ GoodRecord(s, out[b][s])'
  <2>1. todo[b][s] \in SprayRampRecord \cup {NoRecord}
        /\ out[b][s] \in SprayRampRecord \cup {NoRecord}
    BY DEF IInv, TypeOK, SprayData
  <2>2. GoodRecord(s, todo[b][s]) /\ GoodRecord(s, out[b][s])
    BY <1>1 DEF LocalOK
  <2> QED
    BY <2>1, <2>2, GoodStays DEF GoodRecord, GoodSlot, Untouched
<1> QED
  BY <1>2, <1>3, <1>4 DEF LocalOK

\* A step of one activity: the others are untouched.
LEMMA LocalStep ==
  ASSUME IInv, TypeOK', Grows, FillsAccounted', StoreOK',
         NEW a \in Activities, LocalOK(a)',
         \A b \in Activities \ {a} : Untouched(b)
  PROVE  IInv'
BY LocalStays DEF IInv

\* A step of the broker or the clock: all activities are untouched.
LEMMA BrokerStep ==
  ASSUME IInv, TypeOK', Grows, FillsAccounted', UNCHANGED <<store, localVars>>
  PROVE  IInv'
<1>1. \A b \in Activities : Untouched(b)
  BY DEF Untouched, localVars
<1> QED
  BY <1>1, StoreStays, LocalStays DEF IInv

\* An activity goes on with a good record of the spray it is advancing.
LEMMA GoOnStep ==
  ASSUME IInv, NEW a \in Activities, pc[a] \in Advancing,
         NEW r \in SprayRampRecord, NEW p \in PCs,
         GoOn(a, r, p), GoodRecord(cur[a], r),
         p \in {"cancel", "recheck"} => r.workingOrder.id # 0,
         p \in {"quote", "place"} => Shortfall(a, r) > 0,
         p \notin {"idle", "next"},
         goal' \in [Activities -> {"none", "register", "abort", "replace"}],
         UNCHANGED <<clock, store, brokerVars, starts, crashes, cur, now, todo,
                     out>>
  PROVE  IInv'
<1>1. cur[a] \in Sprays /\ startedAt(cur[a]) <= now[a] /\ LocalOK(a)
  BY DEF IInv, TypeOK, LocalOK, Advancing
<1>2. /\ rec' \in [Activities -> SprayRampRecord] /\ rec'[a] = r
      /\ pc' \in [Activities -> PCs] /\ pc'[a] = p
      /\ \A b \in Activities \ {a} : pc'[b] = pc[b] /\ rec'[b] = rec[b]
  BY DEF IInv, TypeOK, GoOn
<1>3. TypeOK'
  BY <1>1, <1>2 DEF IInv, TypeOK, brokerVars
<1>4. Grows /\ FillsAccounted'
  BY UnchangedGrows DEF BrokerUnchanged, brokerVars
<1>5. LocalOK(a)'
  <2>1. GoodRecord(cur[a], rec[a])'
    BY <1>2 DEF GoodRecord, GoodSlot, brokerVars
  <2>2. \A s \in Sprays : GoodRecord(s, todo[a][s])' /\ GoodRecord(s, out[a][s])'
    BY <1>1 DEF LocalOK, GoodRecord, GoodSlot, brokerVars
  <2>3. (pc[a] \in {"quote", "place"} => Shortfall(a, rec[a]) > 0)'
    BY <1>2 DEF Shortfall
  <2> QED
    BY <1>1, <1>2, <2>1, <2>2, <2>3 DEF LocalOK
<1>6. \A b \in Activities \ {a} : Untouched(b)
  BY <1>2 DEF Untouched
<1> QED
  BY <1>3, <1>4, <1>5, <1>6, StoreStays, LocalStep

-----------------------------------------------------------------------------
(* One lemma per action *)

LEMMA InitIInv ==
  ASSUME Init
  PROVE  IInv
<1>1. EmptyData \in SprayData /\ NewRecord \in SprayRampRecord
  BY EmptyFacts, NewFacts
<1>2. TypeOK
  BY <1>1, RampAssumption DEF Init, TypeOK, RampAssumption, PCs, Activities
<1>3. FillsAccounted
  BY DEF Init, FillsAccounted
<1>4. StoreOK /\ \A a \in Activities : LocalOK(a)
  BY EmptyFacts DEF Init, StoreOK, LocalOK, GoodRecord, Advancing
<1> QED
  BY <1>2, <1>3, <1>4 DEF IInv

LEMMA advanceSpraysStep ==
  ASSUME IInv, advanceSprays
  PROVE  IInv'
<1> DEFINE a == "cycle"
<1>1. store \in SprayData /\ a \in Activities /\ LocalOK(a)
  BY DEF IInv, TypeOK, Activities
<1>2. /\ pruneCompletedSprays(store) \in SprayData
      /\ \A s \in Sprays : GoodRecord(s, pruneCompletedSprays(store)[s])
  BY <1>1, PruneFacts DEF IInv, StoreOK, GoodRecord
<1>3. /\ todo' \in [Activities -> SprayData]
      /\ todo'[a] = pruneCompletedSprays(store)
      /\ pc' \in [Activities -> PCs] /\ pc'[a] = "next"
      /\ \A b \in Activities \ {a} : Untouched(b)
  BY <1>1, <1>2 DEF IInv, TypeOK, advanceSprays, PCs, Untouched
<1>4. TypeOK'
  BY <1>3 DEF IInv, TypeOK, advanceSprays, brokerVars
<1>5. Grows /\ FillsAccounted' /\ StoreOK'
  BY <1>4, UnchangedGrows, StoreStays
     DEF BrokerUnchanged, advanceSprays, brokerVars
<1>6. LocalOK(a)'
  BY SMTT(30), <1>1, <1>2, <1>3 DEF LocalOK, GoodRecord, GoodSlot, advanceSprays,
                          brokerVars, Advancing
<1> QED
  BY <1>1, <1>3, <1>4, <1>5, <1>6, LocalStep

LEMMA NextSprayStep ==
  ASSUME IInv, NEW s \in Sprays, NextSpray(s)
  PROVE  IInv'
<1> DEFINE a == "cycle"
<1>1. a \in Activities /\ LocalOK(a) /\ todo[a] \in SprayData
  BY DEF IInv, TypeOK, Activities
<1>2. /\ todo[a][s] \in SprayRampRecord /\ GoodRecord(s, todo[a][s])
      /\ startedAt(s) <= clock
  BY <1>1 DEF NextSpray, LocalOK, GoodRecord, SprayData
<1>3. /\ todo' \in [Activities -> SprayData]
      /\ \A z \in Sprays : todo'[a][z] \in {todo[a][z], NoRecord}
      /\ pc' \in [Activities -> PCs] /\ pc'[a] = "reconcile"
      /\ cur' \in [Activities -> Sprays \cup {NoSpray}] /\ cur'[a] = s
      /\ now' \in [Activities -> 0 .. MaxClock] /\ now'[a] = clock
      /\ rec' \in [Activities -> SprayRampRecord] /\ rec'[a] = todo[a][s]
      /\ out'[a] = out[a]
  BY <1>1, <1>2 DEF IInv, TypeOK, NextSpray, GoOn, PCs, SprayData
<1>4. \A b \in Activities \ {a} : Untouched(b)
  BY DEF IInv, TypeOK, NextSpray, GoOn, Untouched
<1>5. TypeOK'
  BY <1>3, <1>4 DEF IInv, TypeOK, NextSpray, brokerVars, Untouched
<1>6. Grows /\ FillsAccounted' /\ StoreOK'
  BY <1>5, UnchangedGrows, StoreStays DEF BrokerUnchanged, NextSpray, brokerVars
<1>7. LocalOK(a)'
  <2>1. GoodRecord(s, todo[a][s])'
    BY <1>2 DEF GoodRecord, GoodSlot, NextSpray, brokerVars
  <2>2. \A z \in Sprays : GoodRecord(z, todo[a][z])' /\ GoodRecord(z, out[a][z])'
    BY SMTT(30), <1>1, <1>3 DEF LocalOK, GoodRecord, GoodSlot, NextSpray, brokerVars
  <2>3. (cur[a] # NoSpray => GoodRecord(cur[a], rec[a]))'
    BY <1>2, <1>3 DEF GoodRecord, GoodSlot, NextSpray, brokerVars
  <2> QED
    BY <1>2, <1>3, <2>2, <2>3 DEF LocalOK
<1> QED
  BY <1>1, <1>4, <1>5, <1>6, <1>7, LocalStep

LEMMA CycleEndsStep ==
  ASSUME IInv, CycleEnds
  PROVE  IInv'
<1> DEFINE a == "cycle"
<1>1. a \in Activities /\ LocalOK(a)
  BY DEF IInv, Activities
<1>2. /\ pc' \in [Activities -> PCs] /\ pc'[a] = "idle"
      /\ \A b \in Activities \ {a} : Untouched(b)
  BY <1>1 DEF IInv, TypeOK, CycleEnds, PCs, Untouched
<1>3. TypeOK'
  BY <1>2 DEF IInv, TypeOK, CycleEnds, brokerVars, Untouched
<1>4. Grows /\ FillsAccounted' /\ StoreOK'
  BY <1>3, UnchangedGrows, StoreStays DEF BrokerUnchanged, CycleEnds, brokerVars
<1>5. LocalOK(a)'
  BY <1>1, <1>2 DEF LocalOK, GoodRecord, GoodSlot, CycleEnds, brokerVars,
                    Advancing
<1> QED
  BY <1>1, <1>2, <1>3, <1>4, <1>5, LocalStep

LEMMA ReconcileOrderStep ==
  ASSUME IInv, NEW a \in Activities, ReconcileOrder(a)
  PROVE  IInv'
<1>1. pc[a] = "reconcile" /\ cur[a] \in Sprays
  BY DEF IInv, TypeOK, ReconcileOrder
<1>2. PICK r \in reconcileWorkingOrder(rec[a]) :
        IF now[a] >= deadline(cur[a])
        THEN /\ goal' = [goal EXCEPT ![a] = "abort"]
             /\ IF r.workingOrder.id = 0
                THEN GoOn(a, [r EXCEPT !.aborted = TRUE], "save")
                ELSE GoOn(a, r, "retire")
        ELSE /\ goal' = goal
             /\ IF Shortfall(a, r) > 0 THEN GoOn(a, r, "quote")
                                       ELSE GoOn(a, r, "save")
  BY DEF ReconcileOrder
<1>3. /\ r \in SprayRampRecord /\ GoodRecord(cur[a], r)
  BY <1>1, ReconcileFacts
<1> DEFINE r2 == [r EXCEPT !.aborted = TRUE]
<1>4. r2 \in SprayRampRecord /\ GoodRecord(cur[a], r2)
  BY <1>3, RecordFacts DEF GoodRecord, GoodSlot, SprayRampRecord
<1>5. goal' \in [Activities -> {"none", "register", "abort", "replace"}]
  BY <1>2 DEF IInv, TypeOK
<1>6. \/ GoOn(a, r2, "save") \/ GoOn(a, r, "retire")
      \/ (GoOn(a, r, "quote") /\ Shortfall(a, r) > 0) \/ GoOn(a, r, "save")
  BY <1>2
<1> HIDE DEF r2
<1> QED
  BY <1>1, <1>3, <1>4, <1>5, <1>6, GoOnStep DEF ReconcileOrder, PCs, Advancing

LEMMA UsableQuoteStep ==
  ASSUME IInv, NEW a \in Activities, UsableQuote(a)
  PROVE  IInv'
<1> DEFINE r == [rec[a] EXCEPT !.quoteUnavailableSince = -1]
<1>1. /\ pc[a] = "quote" /\ cur[a] \in Sprays /\ cur[a] # NoSpray
      /\ rec[a] \in SprayRampRecord
      /\ GoodRecord(cur[a], rec[a]) /\ Shortfall(a, rec[a]) > 0
  BY SprayFacts DEF IInv, TypeOK, UsableQuote, LocalOK
<1>2. /\ r \in SprayRampRecord /\ GoodRecord(cur[a], r)
      /\ Shortfall(a, r) > 0
  BY <1>1, RecordFacts DEF GoodRecord, GoodSlot, Shortfall, SprayRampRecord
<1>3. goal' \in [Activities -> {"none", "register", "abort", "replace"}]
  BY DEF IInv, TypeOK, UsableQuote
<1>4. GoOn(a, r, "place") \/ GoOn(a, r, "save") \/ GoOn(a, r, "retire")
  BY DEF UsableQuote
<1> HIDE DEF r
<1> QED
  BY <1>1, <1>2, <1>3, <1>4, GoOnStep DEF UsableQuote, PCs, Advancing

LEMMA NoQuoteStep ==
  ASSUME IInv, NEW a \in Activities, NoQuote(a)
  PROVE  IInv'
<1> DEFINE since == IF rec[a].quoteUnavailableSince = -1 THEN now[a]
                    ELSE rec[a].quoteUnavailableSince
           long == now[a] - since >= AbortAfter
           r == [rec[a] EXCEPT !.quoteUnavailableSince = since, !.aborted = long]
<1>1. /\ pc[a] = "quote" /\ cur[a] \in Sprays /\ cur[a] # NoSpray
      /\ rec[a] \in SprayRampRecord /\ GoodRecord(cur[a], rec[a])
      /\ now[a] \in 0 .. MaxClock
  BY SprayFacts DEF IInv, TypeOK, NoQuote, LocalOK
<1>2. since \in Nat \cup {-1} /\ long \in BOOLEAN
  BY <1>1, RampAssumption DEF SprayRampRecord, RampAssumption
<1>3. GoOn(a, r, "save")
  BY DEF NoQuote
<1> HIDE DEF since, long
<1>4. /\ r \in SprayRampRecord /\ GoodRecord(cur[a], r)
  BY <1>1, <1>2, RecordFacts DEF GoodRecord, GoodSlot, SprayRampRecord
<1>5. goal' \in [Activities -> {"none", "register", "abort", "replace"}]
  BY DEF IInv, TypeOK, NoQuote
<1> HIDE DEF r
<1> QED
  BY <1>1, <1>3, <1>4, <1>5, GoOnStep DEF NoQuote, PCs, Advancing

\* After a retirement the activity saves, or places with a shortfall left.
LEMMA RetiredStep ==
  ASSUME IInv, NEW a \in Activities, pc[a] \in Advancing,
         NEW r \in SprayRampRecord, GoodRecord(cur[a], r), Retired(a, r),
         UNCHANGED <<clock, store, brokerVars, starts, crashes, cur, now, todo,
                     goal, out>>
  PROVE  IInv'
<1> DEFINE r2 == [r EXCEPT !.aborted = TRUE]
<1>1. r2 \in SprayRampRecord /\ GoodRecord(cur[a], r2)
  BY RecordFacts DEF GoodRecord, GoodSlot, SprayRampRecord
<1>2. goal' \in [Activities -> {"none", "register", "abort", "replace"}]
  BY DEF IInv, TypeOK
<1>3. \/ GoOn(a, r2, "save") \/ (GoOn(a, r, "place") /\ Shortfall(a, r) > 0)
      \/ GoOn(a, r, "save")
  BY DEF Retired
<1> HIDE DEF r2
<1> QED
  BY <1>1, <1>2, <1>3, GoOnStep DEF PCs, Advancing

LEMMA RetireOrderStep ==
  ASSUME IInv, NEW a \in Activities, RetireOrder(a)
  PROVE  IInv'
<1>1. pc[a] = "retire" /\ cur[a] \in Sprays
  BY DEF IInv, TypeOK, RetireOrder
<1>2. PICK r \in reconcileWorkingOrder(rec[a]) :
        IF r.workingOrder.id = 0 THEN Retired(a, r) ELSE GoOn(a, r, "cancel")
  BY DEF RetireOrder
<1>3. /\ r \in SprayRampRecord /\ GoodRecord(cur[a], r)
  BY <1>1, ReconcileFacts
<1>4. goal' \in [Activities -> {"none", "register", "abort", "replace"}]
  BY DEF IInv, TypeOK, RetireOrder
<1>5. CASE r.workingOrder.id = 0
  BY <1>1, <1>2, <1>3, <1>5, RetiredStep DEF RetireOrder, Advancing
<1>6. CASE r.workingOrder.id # 0
  BY <1>1, <1>2, <1>3, <1>4, <1>6, GoOnStep DEF RetireOrder, PCs, Advancing
<1> QED
  BY <1>5, <1>6

LEMMA RecheckOrderStep ==
  ASSUME IInv, NEW a \in Activities, RecheckOrder(a)
  PROVE  IInv'
<1>1. pc[a] = "recheck" /\ cur[a] \in Sprays
  BY DEF IInv, TypeOK, RecheckOrder
<1>2. PICK r \in reconcileWorkingOrder(rec[a]) :
        Retired(a, [r EXCEPT !.workingOrder = NoOrder])
  BY DEF RecheckOrder
<1> DEFINE r2 == [r EXCEPT !.workingOrder = NoOrder]
<1>3. /\ r \in SprayRampRecord /\ GoodRecord(cur[a], r)
  BY <1>1, ReconcileFacts
<1>4. r2 \in SprayRampRecord /\ r2.workingOrder.id = 0
      /\ r2.observedFilled = r.observedFilled
  BY <1>3, RecordFacts DEF SprayRampRecord, NoOrder
<1> HIDE DEF r2
<1>5. GoodRecord(cur[a], r2)
  BY <1>3, <1>4, RecordFacts DEF GoodRecord, GoodSlot
<1>6. Retired(a, r2)
  BY <1>2 DEF r2
<1> QED
  BY <1>1, <1>4, <1>5, <1>6, RetiredStep DEF RecheckOrder, Advancing

LEMMA CancelFailedStep ==
  ASSUME IInv, NEW a \in Activities, CancelFailed(a)
  PROVE  IInv'
<1> DEFINE b == goal[a] = "abort"
           r == [rec[a] EXCEPT !.aborted = b]
<1>1. /\ pc[a] = "cancel" /\ cur[a] \in Sprays /\ cur[a] # NoSpray
      /\ rec[a] \in SprayRampRecord /\ GoodRecord(cur[a], rec[a])
  BY SprayFacts DEF IInv, TypeOK, CancelFailed, LocalOK
<1>2. b \in BOOLEAN /\ GoOn(a, r, "save")
  BY DEF CancelFailed
<1> HIDE DEF b
<1>3. r \in SprayRampRecord /\ GoodRecord(cur[a], r)
  BY <1>1, <1>2, RecordFacts DEF GoodRecord, GoodSlot, SprayRampRecord
<1>4. goal' \in [Activities -> {"none", "register", "abort", "replace"}]
  BY DEF IInv, TypeOK, CancelFailed
<1> HIDE DEF r
<1> QED
  BY <1>1, <1>2, <1>3, <1>4, GoOnStep DEF CancelFailed, PCs, Advancing

LEMMA PlaceRejectedStep ==
  ASSUME IInv, NEW a \in Activities, PlaceRejected(a)
  PROVE  IInv'
<1>1. /\ pc[a] = "place" /\ cur[a] \in Sprays /\ cur[a] # NoSpray
      /\ rec[a] \in SprayRampRecord /\ GoodRecord(cur[a], rec[a])
  BY SprayFacts DEF IInv, TypeOK, PlaceRejected, LocalOK
<1>2. goal' \in [Activities -> {"none", "register", "abort", "replace"}]
  BY DEF IInv, TypeOK, PlaceRejected
<1> QED
  BY <1>1, <1>2, GoOnStep DEF PlaceRejected, PCs, Advancing

LEMMA CancelAcceptedStep ==
  ASSUME IInv, NEW a \in Activities, CancelAccepted(a)
  PROVE  IInv'
<1> DEFINE o == rec[a].workingOrder.id
<1>1. /\ pc[a] = "cancel" /\ cur[a] \in Sprays /\ cur[a] # NoSpray
      /\ rec[a] \in SprayRampRecord /\ LocalOK(a)
  BY SprayFacts DEF IInv, TypeOK, CancelAccepted
<1>2. o \in 1 .. placed
  BY <1>1, RecordFacts DEF LocalOK, GoodRecord, GoodSlot
<1> DEFINE st == IF CancelIsFinal THEN "dead" ELSE "cancelling"
<1>3. orders' = [orders EXCEPT ![o].status = st]
  BY DEF CancelAccepted
<1> st \in {"dead", "cancelling"}
  OBVIOUS
<1> HIDE DEF o, st
<1>4. orders' \in [1 .. placed -> Orders]
      /\ \A p \in 1 .. placed : /\ orders'[p].spray = orders[p].spray
                               /\ orders'[p].prior = orders[p].prior
                               /\ orders'[p].filled = orders[p].filled
  BY ZenonT(30), <1>2, <1>3 DEF IInv, TypeOK, Orders
<1>5. /\ pc' \in [Activities -> PCs] /\ pc'[a] = "recheck"
      /\ \A b \in Activities \ {a} : Untouched(b)
  BY DEF IInv, TypeOK, CancelAccepted, PCs, Untouched
<1>6. TypeOK'
  BY <1>1, <1>4, <1>5 DEF IInv, TypeOK, CancelAccepted, Untouched
<1>7. Grows /\ FillsAccounted'
  BY SMTT(30), <1>4 DEF IInv, TypeOK, Grows, FillsAccounted, CancelAccepted
<1>8. StoreOK'
  BY <1>6, <1>7, StoreStays DEF CancelAccepted
<1>9. LocalOK(a)'
  <2>1. GoodRecord(cur[a], rec[a])'
    BY <1>1, <1>6, <1>7, GoodStays
       DEF LocalOK, GoodRecord, GoodSlot, CancelAccepted
  <2>2. ASSUME NEW s \in Sprays
        PROVE  GoodRecord(s, todo[a][s])' /\ GoodRecord(s, out[a][s])'
    <3>1. todo[a][s] \in SprayRampRecord \cup {NoRecord}
          /\ out[a][s] \in SprayRampRecord \cup {NoRecord}
      BY DEF IInv, TypeOK, SprayData
    <3>2. GoodRecord(s, todo[a][s]) /\ GoodRecord(s, out[a][s])
      BY <1>1 DEF LocalOK
    <3> QED
      BY <1>6, <1>7, <3>1, <3>2, GoodStays
         DEF GoodRecord, GoodSlot, CancelAccepted
  <2> QED
    BY <1>1, <1>5, <2>1, <2>2 DEF LocalOK, Advancing, CancelAccepted
<1> QED
  BY <1>5, <1>6, <1>7, <1>8, <1>9, LocalStep

LEMMA PlaceAcceptedStep ==
  ASSUME IInv, NEW a \in Activities, PlaceAccepted(a)
  PROVE  IInv'
<1> DEFINE quantity == Shortfall(a, rec[a])
           id == placed + 1
           w == [id |-> id, quantity |-> quantity,
                 filledBefore |-> rec[a].observedFilled]
           new == [spray |-> cur[a], quantity |-> quantity, filled |-> 0,
                   prior |-> bought[cur[a]], status |-> "live"]
           r == [rec[a] EXCEPT !.workingOrder = w]
<1>1. /\ pc[a] = "place" /\ cur[a] \in Sprays /\ cur[a] # NoSpray
      /\ rec[a] \in SprayRampRecord /\ LocalOK(a)
      /\ GoodRecord(cur[a], rec[a]) /\ placed \in 0 .. MaxOrders
      /\ bought[cur[a]] \in Nat /\ rec[a].observedFilled \in Nat
      /\ rec[a] # NoRecord
  BY SprayFacts, RecordFacts DEF IInv, TypeOK, PlaceAccepted, LocalOK
<1>2. quantity \in 1 .. Total
  <2>1. startedAt(cur[a]) \in Int /\ now[a] \in Int
        /\ startedAt(cur[a]) <= now[a] /\ quantity > 0
    BY <1>1, SprayFacts, RampAssumption
       DEF LocalOK, Advancing, IInv, TypeOK, RampAssumption
  <2>2. cumulativeAllowed(now[a] - startedAt(cur[a])) \in 0 .. Total
    BY <2>1, RampBounded
  <2> QED
    BY SMTT(30), <1>1, <2>1, <2>2, RampAssumption DEF Shortfall, RampAssumption
<1>3. new \in Orders
  BY <1>1, <1>2 DEF Orders
<1>4. placed' = id /\ id \in 0 .. MaxOrders
  BY <1>1, RampAssumption DEF PlaceAccepted, RampAssumption
<1>5. orders' = [o \in 1 .. id |-> IF o = id THEN new ELSE orders[o]]
  BY DEF PlaceAccepted
<1> HIDE DEF quantity, new
<1>6. /\ orders' \in [1 .. placed' -> Orders] /\ orders'[id] = new
      /\ \A o \in 1 .. placed : orders'[o] = orders[o]
  BY <1>1, <1>3, <1>4, <1>5 DEF IInv, TypeOK
<1>7. /\ new.spray = cur[a] /\ new.prior = bought[cur[a]] /\ new.filled = 0
  BY DEF new
<1>8. Grows
  BY <1>1, <1>4, <1>6 DEF IInv, TypeOK, Grows, PlaceAccepted
<1>9. FillsAccounted'
  <2>1. 1 .. placed' = (1 .. placed) \cup {id} /\ bought' = bought
    BY <1>1, <1>4 DEF PlaceAccepted
  <2>2. new.prior + new.filled <= bought[new.spray]
    BY <1>1, <1>7
  <2>3. \A o \in 1 .. placed :
          orders'[o].prior + orders'[o].filled <= bought'[orders'[o].spray]
    BY <1>6, <2>1 DEF IInv, FillsAccounted
  <2> QED
    BY <1>6, <2>1, <2>2, <2>3 DEF FillsAccounted
<1>10. w \in SprayWorkingOrder
  BY <1>1, <1>2, <1>4, RampAssumption DEF SprayWorkingOrder, RampAssumption
<1>11. r \in SprayRampRecord /\ r.observedFilled = rec[a].observedFilled
       /\ r.workingOrder.id = id
       /\ r.workingOrder.filledBefore = rec[a].observedFilled
  BY <1>1, <1>10 DEF SprayRampRecord
<1>12. \/ GoOn(a, r, "save") \/ GoOn(a, rec[a], "save")
  BY DEF PlaceAccepted, quantity
<1> HIDE DEF r, w
<1>13. /\ rec' \in [Activities -> SprayRampRecord] /\ rec'[a] \in {r, rec[a]}
       /\ pc' \in [Activities -> PCs] /\ pc'[a] = "save"
       /\ \A b \in Activities \ {a} : pc'[b] = pc[b] /\ rec'[b] = rec[b]
  BY ZenonT(30), <1>1, <1>11, <1>12 DEF IInv, TypeOK, GoOn, PCs
<1>14. TypeOK'
  BY <1>1, <1>4, <1>6, <1>13 DEF IInv, TypeOK, PlaceAccepted
<1>15. StoreOK'
  BY <1>8, <1>14, StoreStays DEF PlaceAccepted
<1>16. LocalOK(a)'
  <2>1. GoodRecord(cur[a], rec[a])' 
    <3>1. CASE rec'[a] = r
      <4>1. cur' = cur /\ bought' = bought /\ clock' = clock
        BY DEF PlaceAccepted
      <4>2. /\ id \in 1 .. placed' /\ orders'[id].spray = cur[a]
            /\ rec[a].observedFilled <= orders'[id].prior
        BY <1>1, <1>4, <1>6, <1>7 DEF GoodRecord
      <4> QED
        BY <1>1, <1>11, <3>1, <4>1, <4>2 DEF GoodRecord, GoodSlot
    <3>2. CASE rec'[a] = rec[a]
      BY <1>1, <1>8, <1>14, <3>2, GoodStays
         DEF GoodRecord, GoodSlot, PlaceAccepted
    <3> QED
      BY <1>13, <3>1, <3>2
  <2>2. ASSUME NEW s \in Sprays
        PROVE  GoodRecord(s, todo[a][s])' /\ GoodRecord(s, out[a][s])'
    <3>1. todo[a][s] \in SprayRampRecord \cup {NoRecord}
          /\ out[a][s] \in SprayRampRecord \cup {NoRecord}
      BY DEF IInv, TypeOK, SprayData
    <3>2. GoodRecord(s, todo[a][s]) /\ GoodRecord(s, out[a][s])
      BY <1>1 DEF LocalOK
    <3> QED
      BY <1>8, <1>14, <3>1, <3>2, GoodStays DEF GoodRecord, GoodSlot, PlaceAccepted
  <2> QED
    BY <1>13, <2>1, <2>2 DEF LocalOK, Advancing
<1>17. \A b \in Activities \ {a} : Untouched(b)
  BY <1>13 DEF Untouched, PlaceAccepted
<1> QED
  BY <1>8, <1>9, <1>14, <1>15, <1>16, <1>17, LocalStep

\* When an activity drops its spray nothing is left to be wrong about it.
LEMMA DroppedOK ==
  ASSUME IInv, TypeOK', NEW a \in Activities,
         clock' = clock, placed' = placed, orders' = orders, bought' = bought,
         cur'[a] = NoSpray, pc'[a] \in {"idle", "next"}, out'[a] = EmptyData,
         todo'[a] \in {todo[a], EmptyData}
  PROVE  LocalOK(a)'
<1>1. \A s \in Sprays : GoodRecord(s, todo[a][s])' /\ GoodRecord(s, out[a][s])'
  BY EmptyFacts DEF IInv, LocalOK, GoodRecord, GoodSlot
<1> QED
  BY <1>1 DEF LocalOK, Advancing

LEMMA ReadForSaveStep ==
  ASSUME IInv, NEW a \in Activities, ReadForSave(a)
  PROVE  IInv'
<1>1. /\ pc[a] = "save" /\ cur[a] \in Sprays /\ cur[a] # NoSpray
      /\ rec[a] \in SprayRampRecord /\ LocalOK(a)
      /\ GoodRecord(cur[a], rec[a]) /\ store \in SprayData
  BY SprayFacts DEF IInv, TypeOK, ReadForSave, LocalOK
<1>2. /\ clock' = clock /\ store' = store /\ placed' = placed
      /\ orders' = orders /\ bought' = bought /\ starts' = starts
      /\ crashes' = crashes /\ todo' = todo
  BY DEF ReadForSave, brokerVars
<1>3. Grows /\ FillsAccounted'
  BY <1>2, UnchangedGrows DEF BrokerUnchanged
<1>4. CASE DoneWithSpray(a)
  <2>1. TypeOK'
    BY <1>2, <1>4, EmptyFacts, NewFacts, RampAssumption
       DEF IInv, TypeOK, DoneWithSpray, PCs, RampAssumption
  <2>2. cur'[a] = NoSpray /\ pc'[a] \in {"idle", "next"} /\ out'[a] = EmptyData
    BY <1>4 DEF IInv, TypeOK, DoneWithSpray
  <2>3. \A b \in Activities \ {a} : Untouched(b)
    BY <1>2, <1>4 DEF IInv, TypeOK, DoneWithSpray, Untouched
  <2> QED
    BY <1>2, <1>3, <2>1, <2>2, <2>3, DroppedOK, StoreStays, LocalStep
<1>5. CASE ~DoneWithSpray(a)
  <2> DEFINE data == [store EXCEPT ![cur[a]] = rec[a]]
  <2>1. /\ out' = [out EXCEPT ![a] = pruneCompletedSprays(data)]
        /\ goal' = [goal EXCEPT ![a] = "none"]
        /\ pc' = [pc EXCEPT ![a] = "truncate"]
        /\ cur' = cur /\ rec' = rec /\ now' = now
    BY <1>5 DEF ReadForSave
  <2>2. data \in SprayData /\ \A s \in Sprays : GoodRecord(s, data[s])
    BY <1>1 DEF SprayData, IInv, StoreOK
  <2> HIDE DEF data
  <2>3. /\ out' \in [Activities -> SprayData]
        /\ \A s \in Sprays : GoodRecord(s, out'[a][s])
    BY <2>1, <2>2, PruneFacts DEF IInv, TypeOK, GoodRecord
  <2>4. TypeOK'
    BY <1>1, <1>2, <2>1, <2>3 DEF IInv, TypeOK, PCs
  <2>5. LocalOK(a)'
    BY <1>1, <1>2, <2>1, <2>3
       DEF LocalOK, GoodRecord, GoodSlot, Advancing, IInv, TypeOK
  <2>6. \A b \in Activities \ {a} : Untouched(b)
    BY <1>2, <2>1 DEF IInv, TypeOK, Untouched
  <2> QED
    BY <1>2, <1>3, <2>4, <2>5, <2>6, StoreStays, LocalStep
<1> QED
  BY <1>4, <1>5

LEMMA TruncateFileStep ==
  ASSUME IInv, NEW a \in Activities, TruncateFile(a)
  PROVE  IInv'
<1>1. /\ clock' = clock /\ store' = EmptyData /\ placed' = placed
      /\ orders' = orders /\ bought' = bought /\ starts' = starts
      /\ crashes' = crashes /\ cur' = cur /\ rec' = rec /\ now' = now
      /\ todo' = todo /\ goal' = goal /\ out' = out
      /\ pc' = [pc EXCEPT ![a] = "write"] /\ pc[a] = "truncate"
  BY DEF TruncateFile, brokerVars
<1>2. Grows /\ FillsAccounted'
  BY <1>1, UnchangedGrows DEF BrokerUnchanged
<1>3. TypeOK'
  BY <1>1, EmptyFacts DEF IInv, TypeOK, PCs
<1>4. StoreOK'
  BY <1>1, EmptyFacts DEF StoreOK, GoodRecord
<1>5. LocalOK(a)'
  BY <1>1 DEF IInv, TypeOK, LocalOK, GoodRecord, GoodSlot, Advancing
<1>6. \A b \in Activities \ {a} : Untouched(b)
  BY <1>1 DEF IInv, TypeOK, Untouched
<1> QED
  BY <1>2, <1>3, <1>4, <1>5, <1>6, LocalStep

LEMMA writeStoreStep ==
  ASSUME IInv, NEW a \in Activities, writeStore(a)
  PROVE  IInv'
<1>1. /\ clock' = clock /\ store' = out[a] /\ placed' = placed
      /\ orders' = orders /\ bought' = bought /\ starts' = starts
      /\ crashes' = crashes /\ todo' = todo /\ pc[a] = "write"
  BY DEF writeStore, brokerVars
<1>2. LocalOK(a) /\ out[a] \in SprayData
      /\ cur[a] \in Sprays /\ cur[a] # NoSpray
  BY <1>1, SprayFacts DEF IInv, TypeOK
<1>3. Grows /\ FillsAccounted'
  BY <1>1, UnchangedGrows DEF BrokerUnchanged
<1>4. StoreOK'
  BY <1>1, <1>2 DEF StoreOK, LocalOK, GoodRecord, GoodSlot
<1>5. CASE goal[a] = "register"
  <2>1. /\ pc' = [pc EXCEPT ![a] = "reconcile"]
        /\ now' = [now EXCEPT ![a] = clock]
        /\ goal' = [goal EXCEPT ![a] = "none"]
        /\ out' = [out EXCEPT ![a] = EmptyData]
        /\ cur' = cur /\ rec' = rec
    BY <1>5 DEF writeStore
  <2>2. TypeOK'
    BY <1>1, <1>2, <2>1, EmptyFacts DEF IInv, TypeOK, PCs
  <2>3. startedAt(cur[a]) <= clock
    BY <1>2, RecordFacts DEF LocalOK, GoodRecord, IInv, TypeOK
  <2>4. /\ pc'[a] = "reconcile" /\ now'[a] = clock /\ out'[a] = EmptyData
    BY <2>1 DEF IInv, TypeOK
  <2>5. LocalOK(a)'
    BY SMTT(30), <1>1, <1>2, <2>1, <2>3, <2>4, EmptyFacts DEF LocalOK, GoodRecord, GoodSlot
  <2>6. \A b \in Activities \ {a} : Untouched(b)
    BY <1>1, <2>1 DEF IInv, TypeOK, Untouched
  <2> QED
    BY <1>3, <1>4, <2>2, <2>5, <2>6, LocalStep
<1>6. CASE goal[a] # "register"
  <2>1. DoneWithSpray(a)
    BY <1>6 DEF writeStore
  <2>2. TypeOK'
    BY <1>1, <1>2, <2>1, EmptyFacts, NewFacts, RampAssumption
       DEF IInv, TypeOK, DoneWithSpray, PCs, RampAssumption
  <2>3. cur'[a] = NoSpray /\ pc'[a] \in {"idle", "next"} /\ out'[a] = EmptyData
    BY <2>1 DEF IInv, TypeOK, DoneWithSpray
  <2>4. \A b \in Activities \ {a} : Untouched(b)
    BY <1>1, <2>1 DEF IInv, TypeOK, DoneWithSpray, Untouched
  <2> QED
    BY <1>1, <1>3, <1>4, <2>2, <2>3, <2>4, DroppedOK, LocalStep
<1> QED
  BY <1>5, <1>6

LEMMA AdvanceThrowsStep ==
  ASSUME IInv, NEW a \in Activities, AdvanceThrows(a)
  PROVE  IInv'
<1>1. /\ clock' = clock /\ store' = store /\ placed' = placed
      /\ orders' = orders /\ bought' = bought /\ starts' = starts
      /\ crashes' = crashes
  BY DEF AdvanceThrows, brokerVars
<1>2. Grows /\ FillsAccounted'
  BY <1>1, UnchangedGrows DEF BrokerUnchanged
<1>3. TypeOK'
  BY <1>1, EmptyFacts, NewFacts, RampAssumption
     DEF IInv, TypeOK, AdvanceThrows, PCs, RampAssumption
<1>4. /\ cur'[a] = NoSpray /\ pc'[a] = "idle" /\ out'[a] = EmptyData
      /\ todo'[a] = EmptyData
  BY DEF IInv, TypeOK, AdvanceThrows
<1>5. \A b \in Activities \ {a} : Untouched(b)
  BY DEF IInv, TypeOK, AdvanceThrows, Untouched
<1> QED
  BY <1>1, <1>2, <1>3, <1>4, <1>5, DroppedOK, StoreStays, LocalStep

LEMMA startSprayBuyStep ==
  ASSUME IInv, NEW c \in Contracts, startSprayBuy(c)
  PROVE  IInv'
<1> DEFINE a == "start"
           s == <<c, clock>>
<1>1. /\ s \in Sprays /\ startedAt(s) = clock /\ a \in Activities
      /\ store \in SprayData /\ LocalOK(a)
  BY DEF IInv, TypeOK, Sprays, startedAt, Activities
<1> HIDE DEF s
<1>2. /\ clock' = clock /\ store' = store /\ placed' = placed
      /\ orders' = orders /\ bought' = bought /\ todo' = todo
      /\ crashes' = crashes /\ starts < MaxStarts /\ starts' = starts + 1
      /\ cur' = [cur EXCEPT ![a] = s] /\ now' = [now EXCEPT ![a] = clock]
  BY DEF startSprayBuy, brokerVars, s
<1>3. Grows /\ FillsAccounted' /\ starts' \in 0 .. MaxStarts
  BY <1>2, UnchangedGrows, RampAssumption
     DEF BrokerUnchanged, IInv, TypeOK, RampAssumption
<1>4. CASE store[s] # NoRecord
  <2>1. GoOn(a, store[s], "reconcile") /\ goal' = goal /\ out' = out
    BY <1>4 DEF startSprayBuy, s
  <2>2. store[s] \in SprayRampRecord /\ GoodRecord(s, store[s])
    BY <1>1, <1>4 DEF SprayData, IInv, StoreOK
  <2>3. TypeOK'
    BY <1>1, <1>2, <1>3, <2>1, <2>2 DEF IInv, TypeOK, GoOn, PCs
  <2>4. /\ cur'[a] = s /\ rec'[a] = store[s] /\ pc'[a] = "reconcile"
        /\ now'[a] = clock
    BY <1>1, <1>2, <2>1 DEF IInv, TypeOK, GoOn
  <2> DEFINE r == store[s]
  <2> HIDE DEF r
  <2>5. LocalOK(a)'
    <3>1. r # NoRecord /\ r = store[s] /\ clock <= clock
      BY <1>4, RampAssumption DEF r, IInv, TypeOK, RampAssumption
    <3>2. out'[a] = out[a]
      BY <2>1
    <3> QED
      BY SMTT(30), <1>1, <1>2, <2>2, <2>4, <3>1, <3>2 DEF LocalOK, GoodRecord, GoodSlot
  <2>6. \A b \in Activities \ {a} : Untouched(b)
    BY <1>2, <2>1 DEF IInv, TypeOK, GoOn, Untouched
  <2> QED
    BY <1>1, <1>2, <1>3, <2>3, <2>5, <2>6, StoreStays, LocalStep
<1>5. CASE store[s] = NoRecord
  <2> DEFINE data == [store EXCEPT ![s] = NewRecord]
  <2>1. /\ GoOn(a, NewRecord, "truncate")
        /\ goal' = [goal EXCEPT ![a] = "register"]
        /\ out' = [out EXCEPT ![a] = data]
    BY <1>5 DEF startSprayBuy, s
  <2>2. bought[s] \in Nat /\ clock \in Int
    BY <1>1, RampAssumption DEF IInv, TypeOK, RampAssumption
  <2>3. GoodRecord(s, NewRecord)
    BY <1>1, <2>2, NewFacts DEF GoodRecord, GoodSlot
  <2>4. data \in SprayData /\ \A z \in Sprays : GoodRecord(z, data[z])
    BY <1>1, <2>3, NewFacts DEF SprayData, IInv, StoreOK
  <2> HIDE DEF data
  <2>5. TypeOK'
    BY <1>1, <1>2, <1>3, <2>1, <2>4, NewFacts DEF IInv, TypeOK, GoOn, PCs
  <2>6. /\ cur'[a] = s /\ rec'[a] = NewRecord /\ pc'[a] = "truncate"
        /\ out'[a] = data
    BY <1>1, <1>2, <2>1 DEF IInv, TypeOK, GoOn
  <2>7. LocalOK(a)'
    BY <1>1, <1>2, <2>3, <2>4, <2>6 DEF LocalOK, GoodRecord, GoodSlot, Advancing
  <2>8. \A b \in Activities \ {a} : Untouched(b)
    BY <1>2, <2>1 DEF IInv, TypeOK, GoOn, Untouched
  <2> QED
    BY <1>1, <1>2, <1>3, <2>5, <2>7, <2>8, StoreStays, LocalStep
<1> QED
  BY <1>4, <1>5

LEMMA abortSprayBuyStep ==
  ASSUME IInv, NEW s \in Sprays, abortSprayBuy(s)
  PROVE  IInv'
<1> DEFINE a == "abort"
           r == [store[s] EXCEPT !.aborted = TRUE]
           data == [store EXCEPT ![s].aborted = TRUE]
<1>1. /\ a \in Activities /\ store \in SprayData /\ LocalOK(a)
      /\ store[s] \in SprayRampRecord /\ GoodRecord(s, store[s])
  BY DEF IInv, TypeOK, SprayData, StoreOK, Activities, abortSprayBuy
<1>2. /\ clock' = clock /\ store' = store /\ placed' = placed
      /\ orders' = orders /\ bought' = bought /\ todo' = todo
      /\ crashes' = crashes /\ starts' = starts /\ now' = now /\ goal' = goal
      /\ cur' = [cur EXCEPT ![a] = s]
      /\ GoOn(a, r, "truncate")
      /\ out' = [out EXCEPT ![a] = pruneCompletedSprays(data)]
  BY DEF abortSprayBuy, brokerVars
<1>3. Grows /\ FillsAccounted'
  BY <1>2, UnchangedGrows DEF BrokerUnchanged
<1>4. r \in SprayRampRecord /\ GoodRecord(s, r)
  BY <1>1, RecordFacts DEF GoodRecord, GoodSlot, SprayRampRecord
<1>5. data \in SprayData /\ \A z \in Sprays : GoodRecord(z, data[z])
  <2>1. data = [store EXCEPT ![s] = r]
    OBVIOUS
  <2> HIDE DEF data, r
  <2> QED
    BY <1>1, <1>4, <2>1 DEF SprayData, IInv, StoreOK
<1> HIDE DEF data, r
<1>6. /\ out' \in [Activities -> SprayData]
      /\ \A z \in Sprays : GoodRecord(z, out'[a][z])
  BY <1>1, <1>2, <1>5, PruneFacts DEF IInv, TypeOK, GoodRecord
<1>7. TypeOK'
  BY <1>1, <1>2, <1>4, <1>6 DEF IInv, TypeOK, GoOn, PCs
<1>8. /\ cur'[a] = s /\ rec'[a] = r /\ pc'[a] = "truncate"
  BY <1>1, <1>2 DEF IInv, TypeOK, GoOn
<1>9. LocalOK(a)'
  BY <1>1, <1>2, <1>4, <1>6, <1>8 DEF LocalOK, GoodRecord, GoodSlot, Advancing
<1>10. \A b \in Activities \ {a} : Untouched(b)
  BY <1>2 DEF IInv, TypeOK, GoOn, Untouched
<1> QED
  BY <1>1, <1>2, <1>3, <1>7, <1>9, <1>10, StoreStays, LocalStep

LEMMA FillOneStep ==
  ASSUME IInv, NEW o \in 1 .. placed, FillOne(o)
  PROVE  IInv'
<1> DEFINE s == orders[o].spray
           st == IF orders[o].filled + 1 >= orders[o].quantity
                 THEN "filled" ELSE orders[o].status
<1>1. orders[o] \in Orders /\ s \in Sprays /\ bought[s] \in Nat
      /\ st \in {"live", "cancelling", "filled", "dead"}
  BY DEF IInv, TypeOK, Orders
<1>2. /\ orders' = [orders EXCEPT ![o].filled = @ + 1, ![o].status = st]
      /\ bought' = [bought EXCEPT ![s] = @ + 1]
      /\ placed' = placed /\ clock' = clock /\ store' = store
      /\ starts' = starts /\ crashes' = crashes /\ localVars' = localVars
  BY DEF FillOne
<1> DEFINE f == orders[o].filled + 1
<1>. f \in Nat
  BY <1>1 DEF Orders
<1> HIDE DEF st, f
<1>. orders' = [orders EXCEPT ![o].filled = f, ![o].status = st]
  BY <1>2 DEF f
<1>3. /\ orders' \in [1 .. placed -> Orders]
      /\ \A p \in 1 .. placed :
           /\ orders'[p].spray = orders[p].spray
           /\ orders'[p].prior = orders[p].prior
           /\ orders'[p].filled = IF p = o THEN f ELSE orders[p].filled
  BY <1>1 DEF IInv, TypeOK, Orders
<1>4. /\ bought' \in [Sprays -> Nat]
      /\ \A z \in Sprays : bought'[z] = IF z = s THEN bought[s] + 1 ELSE bought[z]
  BY <1>1, <1>2 DEF IInv, TypeOK
<1> HIDE DEF s
<1>5. TypeOK'
  BY <1>2, <1>3, <1>4 DEF IInv, TypeOK, localVars
<1>6. Grows
  BY <1>2, <1>3, <1>4 DEF IInv, TypeOK, Grows
<1>7. FillsAccounted'
  <2> SUFFICES ASSUME NEW p \in 1 .. placed
               PROVE  orders'[p].prior + orders'[p].filled
                        <= bought'[orders'[p].spray]
    BY <1>2 DEF FillsAccounted
  <2>1. orders[p] \in Orders /\ orders[p].spray \in Sprays
        /\ orders[p].prior + orders[p].filled <= bought[orders[p].spray]
        /\ orders[p].prior \in Nat /\ orders[p].filled \in Nat
        /\ bought[orders[p].spray] \in Nat
    BY DEF IInv, TypeOK, FillsAccounted, Orders
  <2>2. CASE p = o
    <3>1. bought'[orders[p].spray] = bought[orders[p].spray] + 1
      BY <1>4, <2>1, <2>2 DEF s
    <3>2. /\ orders'[p].filled = orders[p].filled + 1
          /\ orders'[p].prior = orders[p].prior
          /\ orders'[p].spray = orders[p].spray
      BY <1>3, <2>2 DEF f
    <3> QED
      BY <2>1, <3>1, <3>2
  <2>3. CASE p # o
    <3>1. /\ orders'[p].filled = orders[p].filled
          /\ orders'[p].prior = orders[p].prior
          /\ orders'[p].spray = orders[p].spray
      BY <1>3, <2>3
    <3>2. bought'[orders[p].spray] \in Nat
          /\ bought[orders[p].spray] <= bought'[orders[p].spray]
      BY <1>4, <1>6, <2>1 DEF Grows
    <3> QED
      BY <2>1, <3>1, <3>2
  <2> QED
    BY <2>2, <2>3
<1> QED
  BY <1>2, <1>5, <1>6, <1>7, BrokerStep

LEMMA OrderDiesStep ==
  ASSUME IInv, NEW o \in 1 .. placed, OrderDies(o)
  PROVE  IInv'
<1>1. /\ orders' = [orders EXCEPT ![o].status = "dead"]
      /\ UNCHANGED <<clock, store, placed, bought, starts, crashes, localVars>>
  BY DEF OrderDies
<1>2. /\ orders' \in [1 .. placed -> Orders]
      /\ \A p \in 1 .. placed : /\ orders'[p].spray = orders[p].spray
                               /\ orders'[p].prior = orders[p].prior
                               /\ orders'[p].filled = orders[p].filled
  BY ZenonT(30), <1>1 DEF IInv, TypeOK, Orders
<1>3. TypeOK'
  BY <1>1, <1>2 DEF IInv, TypeOK, localVars
<1>4. Grows /\ FillsAccounted'
  BY <1>1, <1>2 DEF IInv, TypeOK, Grows, FillsAccounted
<1> QED
  BY <1>1, <1>3, <1>4, BrokerStep

LEMMA TickStep ==
  ASSUME IInv, Tick
  PROVE  IInv'
<1>1. TypeOK'
  BY RampAssumption
     DEF IInv, TypeOK, Tick, brokerVars, localVars, RampAssumption
<1>2. Grows /\ FillsAccounted'
  BY RampAssumption
     DEF IInv, TypeOK, Tick, Grows, FillsAccounted, brokerVars, RampAssumption
<1> QED
  BY <1>1, <1>2, BrokerStep DEF Tick

LEMMA CrashStep ==
  ASSUME IInv, Crash
  PROVE  IInv'
<1>1. /\ clock' = clock /\ store' = store /\ placed' = placed
      /\ orders' = orders /\ bought' = bought
  BY DEF Crash, brokerVars
<1>2. Grows /\ FillsAccounted'
  BY <1>1, UnchangedGrows DEF BrokerUnchanged
<1>3. TypeOK'
  BY <1>1, EmptyFacts, NewFacts, RampAssumption
     DEF IInv, TypeOK, Crash, PCs, RampAssumption
<1>4. \A a \in Activities :
        /\ cur'[a] = NoSpray /\ pc'[a] = "idle" /\ out'[a] = EmptyData
        /\ todo'[a] = EmptyData
  BY DEF Crash
<1> QED
  BY <1>1, <1>2, <1>3, <1>4, DroppedOK, StoreStays DEF IInv

-----------------------------------------------------------------------------
(* The theorems *)

\* No step of any actor breaks the inductive invariant.
LEMMA NextIInv ==
  ASSUME IInv, [Next]_vars
  PROVE  IInv'
<1>1. CASE CycleSteps
  BY <1>1, advanceSpraysStep, CycleEndsStep, NextSprayStep DEF CycleSteps
<1>2. CASE \E c \in Contracts : startSprayBuy(c)
  BY <1>2, startSprayBuyStep
<1>3. CASE \E s \in Sprays : abortSprayBuy(s)
  BY <1>3, abortSprayBuyStep
<1>4. CASE \E a \in Activities : AdvanceSteps(a)
  BY <1>4, ReconcileOrderStep, UsableQuoteStep, NoQuoteStep, RetireOrderStep,
     CancelAcceptedStep, CancelFailedStep, RecheckOrderStep, PlaceAcceptedStep,
     PlaceRejectedStep, ReadForSaveStep, TruncateFileStep, writeStoreStep,
     AdvanceThrowsStep DEF AdvanceSteps
<1>5. CASE BrokerSteps
  BY <1>5, FillOneStep, OrderDiesStep DEF BrokerSteps
<1>6. CASE Tick
  BY <1>6, TickStep
<1>7. CASE Crash
  BY <1>7, CrashStep
<1>8. CASE UNCHANGED vars
  <2>1. TypeOK'
    BY <1>8 DEF IInv, TypeOK, vars, brokerVars, localVars
  <2>2. BrokerUnchanged /\ UNCHANGED <<store, localVars>>
    BY <1>8 DEF vars, brokerVars, BrokerUnchanged
  <2> QED
    BY <2>1, <2>2, UnchangedGrows, BrokerStep
<1> QED
  BY <1>1, <1>2, <1>3, <1>4, <1>5, <1>6, <1>7, <1>8 DEF Next

\* The inductive invariant holds in every reachable state.
THEOREM Invariant == Spec => []IInv
BY InitIInv, NextIInv, PTL DEF Spec

\* Every variable of the executor keeps its type, whatever interleaves: an
\* order is never for zero contracts or more than the spray's total.
THEOREM TypeCorrect == Spec => []TypeOK
<1>1. IInv => TypeOK
  BY DEF IInv
<1> QED
  BY <1>1, Invariant, PTL

\* No stored, loaded or pending copy of a record ever claims more contracts
\* than were bought, through any overlap of activities, failed call, torn
\* write, lost reply or restart (reconcileWorkingOrder).
THEOREM FillsNeverOvercounted == Spec => []NeverOvercounts
<1>1. IInv => NeverOvercounts
  <2> SUFFICES ASSUME IInv, NEW s \in Sprays,
                      NEW r \in CopiesOf(s) \ {NoRecord}
               PROVE  r.observedFilled <= bought[s]
    BY DEF NeverOvercounts
  <2>1. GoodRecord(s, r)
    <3>1. CASE r = store[s]
      BY <3>1 DEF IInv, StoreOK
    <3>2. CASE \E a \in Activities : cur[a] = s /\ r = rec[a]
      BY <3>2, SprayFacts DEF IInv, LocalOK
    <3>3. CASE \E a \in Activities : r = todo[a][s] \/ r = out[a][s]
      BY <3>3 DEF IInv, LocalOK
    <3> QED
      BY <3>1, <3>2, <3>3 DEF CopiesOf
  <2> QED
    BY <2>1 DEF GoodRecord
<1> QED
  BY <1>1, Invariant, PTL
-----------------------------------------------------------------------------
(* What is stored is active *)

ActiveOnly(data) ==
  \A s \in Sprays : data[s] # NoRecord => ~isSprayComplete(data[s])

\* The file, and whatever is about to become the file.
PrunedInv == OnlyActiveStored /\ \A a \in Activities : ActiveOnly(out[a])

\* Pruning leaves active records only; a fresh record is active.
LEMMA ActiveFacts ==
  /\ ActiveOnly(EmptyData)
  /\ \A data \in SprayData : ActiveOnly(pruneCompletedSprays(data))
  /\ ~isSprayComplete(NewRecord)
<1>1. ActiveOnly(EmptyData)
  BY DEF ActiveOnly, EmptyData
<1>2. ASSUME NEW data \in SprayData
      PROVE  ActiveOnly(pruneCompletedSprays(data))
  BY DEF ActiveOnly, pruneCompletedSprays
<1>3. ~isSprayComplete(NewRecord)
  BY RampAssumption DEF isSprayComplete, NewRecord, RampAssumption
<1> QED
  BY <1>1, <1>2, <1>3

\* A step that keeps the file and what is about to be written, except for what
\* one activity is, keeps them active if the new content is.
LEMMA OneOutput ==
  ASSUME PrunedInv, TypeOK, NEW a \in Activities, NEW data,
         out' = [out EXCEPT ![a] = data], ActiveOnly(data), store' = store
  PROVE  PrunedInv'
<1>1. \A b \in Activities : out'[b] \in {data, out[b]}
  BY DEF TypeOK
<1> QED
  BY <1>1 DEF PrunedInv, OnlyActiveStored, ActiveOnly, isSprayComplete

\* The step of an activity that has no write under way.
LEMMA NoOutput ==
  ASSUME PrunedInv, UNCHANGED <<store, out>>
  PROVE  PrunedInv'
BY DEF PrunedInv, OnlyActiveStored, ActiveOnly, isSprayComplete

\* A registration adds a fresh record, an abort prunes.
LEMMA BeginActive ==
  ASSUME PrunedInv, TypeOK
  PROVE  /\ \A c \in Contracts : startSprayBuy(c) => PrunedInv'
         /\ \A s \in Sprays : abortSprayBuy(s) => PrunedInv'
<1>1. ASSUME NEW c \in Contracts, startSprayBuy(c)
      PROVE  PrunedInv'
  <2>1. CASE UNCHANGED out
    BY <1>1, <2>1, NoOutput DEF startSprayBuy
  <2>2. CASE out' = [out EXCEPT !["start"] = [store EXCEPT ![<<c, clock>>] = NewRecord]]
    <3>1. ActiveOnly([store EXCEPT ![<<c, clock>>] = NewRecord])
      BY ActiveFacts DEF ActiveOnly, PrunedInv, OnlyActiveStored, TypeOK, SprayData
    <3> QED
      BY <1>1, <2>2, <3>1, OneOutput DEF startSprayBuy, Activities
  <2> QED
    BY <1>1, <2>1, <2>2 DEF startSprayBuy
<1>2. ASSUME NEW s \in Sprays, abortSprayBuy(s)
      PROVE  PrunedInv'
  <2>1. [store EXCEPT ![s].aborted = TRUE] \in SprayData
    <3>1. store[s] \in SprayRampRecord
      BY <1>2 DEF abortSprayBuy, TypeOK, SprayData
    <3>2. [store[s] EXCEPT !.aborted = TRUE] \in SprayRampRecord
      BY <3>1 DEF SprayRampRecord
    <3> QED
      BY <3>2 DEF TypeOK, SprayData
  <2>2. /\ out' = [out EXCEPT !["abort"] =
               pruneCompletedSprays([store EXCEPT ![s].aborted = TRUE])]
        /\ store' = store
    BY <1>2 DEF abortSprayBuy
  <2> QED
    BY <2>1, <2>2, ActiveFacts, OneOutput DEF Activities
<1> QED
  BY <1>1, <1>2

\* saveSpray prunes before it writes; the other awaits write nothing.
LEMMA AdvanceActive ==
  ASSUME PrunedInv, TypeOK, NEW a \in Activities, AdvanceSteps(a)
  PROVE  PrunedInv'
<1>1. CASE UNCHANGED <<store, out>>
  BY <1>1, NoOutput
<1>2. CASE ReadForSave(a)
  <2>1. CASE DoneWithSpray(a)
    BY <1>2, <2>1, ActiveFacts, OneOutput DEF ReadForSave, DoneWithSpray
  <2>2. CASE store[cur[a]] # NoRecord
    <3>1. [store EXCEPT ![cur[a]] = rec[a]] \in SprayData
      BY DEF TypeOK, SprayData
    <3> QED
      BY <1>2, <2>2, <3>1, ActiveFacts, OneOutput DEF ReadForSave
  <2> QED
    BY <1>2, <2>1, <2>2 DEF ReadForSave
<1>3. CASE TruncateFile(a)
  BY <1>3, ActiveFacts
     DEF TruncateFile, PrunedInv, OnlyActiveStored, ActiveOnly, isSprayComplete
<1>4. CASE writeStore(a)
  <2>1. store' = out[a]
    BY <1>4 DEF writeStore
  <2>2. out' = [out EXCEPT ![a] = EmptyData]
    BY <1>4 DEF writeStore, DoneWithSpray
  <2>3. \A b \in Activities : out'[b] \in {EmptyData, out[b]}
    BY <2>2 DEF TypeOK
  <2> QED
    BY <2>1, <2>3, ActiveFacts
       DEF PrunedInv, OnlyActiveStored, ActiveOnly, isSprayComplete
<1>5. CASE AdvanceThrows(a)
  BY <1>5, ActiveFacts, OneOutput DEF AdvanceThrows
<1>6. ASSUME ReconcileOrder(a) \/ UsableQuote(a) \/ NoQuote(a)
             \/ RetireOrder(a) \/ CancelAccepted(a) \/ CancelFailed(a)
             \/ RecheckOrder(a) \/ PlaceAccepted(a) \/ PlaceRejected(a)
      PROVE  UNCHANGED <<store, out>>
  BY <1>6 DEF ReconcileOrder, UsableQuote, NoQuote, RetireOrder, CancelAccepted,
              CancelFailed, RecheckOrder, PlaceAccepted, PlaceRejected
<1> QED
  BY <1>1, <1>2, <1>3, <1>4, <1>5, <1>6 DEF AdvanceSteps

LEMMA PrunedInit == Init => PrunedInv
BY ActiveFacts DEF Init, PrunedInv, OnlyActiveStored, ActiveOnly

LEMMA PrunedStep ==
  ASSUME PrunedInv, TypeOK, [Next]_vars
  PROVE  PrunedInv'
<1>1. CASE CycleSteps \/ BrokerSteps \/ Tick \/ UNCHANGED vars
  <2>1. UNCHANGED <<store, out>>
    BY <1>1 DEF CycleSteps, advanceSprays, CycleEnds, NextSpray, BrokerSteps,
                FillOne, OrderDies, Tick, vars, localVars
  <2> QED
    BY <2>1, NoOutput
<1>2. CASE \E c \in Contracts : startSprayBuy(c)
  BY <1>2, BeginActive
<1>3. CASE \E s \in Sprays : abortSprayBuy(s)
  BY <1>3, BeginActive
<1>4. CASE \E a \in Activities : AdvanceSteps(a)
  BY <1>4, AdvanceActive
<1>5. CASE Crash
  BY <1>5, ActiveFacts
     DEF Crash, PrunedInv, OnlyActiveStored, ActiveOnly, isSprayComplete
<1> QED
  BY <1>1, <1>2, <1>3, <1>4, <1>5 DEF Next

\* No write leaves a resolved spray behind, whoever writes and however writes
\* overlap (pruneCompletedSprays): a resolved spray is never advanced again.
THEOREM ResolvedSpraysLeave == Spec => []OnlyActiveStored
<1>1. PrunedInv => OnlyActiveStored
  BY DEF PrunedInv
<1> QED
  BY <1>1, PrunedInit, PrunedStep, TypeCorrect, PTL DEF Spec

-----------------------------------------------------------------------------
(* One order at a time, and what the ramp allows.                          *)

\* Activities exclude each other, and nothing comes between an order and the
\* write that names it.
InOrder ==
  /\ ~Overlap /\ ~AbortCalls /\ ~LostReplies /\ ~StoreErrors /\ CancelIsFinal
  /\ MaxCrashes = 0 /\ AbortAfter > 0

LiveOf(s) == {o \in 1 .. placed : InBook(o) /\ orders[o].spray = s}

\* startSprayBuy may still begin this very spray.
Startable(s) == clock <= startedAt(s) /\ bought[s] = 0

\* With what its working order has filled, r tells all that s has bought.
Exact(s, r) ==
  LET w == r.workingOrder
  IN  IF w.id = 0 THEN r.observedFilled = bought[s]
      ELSE /\ w.filledBefore = orders[w.id].prior
           /\ orders[w.id].prior + orders[w.id].filled = bought[s]

\* r names whatever works for s; a record is not given up as long as its spray
\* may be begun.  Whether it is exact, too, is up to the broker.
Knows(exact, s, r) ==
  IF r = NoRecord THEN Startable(s) => LiveOf(s) = {}
  ELSE /\ \A o \in LiveOf(s) : r.workingOrder.id = o
       /\ exact => Exact(s, r)
       /\ r.aborted => startedAt(s) < clock
       /\ r.quoteUnavailableSince # -1 => startedAt(s) <= r.quoteUnavailableSince

Known(exact) ==
  [s \in Sprays |-> {r \in SprayRampRecord \cup {NoRecord} :
                       GoodRecord(s, r) /\ Knows(exact, s, r)}]

Resting(a) ==
  pc[a] = "idle" /\ goal[a] \notin {"abort", "register"} /\ todo[a] = EmptyData

\* What the cycle has loaded and not advanced yet is in the file, too.
TodoKnown(exact, a, file) ==
  \A s \in Sprays : todo[a][s] # NoRecord =>
    todo[a][s] \in Known(exact)[s] /\ file[s] # NoRecord

Between(exact, a) ==
  /\ pc[a] = "next" /\ goal[a] \notin {"abort", "register"}
  /\ \A s \in Sprays : store[s] \in Known(exact)[s]
  /\ TodoKnown(exact, a, store)

\* The record in hand knows; the file is behind from the retirement on.
Advances(exact, a) ==
  /\ pc[a] \in Advancing \cup {"save"}
  /\ rec[a] \in Known(exact)[cur[a]] /\ store[cur[a]] # NoRecord
  /\ \A s \in Sprays :
       s # cur[a] \/ pc[a] \in {"reconcile", "quote"} => store[s] \in Known(exact)[s]
  /\ TodoKnown(exact, a, store) /\ todo[a][cur[a]] = NoRecord
  /\ pc[a] = "place" => rec[a].workingOrder.id = 0
  /\ pc[a] = "recheck" => LiveOf(cur[a]) = {}
  /\ goal[a] = "abort" => startedAt(cur[a]) < clock
  /\ goal[a] # "register"
  /\ a # "cycle" => todo[a] = EmptyData

Writes(exact, a) ==
  /\ pc[a] \in {"truncate", "write"}
  /\ \A s \in Sprays : out[a][s] \in Known(exact)[s]
  /\ TodoKnown(exact, a, out[a])
  /\ goal[a] # "abort"
  /\ goal[a] = "register" => out[a][cur[a]] = rec[a] /\ todo[a][cur[a]] = NoRecord
  /\ a # "cycle" => todo[a] = EmptyData

Turn(exact, a) ==
  /\ \A b \in Activities \ {a} : Resting(b)
  /\ Between(exact, a) \/ Advances(exact, a) \/ Writes(exact, a)

Quiet(exact) ==
  /\ \A b \in Activities : Resting(b)
  /\ \A s \in Sprays : store[s] \in Known(exact)[s]

OrderInv(exact) ==
  /\ SingleLiveOrder
  /\ \A a \in Activities : now[a] <= clock
  /\ Quiet(exact) \/ \E a \in Activities : Turn(exact, a)

\* A status call that fails on the last re-read frees the slot all the same; no
\* such step is taken.
Answered ==
  \A a \in Activities : pc[a] = "recheck" /\ pc'[a] # "recheck" =>
    rec'[a].observedFilled = Reconciled(rec[a]).observedFilled

\* What it means to be known, without the set.
LEMMA KnownFacts ==
  ASSUME NEW e \in BOOLEAN, NEW s \in Sprays
  PROVE  \A r : r \in Known(e)[s] <=>
           r \in SprayRampRecord \cup {NoRecord} /\ GoodRecord(s, r) /\ Knows(e, s, r)
BY DEF Known

\* A live order is in the book.
LEMMA LiveFacts ==
  ASSUME IInv, NEW s \in Sprays, NEW o \in LiveOf(s)
  PROVE  /\ o \in 1 .. placed /\ o \in Nat /\ o # 0 /\ orders[o] \in Orders
         /\ InBook(o) /\ orders[o].spray = s
BY DEF LiveOf, IInv, TypeOK

-----------------------------------------------------------------------------
(* Records keep knowing.                                                   *)

\* Where the orders, the purchases and the clock stay, so does what is known.
LEMMA KnownSame ==
  ASSUME UNCHANGED <<clock, brokerVars>>, NEW e \in BOOLEAN
  PROVE  Known(e)' = Known(e) /\ \A s : LiveOf(s)' = LiveOf(s)
<1>1. ASSUME NEW s PROVE LiveOf(s)' = LiveOf(s)
  BY DEF brokerVars, LiveOf, InBook
<1>2. ASSUME NEW s, NEW r PROVE Knows(e, s, r)' <=> Knows(e, s, r)
  BY <1>1 DEF brokerVars, Knows, Exact, Startable
<1>3. ASSUME NEW s, NEW r PROVE GoodRecord(s, r)' <=> GoodRecord(s, r)
  BY DEF brokerVars, GoodRecord, GoodSlot
<1> QED BY <1>1, <1>2, <1>3 DEF Known

\* Where no order comes and time and purchases go on, a record stays known.
LEMMA KnownStays ==
  ASSUME IInv, TypeOK', Grows, NEW e \in BOOLEAN, NEW s \in Sprays,
         LiveOf(s)' \subseteq LiveOf(s), NEW r \in Known(e)[s],
         r # NoRecord /\ e /\ Exact(s, r) => Exact(s, r)'
  PROVE  r \in Known(e)'[s]
<1>1. r \in SprayRampRecord \cup {NoRecord} /\ GoodRecord(s, r) /\ Knows(e, s, r)
  BY KnownFacts
<1>2. GoodRecord(s, r)'
  BY <1>1, GoodStays
<1>3. /\ startedAt(s) \in Int /\ clock \in Int /\ clock' \in Int
      /\ bought[s] \in Nat /\ bought'[s] \in Nat
  BY SprayFacts, RampAssumption DEF IInv, TypeOK, RampAssumption
<1>4. Knows(e, s, r)'
  <2>1. Startable(s)' => Startable(s)
    BY <1>3 DEF Startable, Grows
  <2>2. CASE r = NoRecord
    BY <1>1, <2>1, <2>2 DEF Knows
  <2>3. CASE r # NoRecord
    <3>1. startedAt(s) < clock => startedAt(s) < clock'
      BY <1>3 DEF Grows
    <3> QED BY <1>1, <2>3, <3>1 DEF Knows
  <2> QED BY <2>2, <2>3
<1> QED BY <1>1, <1>2, <1>4 DEF Known

\* A step of the broker or the clock, under which every record stays known.
LEMMA WorldStep ==
  ASSUME IInv, NEW e \in BOOLEAN, OrderInv(e), UNCHANGED <<store, localVars>>,
         clock \in Int, clock' \in Int, clock <= clock', SingleLiveOrder',
         \A s \in Sprays : LiveOf(s)' \subseteq LiveOf(s),
         \A s \in Sprays : \A r \in Known(e)[s] : r \in Known(e)'[s]
  PROVE  OrderInv(e)'
<1>1. \A a \in Activities : now'[a] <= clock'
  BY DEF OrderInv, localVars, IInv, TypeOK
<1>2. \A a \in Activities : Resting(a) => Resting(a)'
  BY DEF Resting, localVars
<1>3. CASE Quiet(e)
  BY <1>1, <1>2, <1>3 DEF OrderInv, Quiet
<1>4. ASSUME NEW a \in Activities, Turn(e, a)
      PROVE  Turn(e, a)'
  <2>1. CASE Between(e, a)
    BY <1>2, <1>4, <2>1 DEF Turn, Between, TodoKnown, localVars
  <2>2. CASE Advances(e, a)
    <3>1. cur[a] \in Sprays /\ startedAt(cur[a]) \in Int
      <4>1. cur[a] \in Sprays
        BY <2>2 DEF Advances, Advancing, IInv, TypeOK
      <4> QED BY <4>1, SprayFacts
    <3>2. startedAt(cur[a]) < clock => startedAt(cur'[a]) < clock'
      BY <3>1 DEF localVars
    <3>3. LiveOf(cur[a]) = {} => (LiveOf(cur[a]) = {})'
      <4>1. \A o \in LiveOf(cur[a])' : o \in LiveOf(cur[a])
        <5>1. cur'[a] = cur[a]
          BY DEF localVars
        <5> QED BY <3>1, <5>1 DEF LiveOf
      <4> QED BY <4>1
    <3>4. Advances(e, a)'
      BY <2>2, <3>1, <3>2, <3>3 DEF Advances, TodoKnown, localVars
    <3> QED BY <1>2, <1>4, <3>4 DEF Turn
  <2>3. CASE Writes(e, a)
    BY <1>2, <1>4, <2>3 DEF Turn, Writes, TodoKnown, localVars, IInv, TypeOK
  <2> QED BY <1>4, <2>1, <2>2, <2>3 DEF Turn
<1> QED BY <1>1, <1>3, <1>4 DEF OrderInv

LEMMA TickKnows ==
  ASSUME IInv, TypeOK', NEW e \in BOOLEAN, OrderInv(e), Tick
  PROVE  OrderInv(e)'
<1>1. /\ UNCHANGED <<store, localVars, brokerVars>> /\ placed' = placed
      /\ orders' = orders /\ bought' = bought
      /\ clock \in Int /\ clock' \in Int /\ clock <= clock'
  BY RampAssumption DEF Tick, brokerVars, IInv, TypeOK, RampAssumption
<1>2. Grows
  BY <1>1 DEF Grows, IInv, TypeOK
<1>3. SingleLiveOrder'
  BY <1>1 DEF OrderInv, SingleLiveOrder, InBook
<1>4. \A s \in Sprays : LiveOf(s)' = LiveOf(s)
  BY <1>1 DEF LiveOf, InBook
<1>5. ASSUME NEW s \in Sprays, NEW r \in Known(e)[s]
      PROVE  r \in Known(e)'[s]
  <2>1. Exact(s, r) => Exact(s, r)'
    BY <1>1 DEF Exact
  <2> QED BY <1>2, <1>4, <2>1, KnownStays
<1> QED BY <1>1, <1>3, <1>4, <1>5, WorldStep

\* An order leaves the book, for whatever reason.
LEMMA DeadKnows ==
  ASSUME IInv, TypeOK', NEW e \in BOOLEAN, SingleLiveOrder, NEW o \in 1 .. placed,
         orders' = [orders EXCEPT ![o].status = "dead"],
         UNCHANGED <<clock, placed, bought>>
  PROVE  /\ SingleLiveOrder' /\ \A s \in Sprays : LiveOf(s)' = LiveOf(s) \ {o}
         /\ \A s \in Sprays : \A r \in Known(e)[s] : r \in Known(e)'[s]
<1>1. \A p \in 1 .. placed :
        /\ orders'[p].spray = orders[p].spray /\ orders'[p].prior = orders[p].prior
        /\ orders'[p].filled = orders[p].filled
        /\ orders'[p].status = IF p = o THEN "dead" ELSE orders[p].status
  BY SMTT(30) DEF IInv, TypeOK, Orders
<1>2. \A s \in Sprays : LiveOf(s)' = LiveOf(s) \ {o}
  BY <1>1 DEF LiveOf, InBook
<1>3. SingleLiveOrder'
  BY <1>1 DEF SingleLiveOrder, InBook
<1>4. Grows
  BY <1>1 DEF Grows, IInv, TypeOK
<1>5. ASSUME NEW s \in Sprays, NEW r \in Known(e)[s]
      PROVE  r \in Known(e)'[s]
  <2>1. ASSUME r # NoRecord, Exact(s, r)
        PROVE  Exact(s, r)'
    <3>1. r.workingOrder.id # 0 => r.workingOrder.id \in 1 .. placed
      BY <2>1, KnownFacts DEF GoodRecord, GoodSlot
    <3> QED BY <1>1, <2>1, <3>1 DEF Exact
  <2> QED BY <1>2, <1>4, <2>1, KnownStays
<1> QED BY <1>2, <1>3, <1>5

LEMMA OrderDiesKnows ==
  ASSUME IInv, TypeOK', NEW e \in BOOLEAN, OrderInv(e), NEW o \in 1 .. placed, OrderDies(o)
  PROVE  OrderInv(e)'
<1>1. /\ UNCHANGED <<clock, store, placed, bought, localVars>>
      /\ orders' = [orders EXCEPT ![o].status = "dead"]
  BY DEF OrderDies
<1>2. clock \in Int /\ clock' \in Int /\ clock <= clock'
  BY <1>1 DEF IInv, TypeOK
<1>3. SingleLiveOrder
  BY DEF OrderInv
<1>4. /\ SingleLiveOrder' /\ \A s \in Sprays : LiveOf(s)' = LiveOf(s) \ {o}
      /\ \A s \in Sprays : \A r \in Known(e)[s] : r \in Known(e)'[s]
  BY <1>1, <1>3, DeadKnows
<1>5. \A s \in Sprays : LiveOf(s)' \subseteq LiveOf(s)
  BY <1>4
<1> QED BY <1>1, <1>2, <1>4, <1>5, WorldStep

LEMMA FillOneKnows ==
  ASSUME IInv, TypeOK', NEW e \in BOOLEAN, OrderInv(e), NEW o \in 1 .. placed, FillOne(o)
  PROVE  OrderInv(e)'
<1> DEFINE z == orders[o].spray
<1>1. /\ UNCHANGED <<clock, store, placed, localVars>> /\ InBook(o)
      /\ bought' = [bought EXCEPT ![z] = @ + 1]
      /\ z \in Sprays /\ clock \in Int /\ clock' \in Int /\ clock <= clock'
  BY DEF FillOne, IInv, TypeOK, Orders
<1>2. \A p \in 1 .. placed :
        /\ orders'[p].spray = orders[p].spray /\ orders'[p].prior = orders[p].prior
        /\ orders'[p].filled = IF p = o THEN orders[o].filled + 1 ELSE orders[p].filled
        /\ orders'[p].status \in {orders[p].status, "filled"}
        /\ orders[p].filled \in Nat /\ orders[p].prior \in Nat
  <2> DEFINE f == orders[o].filled + 1
             st == IF f >= orders[o].quantity THEN "filled" ELSE orders[o].status
  <2>1. /\ orders' = [orders EXCEPT ![o].filled = f, ![o].status = st]
        /\ st \in {orders[o].status, "filled"}
    BY DEF FillOne
  <2>2. orders \in [1 .. placed -> Orders]
    BY DEF IInv, TypeOK
  <2>3. f = orders[o].filled + 1
    OBVIOUS
  <2> HIDE DEF f, st
  <2> QED BY <2>1, <2>2, <2>3 DEF Orders
<1>3. /\ \A s \in Sprays : bought'[s] = IF s = z THEN bought[z] + 1 ELSE bought[s]
      /\ \A s \in Sprays : bought[s] \in Nat
  BY <1>1 DEF IInv, TypeOK
<1>4. \A s \in Sprays : LiveOf(s)' \subseteq LiveOf(s)
  BY <1>1, <1>2 DEF LiveOf, InBook
<1>5. SingleLiveOrder'
  BY <1>1, <1>2 DEF OrderInv, SingleLiveOrder, InBook
<1>6. Grows
  BY <1>1, <1>2, <1>3 DEF Grows, IInv, TypeOK
<1> HIDE DEF z
<1>7. ASSUME NEW s \in Sprays, NEW r \in Known(e)[s]
      PROVE  r \in Known(e)'[s]
  <2>1. ASSUME r # NoRecord, Exact(s, r)
        PROVE  Exact(s, r)'
    <3> DEFINE i == r.workingOrder.id
    <3>1. i # 0 => i \in 1 .. placed /\ orders[i].spray = s
      BY <2>1, KnownFacts DEF GoodRecord, GoodSlot
    <3>2. CASE s = z
      <4>1. i = o /\ o # 0
        BY <1>1, <2>1, <3>2, KnownFacts DEF Knows, LiveOf, z
      <4> QED BY <1>2, <1>3, <2>1, <3>2, <4>1 DEF Exact
    <3>3. CASE s # z
      <4>1. i # o
        BY <3>1, <3>3 DEF z
      <4> QED BY <1>2, <1>3, <2>1, <3>1, <3>3, <4>1 DEF Exact
    <3> QED BY <3>2, <3>3
  <2> QED BY <1>4, <1>6, <2>1, KnownStays
<1> QED BY <1>1, <1>4, <1>5, <1>7, WorldStep

-----------------------------------------------------------------------------
(* The steps of an activity.  The lemma named after an action and Knows     *)
(* says that the action keeps OrderInv.                                    *)

\* The others stay where they are.
Alone(a) == \A b \in Activities \ {a} :
  pc'[b] = pc[b] /\ goal'[b] = goal[b] /\ todo'[b] = todo[b] /\ now'[b] = now[b]

\* A step of one activity that leaves the broker alone.
LEMMA TurnStep ==
  ASSUME IInv, NEW e \in BOOLEAN, OrderInv(e), NEW a \in Activities, Alone(a),
         UNCHANGED <<clock, brokerVars>>, now'[a] <= clock,
         \A b \in Activities \ {a} : Resting(b),
         \/ Between(e, a)' \/ Advances(e, a)' \/ Writes(e, a)'
         \/ Resting(a)' /\ \A s \in Sprays : store'[s] \in Known(e)[s]
  PROVE  OrderInv(e)'
<1>1. SingleLiveOrder'
  BY DEF OrderInv, SingleLiveOrder, InBook, brokerVars
<1>2. \A b \in Activities : now'[b] <= clock'
  BY DEF OrderInv, Alone
<1>3. \A b \in Activities \ {a} : Resting(b)'
  BY DEF Resting, Alone
<1>4. CASE Between(e, a)' \/ Advances(e, a)' \/ Writes(e, a)'
  BY <1>1, <1>2, <1>3, <1>4 DEF OrderInv, Turn
<1>5. CASE Resting(a)' /\ \A s \in Sprays : store'[s] \in Known(e)[s]
  BY <1>1, <1>2, <1>3, <1>5, KnownSame DEF OrderInv, Quiet
<1> QED BY <1>4, <1>5

\* Nothing begins while something else is under way.
LEMMA BeginsQuiet ==
  ASSUME InOrder, NEW e \in BOOLEAN, OrderInv(e), NEW a \in Activities, MayBegin(a)
  PROVE  Quiet(e)
BY DEF InOrder, MayBegin, OrderInv, Turn, Between, Advances, Writes, Advancing

\* Pruning drops what is complete, and that is never a spray that may be begun.
LEMMA PruneKnows ==
  ASSUME IInv, NEW e \in BOOLEAN, NEW data \in SprayData, NEW s \in Sprays,
         data[s] \in Known(e)[s]
  PROVE  /\ pruneCompletedSprays(data)[s] \in Known(e)[s]
         /\ data[s] # NoRecord /\ ~isSprayComplete(data[s]) =>
              pruneCompletedSprays(data)[s] = data[s]
         /\ pruneCompletedSprays(data)[s] # NoRecord =>
              pruneCompletedSprays(data)[s] = data[s]
<1> DEFINE r == data[s]
           p == pruneCompletedSprays(data)[s]
<1>1. p = IF r # NoRecord /\ isSprayComplete(r) THEN NoRecord ELSE r
  BY DEF pruneCompletedSprays
<1>2. GoodRecord(s, r) /\ Knows(e, s, r)
  BY KnownFacts
<1> HIDE DEF p
<1>3. CASE r # NoRecord /\ isSprayComplete(r)
  <2>1. r \in SprayRampRecord /\ r.observedFilled \in Nat /\ bought[s] \in Nat
        /\ startedAt(s) \in Int /\ clock \in Int
    <3>1. r \in SprayRampRecord
      BY <1>3, KnownFacts
    <3> QED BY <3>1, RecordFacts, SprayFacts DEF IInv, TypeOK
  <2>2. r.aborted \/ r.observedFilled >= Total
    BY <1>3 DEF isSprayComplete
  <2>3. ~Startable(s)
    BY <1>2, <1>3, <2>1, <2>2, RampAssumption
       DEF Startable, Knows, GoodRecord, RampAssumption
  <2>4. p = NoRecord
    BY <1>1, <1>3
  <2>5. p \in Known(e)[s]
    BY <2>3, <2>4, KnownFacts DEF Knows, GoodRecord
  <2> QED BY <1>3, <2>4, <2>5 DEF p
<1>4. CASE ~(r # NoRecord /\ isSprayComplete(r))
  BY <1>1, <1>4 DEF p
<1> QED BY <1>3, <1>4

LEMMA advanceSpraysKnows ==
  ASSUME InOrder, IInv, NEW e \in BOOLEAN, OrderInv(e), advanceSprays
  PROVE  OrderInv(e)'
<1> DEFINE a == "cycle"
<1>1. a \in Activities /\ Quiet(e) /\ store \in SprayData
  BY BeginsQuiet DEF advanceSprays, Activities, IInv, TypeOK
<1>2. /\ UNCHANGED <<clock, store, brokerVars, cur, rec, now, goal, out>>
      /\ todo' = [todo EXCEPT ![a] = pruneCompletedSprays(store)]
      /\ pc' = [pc EXCEPT ![a] = "next"]
  BY DEF advanceSprays
<1>3. Alone(a) /\ pc'[a] = "next" /\ todo'[a] = pruneCompletedSprays(store)
      /\ now'[a] <= clock
  BY <1>1, <1>2 DEF Alone, IInv, TypeOK, OrderInv
<1>4. Between(e, a)'
  BY <1>1, <1>2, <1>3, KnownSame, PruneKnows DEF Between, TodoKnown, Quiet, Resting
<1> QED BY <1>1, <1>2, <1>3, <1>4, TurnStep DEF Quiet

LEMMA NextSprayKnows ==
  ASSUME IInv, NEW e \in BOOLEAN, OrderInv(e), NEW s \in Sprays, NextSpray(s)
  PROVE  OrderInv(e)'
<1> DEFINE a == "cycle"
<1>1. /\ a \in Activities /\ Between(e, a)
      /\ \A b \in Activities \ {a} : Resting(b)
  BY DEF NextSpray, Activities, OrderInv, Quiet, Turn, Resting, Between, Advances,
         Writes, Advancing
<1>2. /\ UNCHANGED <<clock, store, brokerVars, goal, out>> /\ todo[a][s] # NoRecord
      /\ todo' = [todo EXCEPT ![a][s] = NoRecord]
      /\ cur' = [cur EXCEPT ![a] = s] /\ now' = [now EXCEPT ![a] = clock]
      /\ GoOn(a, todo[a][s], "reconcile")
  BY DEF NextSpray
<1>3. /\ Alone(a) /\ pc'[a] = "reconcile" /\ rec'[a] = todo[a][s] /\ cur'[a] = s
      /\ now'[a] <= clock
      /\ \A z \in Sprays : todo'[a][z] = IF z = s THEN NoRecord ELSE todo[a][z]
  BY <1>1, <1>2 DEF Alone, IInv, TypeOK, GoOn, SprayData
<1>4. Advances(e, a)'
  BY <1>1, <1>2, <1>3, KnownSame DEF Between, Advances, Advancing, TodoKnown
<1> QED BY <1>1, <1>2, <1>3, <1>4, TurnStep

LEMMA CycleEndsKnows ==
  ASSUME IInv, NEW e \in BOOLEAN, OrderInv(e), CycleEnds
  PROVE  OrderInv(e)'
<1> DEFINE a == "cycle"
<1>1. /\ a \in Activities /\ Between(e, a)
      /\ \A b \in Activities \ {a} : Resting(b)
  BY DEF CycleEnds, Activities, OrderInv, Quiet, Turn, Resting, Between, Advances,
         Writes, Advancing
<1>2. /\ UNCHANGED <<clock, store, brokerVars, now, goal, todo>>
      /\ todo[a] = EmptyData /\ pc' = [pc EXCEPT ![a] = "idle"]
  BY DEF CycleEnds
<1>3. Alone(a) /\ pc'[a] = "idle" /\ now'[a] <= clock
  BY <1>1, <1>2 DEF Alone, IInv, TypeOK, OrderInv
<1>4. Resting(a)' /\ \A s \in Sprays : store'[s] \in Known(e)[s]
  BY <1>1, <1>2, <1>3 DEF Between, Resting
<1> QED BY <1>1, <1>2, <1>3, <1>4, TurnStep

LEMMA startSprayBuyKnows ==
  ASSUME InOrder, IInv, IInv', NEW e \in BOOLEAN, OrderInv(e), NEW c \in Contracts,
         startSprayBuy(c)
  PROVE  OrderInv(e)'
<1> DEFINE a == "start"
           s == <<c, clock>>
<1>1. /\ a \in Activities /\ Quiet(e) /\ store \in SprayData
      /\ s \in Sprays /\ startedAt(s) = clock /\ ContractOf(s) = c /\ clock \in Int
  BY BeginsQuiet DEF startSprayBuy, Activities, IInv, TypeOK, Sprays, startedAt, ContractOf
<1>2. /\ UNCHANGED <<clock, store, brokerVars, todo>> /\ bought[s] = 0
      /\ cur' = [cur EXCEPT ![a] = s] /\ now' = [now EXCEPT ![a] = clock]
      /\ \/ /\ store[s] # NoRecord /\ GoOn(a, store[s], "reconcile")
            /\ UNCHANGED <<goal, out>>
         \/ /\ store[s] = NoRecord /\ GoOn(a, NewRecord, "truncate")
            /\ goal' = [goal EXCEPT ![a] = "register"]
            /\ out' = [out EXCEPT ![a] = [store EXCEPT ![s] = NewRecord]]
  BY <1>1 DEF startSprayBuy
<1> HIDE DEF s
<1>3. /\ Alone(a) /\ cur'[a] = s /\ now'[a] <= clock
  BY <1>1, <1>2 DEF Alone, IInv, TypeOK, GoOn
<1>4. /\ \A b \in Activities : Resting(b) /\ todo'[b] = EmptyData
      /\ \A z \in Sprays : store[z] \in Known(e)[z]
  BY <1>1, <1>2 DEF Quiet, Resting
<1>5. CASE store[s] # NoRecord
  <2>1. pc'[a] = "reconcile" /\ rec'[a] = store[s] /\ goal'[a] = goal[a]
    BY <1>1, <1>2, <1>5 DEF GoOn, IInv, TypeOK
  <2>2. Advances(e, a)'
    BY <1>1, <1>2, <1>3, <1>4, <1>5, <2>1, KnownSame, EmptyFacts
       DEF Advances, Advancing, TodoKnown, Resting
  <2> QED BY <1>1, <1>2, <1>3, <1>4, <2>2, TurnStep
<1>6. CASE store[s] = NoRecord
  <2>1. /\ pc'[a] = "truncate" /\ rec'[a] = NewRecord /\ goal'[a] = "register"
        /\ \A z \in Sprays : out'[a][z] = IF z = s THEN NewRecord ELSE store[z]
    BY <1>1, <1>2, <1>6 DEF GoOn, IInv, TypeOK, SprayData
  <2>2. LiveOf(s) = {}
    BY <1>1, <1>2, <1>4, <1>6, KnownFacts DEF Knows, Startable
  <2>3. NewRecord \in Known(e)[s]
    <3>1. Knows(e, s, NewRecord)
      BY <1>2, <2>2, NewFacts DEF Knows, Exact, NewRecord
    <3>2. GoodRecord(s, NewRecord)
      BY <1>1, <1>2, NewFacts DEF GoodRecord, GoodSlot
    <3> QED BY <1>1, <3>1, <3>2, KnownFacts, NewFacts
  <2>4. Writes(e, a)'
    BY <1>1, <1>2, <1>3, <1>4, <2>1, <2>3, KnownSame, EmptyFacts DEF Writes, TodoKnown
  <2> QED BY <1>1, <1>2, <1>3, <1>4, <2>4, TurnStep
<1> QED BY <1>5, <1>6

\* The activity that works is the only one.
LEMMA WorksAlone ==
  ASSUME NEW e \in BOOLEAN, OrderInv(e), NEW a \in Activities, pc[a] \notin {"idle", "next"}
  PROVE  /\ \A b \in Activities \ {a} : Resting(b)
         /\ pc[a] \in Advancing \cup {"save"} => Advances(e, a)
         /\ pc[a] \in {"truncate", "write"} => Writes(e, a)
BY DEF OrderInv, Quiet, Turn, Resting, Between, Advances, Writes, Advancing

\* It goes on with what it knows.
LEMMA GoesOnKnows ==
  ASSUME IInv, NEW e \in BOOLEAN, OrderInv(e), NEW a \in Activities, pc[a] \in Advancing,
         NEW r \in SprayRampRecord, r \in Known(e)[cur[a]],
         NEW p \in Advancing \cup {"save"}, GoOn(a, r, p),
         p \in {"reconcile", "quote"} => pc[a] \in {"reconcile", "quote"},
         p = "place" => r.workingOrder.id = 0, p # "recheck",
         goal'[a] = "abort" => startedAt(cur[a]) < clock,
         goal'[a] # "register", \A b \in Activities \ {a} : goal'[b] = goal[b],
         UNCHANGED <<clock, store, brokerVars, cur, now, todo>>
  PROVE  OrderInv(e)'
<1>1. Advances(e, a) /\ \A b \in Activities \ {a} : Resting(b)
  BY WorksAlone DEF Advancing
<1>2. Alone(a) /\ pc'[a] = p /\ rec'[a] = r /\ now'[a] <= clock
  BY DEF Alone, GoOn, IInv, TypeOK, OrderInv
<1>3. Advances(e, a)'
  BY <1>1, <1>2, KnownSame DEF Advances, TodoKnown
<1> QED BY <1>1, <1>2, <1>3, TurnStep

\* A reconciled record knows as much, and counts the fills of a slot it frees.
LEMMA ReconcileKnows ==
  ASSUME IInv, NEW e \in BOOLEAN, NEW a \in Activities, cur[a] \in Sprays,
         rec[a] \in Known(e)[cur[a]], NEW r \in reconcileWorkingOrder(rec[a])
  PROVE  r \in SprayRampRecord /\ r \in Known(e)[cur[a]] /\ r # NoRecord
<1> DEFINE s == cur[a]
           w == rec[a].workingOrder
<1>1. /\ r \in SprayRampRecord /\ GoodRecord(s, r)
      /\ rec[a] \in SprayRampRecord /\ rec[a] # NoRecord /\ r # NoRecord
      /\ GoodRecord(s, rec[a]) /\ Knows(e, s, rec[a]) /\ bought[s] \in Nat
  BY ReconcileFacts, KnownFacts, RecordFacts DEF IInv, TypeOK
<1>2. CASE r = rec[a]
  BY <1>1, <1>2
<1>3. CASE r # rec[a]
  <2>1. w.id # 0 /\ r = Reconciled(rec[a])
    BY <1>3 DEF reconcileWorkingOrder
  <2>2. /\ r.workingOrder = IF InBook(w.id) THEN w ELSE NoOrder
        /\ r.observedFilled = Larger(rec[a].observedFilled, w.filledBefore + orders[w.id].filled)
        /\ r.aborted = rec[a].aborted
        /\ r.quoteUnavailableSince = rec[a].quoteUnavailableSince
    BY <1>1, <2>1 DEF Reconciled, SprayRampRecord
  <2>3. CASE InBook(w.id)
    <3>1. Exact(s, rec[a]) => Exact(s, r)
      BY <2>1, <2>2, <2>3 DEF Exact
    <3>2. Knows(e, s, r)
      BY <1>1, <2>2, <2>3, <3>1 DEF Knows
    <3> QED BY <1>1, <3>2, KnownFacts
  <2>4. CASE ~InBook(w.id)
    <3>1. LiveOf(s) = {}
      BY <1>1, <2>4 DEF Knows, LiveOf
    <3>2. Exact(s, rec[a]) => Exact(s, r)
      <4>1. rec[a].observedFilled \in Nat /\ rec[a].observedFilled <= bought[s]
        BY <1>1, RecordFacts DEF GoodRecord
      <4>2. r.workingOrder.id = 0
        BY <2>2, <2>4 DEF NoOrder
      <4> QED BY <1>1, <2>1, <2>2, <4>1, <4>2 DEF Exact, Larger
    <3>3. Knows(e, s, r)
      BY <1>1, <2>2, <3>1, <3>2 DEF Knows
    <3> QED BY <1>1, <3>3, KnownFacts
  <2> QED BY <2>3, <2>4
<1> QED BY <1>2, <1>3

\* What is not the working order or the fills may change.
LEMMA MarksKnown ==
  ASSUME IInv, NEW e \in BOOLEAN, NEW s \in Sprays, NEW r \in SprayRampRecord,
         r \in Known(e)[s], NEW x \in SprayRampRecord,
         x.observedFilled = r.observedFilled, x.workingOrder = r.workingOrder,
         x.aborted => startedAt(s) < clock,
         x.quoteUnavailableSince # -1 => startedAt(s) <= x.quoteUnavailableSince
  PROVE  x \in Known(e)[s]
<1>1. r # NoRecord /\ x # NoRecord /\ GoodRecord(s, r) /\ Knows(e, s, r)
  BY KnownFacts, RecordFacts
<1>2. GoodRecord(s, x) /\ Knows(e, s, x)
  BY <1>1 DEF GoodRecord, Knows, Exact
<1> QED BY <1>2, KnownFacts

LEMMA AbortKnown ==
  ASSUME IInv, NEW e \in BOOLEAN, NEW s \in Sprays, NEW r \in SprayRampRecord,
         r \in Known(e)[s], startedAt(s) < clock
  PROVE  LET x == [r EXCEPT !.aborted = TRUE]
         IN  x \in SprayRampRecord /\ x \in Known(e)[s]
<1> DEFINE x == [r EXCEPT !.aborted = TRUE]
<1>1. /\ x \in SprayRampRecord /\ x.observedFilled = r.observedFilled
      /\ x.workingOrder = r.workingOrder
      /\ x.quoteUnavailableSince = r.quoteUnavailableSince
  BY DEF SprayRampRecord
<1>2. r.quoteUnavailableSince # -1 => startedAt(s) <= r.quoteUnavailableSince
  BY KnownFacts, RecordFacts DEF Knows
<1> HIDE DEF x
<1>3. x \in Known(e)[s]
  BY <1>1, <1>2, MarksKnown
<1> QED BY <1>1, <1>3 DEF x

\* Past its deadline a spray is not begun again.
LEMMA PastDeadline ==
  ASSUME IInv, NEW e \in BOOLEAN, OrderInv(e), NEW a \in Activities, cur[a] \in Sprays,
         now[a] >= deadline(cur[a])
  PROVE  startedAt(cur[a]) < clock
<1>1. startedAt(cur[a]) \in Int /\ clock \in Int /\ now[a] \in Int /\ now[a] <= clock
  BY SprayFacts DEF IInv, TypeOK, OrderInv
<1> QED BY <1>1, RampAssumption DEF deadline, RampAssumption

LEMMA ReconcileOrderKnows ==
  ASSUME IInv, NEW e \in BOOLEAN, OrderInv(e), NEW a \in Activities, ReconcileOrder(a)
  PROVE  OrderInv(e)'
<1>1. /\ pc[a] = "reconcile" /\ cur[a] \in Sprays
      /\ UNCHANGED <<clock, store, brokerVars, cur, now, todo, out>>
  BY DEF IInv, TypeOK, ReconcileOrder
<1>2. Advances(e, a)
  BY <1>1, WorksAlone DEF Advancing
<1>3. PICK r \in reconcileWorkingOrder(rec[a]) :
        IF now[a] >= deadline(cur[a])
        THEN /\ goal' = [goal EXCEPT ![a] = "abort"]
             /\ IF r.workingOrder.id = 0
                THEN GoOn(a, [r EXCEPT !.aborted = TRUE], "save")
                ELSE GoOn(a, r, "retire")
        ELSE /\ goal' = goal
             /\ IF Shortfall(a, r) > 0 THEN GoOn(a, r, "quote")
                                       ELSE GoOn(a, r, "save")
  BY DEF ReconcileOrder
<1>4. r \in SprayRampRecord /\ r \in Known(e)[cur[a]]
  BY <1>1, <1>2, ReconcileKnows DEF Advances
<1>5. CASE now[a] >= deadline(cur[a])
  <2> DEFINE x == [r EXCEPT !.aborted = TRUE]
  <2>1. startedAt(cur[a]) < clock
    BY <1>1, <1>5, PastDeadline
  <2>2. x \in SprayRampRecord /\ x \in Known(e)[cur[a]]
    BY <1>1, <1>4, <2>1, AbortKnown
  <2>3. goal'[a] = "abort" /\ \A b \in Activities \ {a} : goal'[b] = goal[b]
    BY <1>3, <1>5 DEF IInv, TypeOK
  <2>4. GoOn(a, x, "save") \/ GoOn(a, r, "retire")
    BY <1>3, <1>5
  <2> HIDE DEF x
  <2> QED BY <1>1, <1>4, <2>1, <2>2, <2>3, <2>4, GoesOnKnows DEF Advancing
<1>6. CASE ~(now[a] >= deadline(cur[a]))
  <2>1. goal' = goal /\ (GoOn(a, r, "quote") \/ GoOn(a, r, "save"))
    BY <1>3, <1>6
  <2> QED BY <1>1, <1>2, <1>4, <2>1, GoesOnKnows DEF Advancing, Advances
<1> QED BY <1>5, <1>6

LEMMA UsableQuoteKnows ==
  ASSUME IInv, NEW e \in BOOLEAN, OrderInv(e), NEW a \in Activities, UsableQuote(a)
  PROVE  OrderInv(e)'
<1> DEFINE r == [rec[a] EXCEPT !.quoteUnavailableSince = -1]
<1>1. /\ pc[a] = "quote" /\ cur[a] \in Sprays /\ rec[a] \in SprayRampRecord
      /\ UNCHANGED <<clock, store, brokerVars, cur, now, todo, out>>
      /\ \/ GoOn(a, r, "place") /\ r.workingOrder.id = 0 /\ goal' = goal
         \/ GoOn(a, r, "save") /\ goal' = goal
         \/ GoOn(a, r, "retire") /\ goal' = [goal EXCEPT ![a] = "replace"]
  BY DEF IInv, TypeOK, UsableQuote
<1>2. Advances(e, a)
  BY <1>1, WorksAlone DEF Advancing
<1>3. /\ r \in SprayRampRecord /\ r.observedFilled = rec[a].observedFilled
      /\ r.workingOrder = rec[a].workingOrder /\ r.aborted = rec[a].aborted
      /\ r.quoteUnavailableSince = -1
  BY <1>1 DEF SprayRampRecord
<1>4. Knows(e, cur[a], rec[a]) /\ rec[a] # NoRecord
  BY <1>1, <1>2, KnownFacts, RecordFacts DEF Advances
<1>5. r \in Known(e)[cur[a]]
  BY <1>1, <1>2, <1>3, <1>4, MarksKnown DEF Advances, Knows
<1> HIDE DEF r
<1>6. goal'[a] \in {goal[a], "replace"} /\ \A b \in Activities \ {a} : goal'[b] = goal[b]
  BY <1>1 DEF IInv, TypeOK
<1>7. goal'[a] # "register" /\ (goal'[a] = "abort" => startedAt(cur[a]) < clock)
  BY <1>2, <1>6 DEF Advances
<1> QED BY <1>1, <1>3, <1>5, <1>6, <1>7, GoesOnKnows DEF Advancing

LEMMA NoQuoteKnows ==
  ASSUME InOrder, IInv, NEW e \in BOOLEAN, OrderInv(e), NEW a \in Activities, NoQuote(a)
  PROVE  OrderInv(e)'
<1> DEFINE since == IF rec[a].quoteUnavailableSince = -1 THEN now[a]
                    ELSE rec[a].quoteUnavailableSince
           long == now[a] - since >= AbortAfter
           r == [rec[a] EXCEPT !.quoteUnavailableSince = since, !.aborted = long]
<1>1. /\ pc[a] = "quote" /\ cur[a] \in Sprays /\ rec[a] \in SprayRampRecord
      /\ UNCHANGED <<clock, store, brokerVars, cur, now, todo, goal, out>>
      /\ GoOn(a, r, "save")
  BY DEF IInv, TypeOK, NoQuote
<1>2. Advances(e, a)
  BY <1>1, WorksAlone DEF Advancing
<1>3. Knows(e, cur[a], rec[a]) /\ rec[a] # NoRecord
  BY <1>1, <1>2, KnownFacts, RecordFacts DEF Advances
<1>4. /\ now[a] \in Nat /\ now[a] <= clock /\ clock \in Nat /\ AbortAfter \in Nat
      /\ startedAt(cur[a]) \in Nat /\ startedAt(cur[a]) <= now[a] /\ AbortAfter > 0
      /\ rec[a].quoteUnavailableSince \in Nat \cup {-1}
  <2>1. startedAt(cur[a]) <= now[a] /\ now[a] <= clock
    BY <1>1 DEF IInv, LocalOK, OrderInv, Advancing
  <2> QED BY <1>1, <2>1, SprayFacts, RampAssumption
          DEF IInv, TypeOK, SprayRampRecord, RampAssumption, InOrder
<1>5. since \in Nat /\ startedAt(cur[a]) <= since /\ long \in BOOLEAN
      /\ (long => startedAt(cur[a]) < clock)
  BY <1>3, <1>4 DEF Knows
<1> HIDE DEF since, long
<1>6. /\ r \in SprayRampRecord /\ r.observedFilled = rec[a].observedFilled
      /\ r.workingOrder = rec[a].workingOrder /\ r.aborted = long
      /\ r.quoteUnavailableSince = since
  BY <1>1, <1>5 DEF SprayRampRecord
<1>7. r \in Known(e)[cur[a]]
  BY <1>1, <1>2, <1>5, <1>6, MarksKnown DEF Advances
<1> HIDE DEF r
<1> QED BY <1>1, <1>2, <1>6, <1>7, GoesOnKnows DEF Advancing, Advances

\* An order is retired for good, or for its successor.
LEMMA RetiredKnows ==
  ASSUME IInv, NEW e \in BOOLEAN, OrderInv(e), NEW a \in Activities,
         pc[a] \in {"retire", "recheck"}, cur[a] \in Sprays,
         NEW r \in SprayRampRecord, r \in Known(e)[cur[a]], r.workingOrder.id = 0,
         Retired(a, r), UNCHANGED <<clock, store, brokerVars, cur, now, todo, goal, out>>
  PROVE  OrderInv(e)'
<1> DEFINE x == [r EXCEPT !.aborted = TRUE]
<1>1. Advances(e, a)
  BY WorksAlone DEF Advancing
<1>2. goal'[a] # "register" /\ (goal'[a] = "abort" => startedAt(cur[a]) < clock)
  BY <1>1 DEF Advances
<1>3. CASE goal[a] = "abort"
  <2>1. x \in SprayRampRecord /\ x \in Known(e)[cur[a]] /\ GoOn(a, x, "save")
    BY <1>1, <1>3, AbortKnown DEF Advances, Retired
  <2> HIDE DEF x
  <2> QED BY <1>2, <2>1, GoesOnKnows DEF Advancing
<1>4. CASE goal[a] # "abort"
  <2>1. GoOn(a, r, "place") \/ GoOn(a, r, "save")
    BY <1>4 DEF Retired
  <2> QED BY <1>2, <2>1, GoesOnKnows DEF Advancing
<1> QED BY <1>3, <1>4

LEMMA RetireOrderKnows ==
  ASSUME IInv, NEW e \in BOOLEAN, OrderInv(e), NEW a \in Activities, RetireOrder(a)
  PROVE  OrderInv(e)'
<1>1. /\ pc[a] = "retire" /\ cur[a] \in Sprays
      /\ UNCHANGED <<clock, store, brokerVars, cur, now, todo, goal, out>>
  BY DEF IInv, TypeOK, RetireOrder
<1>2. Advances(e, a)
  BY <1>1, WorksAlone DEF Advancing
<1>3. PICK r \in reconcileWorkingOrder(rec[a]) :
        IF r.workingOrder.id = 0 THEN Retired(a, r) ELSE GoOn(a, r, "cancel")
  BY DEF RetireOrder
<1>4. r \in SprayRampRecord /\ r \in Known(e)[cur[a]]
  BY <1>1, <1>2, ReconcileKnows DEF Advances
<1>5. CASE r.workingOrder.id = 0
  BY <1>1, <1>3, <1>4, <1>5, RetiredKnows
<1>6. CASE r.workingOrder.id # 0
  BY <1>1, <1>2, <1>3, <1>4, <1>6, GoesOnKnows DEF Advancing, Advances
<1> QED BY <1>5, <1>6

\* The order named is the only one of its spray: once it is cancelled there is none.
LEMMA CancelAcceptedKnows ==
  ASSUME InOrder, IInv, IInv', NEW e \in BOOLEAN, OrderInv(e), NEW a \in Activities,
         CancelAccepted(a)
  PROVE  OrderInv(e)'
<1> DEFINE o == rec[a].workingOrder.id
           s == cur[a]
<1>1. /\ pc[a] = "cancel" /\ s \in Sprays /\ InBook(o)
      /\ orders' = [orders EXCEPT ![o].status = "dead"]
      /\ pc' = [pc EXCEPT ![a] = "recheck"]
      /\ UNCHANGED <<clock, store, placed, bought, cur, rec, now, todo, goal, out>>
  BY DEF IInv, TypeOK, CancelAccepted, InOrder
<1>2. Advances(e, a) /\ \A b \in Activities \ {a} : Resting(b)
  BY <1>1, WorksAlone DEF Advancing
<1>3. /\ rec[a] \in SprayRampRecord /\ rec[a] # NoRecord
      /\ GoodRecord(s, rec[a]) /\ Knows(e, s, rec[a])
  BY <1>1, <1>2, KnownFacts, RecordFacts DEF IInv, TypeOK, Advances
<1>4. o \in 1 .. placed
  <2>1. o # 0
    BY <1>1 DEF IInv, LocalOK
  <2> QED BY <1>3, <2>1 DEF GoodRecord, GoodSlot
<1>5. TypeOK' /\ SingleLiveOrder
  BY DEF IInv, OrderInv
<1> HIDE DEF o
<1>6. /\ SingleLiveOrder' /\ \A z \in Sprays : LiveOf(z)' = LiveOf(z) \ {o}
      /\ \A z \in Sprays : \A r \in Known(e)[z] : r \in Known(e)'[z]
  BY <1>1, <1>4, <1>5, DeadKnows
<1>7. LiveOf(s)' = {}
  BY <1>1, <1>3, <1>6 DEF Knows, o
<1>8. (LiveOf(cur[a]) = {})'
  <2>1. cur'[a] = cur[a]
    BY <1>1
  <2> QED BY <1>7, <2>1 DEF LiveOf
<1>9. pc'[a] = "recheck" /\ \A b \in Activities \ {a} : pc'[b] = pc[b]
  BY <1>1 DEF IInv, TypeOK
<1> HIDE DEF s
<1>10. cur[a] \in Sprays
  BY <1>1 DEF s
<1>11. Advances(e, a)'
  BY <1>1, <1>2, <1>6, <1>8, <1>9, <1>10 DEF Advances, Advancing, TodoKnown
<1>12. \A b \in Activities \ {a} : Resting(b)'
  BY <1>1, <1>2, <1>9 DEF Resting
<1>13. \A b \in Activities : now'[b] <= clock'
  BY <1>1 DEF OrderInv
<1> QED BY <1>6, <1>11, <1>12, <1>13 DEF OrderInv, Turn

LEMMA CancelFailedKnows ==
  ASSUME IInv, NEW e \in BOOLEAN, OrderInv(e), NEW a \in Activities, CancelFailed(a)
  PROVE  OrderInv(e)'
<1> DEFINE x == [rec[a] EXCEPT !.aborted = (goal[a] = "abort")]
<1>1. /\ pc[a] = "cancel" /\ cur[a] \in Sprays /\ rec[a] \in SprayRampRecord
      /\ GoOn(a, x, "save")
      /\ UNCHANGED <<clock, store, brokerVars, cur, now, todo, goal, out>>
  BY DEF IInv, TypeOK, CancelFailed
<1>2. Advances(e, a)
  BY <1>1, WorksAlone DEF Advancing
<1>3. /\ x \in SprayRampRecord /\ x.observedFilled = rec[a].observedFilled
      /\ x.workingOrder = rec[a].workingOrder /\ x.aborted = (goal[a] = "abort")
      /\ x.quoteUnavailableSince = rec[a].quoteUnavailableSince
  BY <1>1 DEF SprayRampRecord
<1>4. Knows(e, cur[a], rec[a]) /\ rec[a] # NoRecord
  BY <1>1, <1>2, KnownFacts, RecordFacts DEF Advances
<1> HIDE DEF x
<1>5. x \in Known(e)[cur[a]]
  BY <1>1, <1>2, <1>3, <1>4, MarksKnown DEF Advances, Knows
<1> QED BY <1>1, <1>2, <1>3, <1>5, GoesOnKnows DEF Advancing, Advances

LEMMA RecheckOrderKnows ==
  ASSUME IInv, NEW e \in BOOLEAN, OrderInv(e), NEW a \in Activities, RecheckOrder(a),
         e => Answered
  PROVE  OrderInv(e)'
<1> DEFINE s == cur[a]
<1>1. /\ pc[a] = "recheck" /\ s \in Sprays
      /\ UNCHANGED <<clock, store, brokerVars, cur, now, todo, goal, out>>
  BY DEF IInv, TypeOK, RecheckOrder
<1>2. Advances(e, a)
  BY <1>1, WorksAlone DEF Advancing
<1>3. PICK r \in reconcileWorkingOrder(rec[a]) :
        Retired(a, [r EXCEPT !.workingOrder = NoOrder])
  BY DEF RecheckOrder
<1>4. r \in SprayRampRecord /\ r \in Known(e)[s] /\ r # NoRecord
  BY <1>1, <1>2, <1>3, ReconcileKnows DEF Advances
<1> DEFINE x == [r EXCEPT !.workingOrder = NoOrder]
<1>5. /\ x \in SprayRampRecord /\ x # NoRecord
      /\ x.observedFilled = r.observedFilled /\ x.workingOrder = NoOrder
      /\ x.aborted = r.aborted /\ x.quoteUnavailableSince = r.quoteUnavailableSince
  BY <1>4, RecordFacts DEF SprayRampRecord
<1>6. NoOrder.id = 0 /\ LiveOf(s) = {}
  BY <1>1, <1>2 DEF NoOrder, Advances
<1>7. ASSUME e
      PROVE  x.observedFilled = bought[s]
  <2> DEFINE w == rec[a].workingOrder
  <2>1. /\ rec[a] \in SprayRampRecord /\ rec[a] # NoRecord /\ w.id # 0
        /\ GoodRecord(s, rec[a]) /\ Knows(e, s, rec[a]) /\ bought[s] \in Nat
        /\ rec[a].observedFilled \in Nat /\ rec[a].observedFilled <= bought[s]
    <3>1. rec[a] \in SprayRampRecord /\ rec[a] # NoRecord /\ GoodRecord(s, rec[a])
          /\ Knows(e, s, rec[a]) /\ bought[s] \in Nat
      BY <1>1, <1>2, KnownFacts, RecordFacts DEF IInv, TypeOK, Advances
    <3>2. w.id # 0
      BY <1>1 DEF IInv, LocalOK
    <3> QED BY <3>1, <3>2, RecordFacts DEF GoodRecord
  <2>2. w.filledBefore + orders[w.id].filled = bought[s]
    BY <1>7, <2>1 DEF Knows, Exact
  <2>3. Reconciled(rec[a]).observedFilled = bought[s]
    BY <2>1, <2>2 DEF Reconciled, Larger, SprayRampRecord
  <2>4. rec'[a] \in {x, [x EXCEPT !.aborted = TRUE]} /\ pc'[a] # "recheck"
    BY <1>3 DEF Retired, GoOn, IInv, TypeOK
  <2>5. rec'[a].observedFilled = x.observedFilled
    BY <1>5, <2>4 DEF SprayRampRecord
  <2>6. Answered
    BY <1>7
  <2>7. rec'[a].observedFilled = Reconciled(rec[a]).observedFilled
    BY <1>1, <2>4, <2>6 DEF Answered
  <2> QED BY <2>3, <2>5, <2>7
<1>8. x \in Known(e)[s]
  <2>1. GoodRecord(s, r) /\ Knows(e, s, r)
    BY <1>1, <1>4, KnownFacts
  <2>2. GoodRecord(s, x)
    BY <1>4, <1>5, <1>6, <2>1 DEF GoodRecord, GoodSlot
  <2>3. Knows(e, s, x)
    BY <1>4, <1>5, <1>6, <1>7, <2>1 DEF Knows, Exact
  <2> QED BY <1>1, <1>5, <2>2, <2>3, KnownFacts
<1> HIDE DEF x
<1>9. Retired(a, x)
  BY <1>3 DEF x
<1> QED BY <1>1, <1>5, <1>6, <1>8, <1>9, RetiredKnows

\* The record that names the new order knows.
LEMMA PlacedKnown ==
  ASSUME IInv, NEW e \in BOOLEAN, NEW s \in Sprays, NEW r \in SprayRampRecord,
         r \in Known(e)[s], r.workingOrder.id = 0,
         NEW x \in SprayRampRecord, GoodRecord(s, x)', NEW w, x.workingOrder = w,
         x.observedFilled = r.observedFilled, x.aborted = r.aborted,
         x.quoteUnavailableSince = r.quoteUnavailableSince,
         w.id = placed + 1, w.filledBefore = r.observedFilled,
         clock' = clock, bought' = bought, LiveOf(s)' \subseteq {placed + 1},
         orders'[placed + 1].prior = bought[s], orders'[placed + 1].filled = 0
  PROVE  x \in Known(e)'[s]
<1>1. Knows(e, s, r) /\ r # NoRecord /\ x # NoRecord
  BY KnownFacts, RecordFacts
<1>2. placed + 1 # 0 /\ bought[s] \in Nat
  BY DEF IInv, TypeOK
<1>3. Exact(s, r) => Exact(s, x)'
  BY <1>2 DEF Exact
<1>4. Knows(e, s, x)'
  BY <1>1, <1>3 DEF Knows
<1> QED BY <1>4 DEF Known

\* There is no other order of the spray, and the new one is named.
LEMMA PlaceAcceptedKnows ==
  ASSUME InOrder, IInv, IInv', NEW e \in BOOLEAN, OrderInv(e), NEW a \in Activities,
         PlaceAccepted(a)
  PROVE  OrderInv(e)'
<1> DEFINE q == Shortfall(a, rec[a])
           w == [id |-> placed + 1, quantity |-> q, filledBefore |-> rec[a].observedFilled]
<1>0. /\ pc[a] = "place" /\ a \in Activities
      /\ pc \in [Activities -> PCs] /\ rec \in [Activities -> SprayRampRecord]
      /\ rec[a] \in SprayRampRecord /\ cur[a] \in Sprays /\ placed \in Nat
      /\ bought[cur[a]] \in Nat
  <2>1. pc[a] = "place" /\ TypeOK
    BY DEF PlaceAccepted, IInv
  <2>2. placed \in Nat
    BY <2>1 DEF TypeOK
  <2> QED BY <2>1, <2>2 DEF TypeOK
<1>1. PICK s \in Sprays : s = cur[a]
  BY <1>0
<1>2. /\ placed' = placed + 1
      /\ orders' = [o \in 1 .. placed + 1 |->
           IF o = placed + 1 THEN [spray |-> s, quantity |-> q, filled |-> 0,
                                   prior |-> bought[s], status |-> "live"]
           ELSE orders[o]]
      /\ GoOn(a, [rec[a] EXCEPT !.workingOrder = w], "save")
      /\ UNCHANGED <<clock, store, bought, cur, now, todo, goal, out>>
  BY <1>1 DEF PlaceAccepted, InOrder
<1> HIDE DEF q, w
<1>3. Advances(e, a) /\ \A b \in Activities \ {a} : Resting(b)
  BY <1>0, WorksAlone DEF Advancing
<1>4. /\ rec[a] # NoRecord /\ rec[a].workingOrder.id = 0
      /\ rec[a] \in Known(e)[s] /\ GoodRecord(s, rec[a]) /\ Knows(e, s, rec[a])
  BY <1>0, <1>1, <1>3, KnownFacts, RecordFacts DEF Advances
<1>5. \A o \in 1 .. placed : ~(InBook(o) /\ orders[o].spray = s)
  BY <1>0, <1>4 DEF Knows, LiveOf
<1>6. /\ \A o \in 1 .. placed : orders'[o] = orders[o] /\ o # placed + 1 /\ o \in 1 .. placed'
      /\ \A o \in 1 .. placed' : o # placed + 1 => o \in 1 .. placed
      /\ placed + 1 \in 1 .. placed' /\ orders'[placed + 1].spray = s
      /\ orders'[placed + 1].filled = 0 /\ orders'[placed + 1].prior = bought[s]
  BY <1>0, <1>2
<1>7. \A z \in Sprays : z # s => LiveOf(z)' \subseteq LiveOf(z)
  BY <1>6 DEF LiveOf, InBook
<1>8. LiveOf(s)' \subseteq {placed + 1}
  BY <1>5, <1>6 DEF LiveOf, InBook
<1>9. SingleLiveOrder'
  BY <1>5, <1>6 DEF OrderInv, SingleLiveOrder, InBook
<1>10. PICK x : x = rec'[a]
  OBVIOUS
<1>11. /\ x \in SprayRampRecord /\ x.workingOrder = w
       /\ x.observedFilled = rec[a].observedFilled /\ x.aborted = rec[a].aborted
       /\ x.quoteUnavailableSince = rec[a].quoteUnavailableSince
  <2>1. TypeOK'
    BY DEF IInv
  <2>2. x \in SprayRampRecord
    BY <1>10, <2>1 DEF TypeOK
  <2>3. x = [rec[a] EXCEPT !.workingOrder = w]
    BY <1>0, <1>2, <1>10 DEF GoOn
  <2> QED BY <1>0, <2>2, <2>3 DEF SprayRampRecord
<1>12. pc'[a] = "save" /\ \A b \in Activities \ {a} : pc'[b] = pc[b]
  BY <1>0, <1>2 DEF GoOn
<1>13. Grows
  BY <1>0, <1>2, <1>6 DEF Grows, IInv, TypeOK
<1>14. ASSUME NEW z \in Sprays, z # s, NEW r \in Known(e)[z]
       PROVE  r \in Known(e)'[z]
  <2>1. ASSUME r # NoRecord, Exact(z, r)
        PROVE  Exact(z, r)'
    <3>1. r.workingOrder.id # 0 => r.workingOrder.id \in 1 .. placed
      BY <2>1, KnownFacts DEF GoodRecord, GoodSlot
    <3> QED BY <1>2, <1>6, <2>1, <3>1 DEF Exact
  <2>2. TypeOK' /\ LiveOf(z)' \subseteq LiveOf(z)
    BY <1>7, <1>14 DEF IInv
  <2> QED BY <1>13, <2>1, <2>2, KnownStays
<1>15. x \in Known(e)'[s]
  <2>1. GoodRecord(s, x)'
    <3>1. LocalOK(a)' /\ s # NoSpray /\ cur'[a] = s
      BY <1>1, <1>2, SprayFacts DEF IInv
    <3> QED BY <1>10, <3>1 DEF LocalOK, GoodRecord, GoodSlot
  <2>2. w.id = placed + 1 /\ w.filledBefore = rec[a].observedFilled
    BY DEF w
  <2>3. PICK r : r = rec[a]
    OBVIOUS
  <2> QED BY <1>0, <1>2, <1>4, <1>6, <1>8, <1>11, <2>1, <2>2, <2>3, PlacedKnown
<1>16. Advances(e, a)'
  BY <1>0, <1>1, <1>2, <1>3, <1>10, <1>12, <1>14, <1>15 DEF Advances, TodoKnown
<1>17. \A b \in Activities \ {a} : Resting(b)'
  BY <1>2, <1>3, <1>12 DEF Resting
<1>18. \A b \in Activities : now'[b] <= clock'
  BY <1>2 DEF OrderInv
<1> QED BY <1>9, <1>16, <1>17, <1>18 DEF OrderInv, Turn

LEMMA PlaceRejectedKnows ==
  ASSUME IInv, NEW e \in BOOLEAN, OrderInv(e), NEW a \in Activities, PlaceRejected(a)
  PROVE  OrderInv(e)'
<1>1. /\ pc[a] = "place" /\ rec[a] \in SprayRampRecord /\ GoOn(a, rec[a], "save")
      /\ UNCHANGED <<clock, store, brokerVars, cur, now, todo, goal, out>>
  BY DEF IInv, TypeOK, PlaceRejected
<1>2. Advances(e, a)
  BY <1>1, WorksAlone DEF Advancing
<1> QED BY <1>1, <1>2, GoesOnKnows DEF Advancing, Advances

LEMMA ReadForSaveKnows ==
  ASSUME IInv, PrunedInv, NEW e \in BOOLEAN, OrderInv(e), NEW a \in Activities,
         ReadForSave(a)
  PROVE  OrderInv(e)'
<1> DEFINE data == [store EXCEPT ![cur[a]] = rec[a]]
<1>1. /\ pc[a] = "save" /\ TypeOK
      /\ UNCHANGED <<clock, store, brokerVars, todo>>
  BY DEF ReadForSave, IInv
<1>2. Advances(e, a) /\ \A b \in Activities \ {a} : Resting(b)
  BY <1>1, WorksAlone
<1>3. /\ cur[a] \in Sprays /\ rec[a] \in SprayRampRecord /\ store \in SprayData
  BY <1>1 DEF TypeOK
<1>4. store[cur[a]] # NoRecord
  BY <1>2 DEF Advances
<1>5. /\ out' = [out EXCEPT ![a] = pruneCompletedSprays(data)]
      /\ goal' = [goal EXCEPT ![a] = "none"] /\ pc' = [pc EXCEPT ![a] = "truncate"]
      /\ UNCHANGED <<cur, rec, now>>
  BY <1>4 DEF ReadForSave
<1>6. /\ data \in SprayData
      /\ \A s \in Sprays : data[s] = IF s = cur[a] THEN rec[a] ELSE store[s]
  BY <1>3 DEF SprayData
<1>7. \A s \in Sprays : data[s] \in Known(e)[s]
  BY <1>1, <1>2, <1>3, <1>6 DEF Advances
<1> HIDE DEF data
<1>8. /\ Alone(a) /\ pc'[a] = "truncate" /\ goal'[a] = "none" /\ now'[a] <= clock
      /\ out'[a] = pruneCompletedSprays(data)
  BY <1>1, <1>5 DEF Alone, TypeOK, OrderInv
<1>9. ASSUME NEW s \in Sprays
      PROVE  /\ out'[a][s] \in Known(e)[s]
             /\ s # cur[a] /\ store[s] # NoRecord => out'[a][s] # NoRecord
  <2>1. store[s] # NoRecord => ~isSprayComplete(store[s])
    BY DEF PrunedInv, OnlyActiveStored
  <2> QED BY <1>6, <1>7, <1>8, <2>1, PruneKnows
<1>10. Writes(e, a)'
  BY <1>1, <1>2, <1>8, <1>9, KnownSame DEF Advances, Writes, TodoKnown
<1> QED BY <1>1, <1>2, <1>8, <1>10, TurnStep

LEMMA TruncateFileKnows ==
  ASSUME IInv, NEW e \in BOOLEAN, OrderInv(e), NEW a \in Activities, TruncateFile(a)
  PROVE  OrderInv(e)'
<1>1. /\ pc[a] = "truncate" /\ TypeOK /\ pc' = [pc EXCEPT ![a] = "write"]
      /\ UNCHANGED <<clock, brokerVars, cur, rec, now, todo, goal, out>>
  BY DEF TruncateFile, IInv
<1>2. Writes(e, a) /\ \A b \in Activities \ {a} : Resting(b)
  BY <1>1, WorksAlone
<1>3. Alone(a) /\ pc'[a] = "write" /\ now'[a] <= clock
  BY <1>1 DEF Alone, TypeOK, OrderInv
<1>4. Writes(e, a)'
  BY <1>1, <1>2, <1>3, KnownSame DEF Writes, TodoKnown
<1> QED BY <1>1, <1>2, <1>3, <1>4, TurnStep

LEMMA writeStoreKnows ==
  ASSUME IInv, NEW e \in BOOLEAN, OrderInv(e), NEW a \in Activities, writeStore(a)
  PROVE  OrderInv(e)'
<1>1. /\ pc[a] = "write" /\ TypeOK /\ cur[a] \in Sprays /\ rec[a] \in SprayRampRecord
      /\ store' = out[a] /\ UNCHANGED <<clock, brokerVars, todo>>
  <2>1. TypeOK
    BY DEF IInv
  <2> QED BY <2>1 DEF writeStore, TypeOK
<1>2. Writes(e, a) /\ \A b \in Activities \ {a} : Resting(b)
  BY <1>1, WorksAlone
<1>3. CASE goal[a] = "register"
  <2>1. /\ pc' = [pc EXCEPT ![a] = "reconcile"] /\ now' = [now EXCEPT ![a] = clock]
        /\ goal' = [goal EXCEPT ![a] = "none"] /\ UNCHANGED <<cur, rec>>
    BY <1>3 DEF writeStore
  <2>2. /\ Alone(a) /\ pc'[a] = "reconcile" /\ goal'[a] = "none" /\ now'[a] <= clock
    BY <1>1, <2>1 DEF Alone, TypeOK
  <2>3. rec[a] # NoRecord
    BY <1>1, RecordFacts
  <2>4. Advances(e, a)'
    BY <1>1, <1>2, <1>3, <2>1, <2>2, <2>3, KnownSame
       DEF Writes, Advances, Advancing, TodoKnown
  <2> QED BY <1>1, <1>2, <2>2, <2>4, TurnStep
<1>4. CASE goal[a] # "register"
  <2>1. DoneWithSpray(a)
    BY <1>4 DEF writeStore
  <2>2. /\ Alone(a) /\ pc'[a] = (IF a = "cycle" THEN "next" ELSE "idle")
        /\ goal'[a] = "none" /\ now'[a] = 0
    BY <1>1, <2>1 DEF DoneWithSpray, Alone, TypeOK
  <2>3. now'[a] <= clock
    BY <1>1, <2>2 DEF TypeOK
  <2>4. CASE a = "cycle"
    <3>1. Between(e, a)'
      BY <1>1, <1>2, <2>2, <2>4, KnownSame DEF Writes, Between, TodoKnown
    <3> QED BY <1>1, <1>2, <2>2, <2>3, <3>1, TurnStep
  <2>5. CASE a # "cycle"
    <3>1. todo[a] = EmptyData
      BY <1>2, <2>5 DEF Writes
    <3>2. Resting(a)' /\ \A s \in Sprays : store'[s] \in Known(e)[s]
      BY <1>1, <1>2, <2>2, <2>5, <3>1 DEF Writes, Resting
    <3> QED BY <1>1, <1>2, <2>2, <2>3, <3>2, TurnStep
  <2> QED BY <2>4, <2>5
<1> QED BY <1>3, <1>4

LEMMA AdvanceThrowsKnows ==
  ASSUME InOrder, IInv, NEW e \in BOOLEAN, OrderInv(e), NEW a \in Activities,
         AdvanceThrows(a)
  PROVE  OrderInv(e)'
<1>1. /\ pc[a] = "quote" /\ TypeOK /\ UNCHANGED <<clock, store, brokerVars>>
      /\ pc' = [pc EXCEPT ![a] = "idle"] /\ now' = [now EXCEPT ![a] = 0]
      /\ todo' = [todo EXCEPT ![a] = EmptyData] /\ goal' = [goal EXCEPT ![a] = "none"]
  BY DEF AdvanceThrows, IInv, InOrder
<1>2. Advances(e, a) /\ \A b \in Activities \ {a} : Resting(b)
  BY <1>1, WorksAlone DEF Advancing
<1>3. /\ Alone(a) /\ Resting(a)' /\ now'[a] <= clock
  BY <1>1 DEF Alone, Resting, TypeOK
<1>4. \A s \in Sprays : store'[s] \in Known(e)[s]
  BY <1>1, <1>2 DEF Advances
<1> QED BY <1>1, <1>2, <1>3, <1>4, TurnStep

LEMMA InitKnows ==
  ASSUME Init, IInv, NEW e \in BOOLEAN
  PROVE  OrderInv(e)
<1>1. \A s \in Sprays : store[s] = NoRecord /\ LiveOf(s) = {}
  BY EmptyFacts DEF Init, LiveOf
<1>2. \A s \in Sprays : store[s] \in Known(e)[s]
  BY <1>1, KnownFacts DEF Knows, GoodRecord
<1>3. \A a \in Activities : Resting(a) /\ now[a] <= clock
  BY DEF Init, Resting
<1>4. SingleLiveOrder
  BY DEF Init, SingleLiveOrder
<1> QED BY <1>2, <1>3, <1>4 DEF OrderInv, Quiet

\* Whatever the step, the live order stays known; exactly, if it is answered.
LEMMA NextKnows ==
  ASSUME InOrder, IInv, IInv', PrunedInv, NEW e \in BOOLEAN, OrderInv(e), [Next]_vars,
         e => Answered
  PROVE  OrderInv(e)'
<1>0. TypeOK'
  BY DEF IInv
<1>1. CASE CycleSteps
  BY <1>1, advanceSpraysKnows, NextSprayKnows, CycleEndsKnows DEF CycleSteps
<1>2. CASE \E c \in Contracts : startSprayBuy(c)
  BY <1>2, startSprayBuyKnows
<1>3. CASE \E s \in Sprays : abortSprayBuy(s)
  BY <1>3 DEF abortSprayBuy, InOrder
<1>4. ASSUME NEW a \in Activities, AdvanceSteps(a)
      PROVE  OrderInv(e)'
  <2>1. CASE ReconcileOrder(a) \/ UsableQuote(a) \/ NoQuote(a)
    BY <2>1, ReconcileOrderKnows, UsableQuoteKnows, NoQuoteKnows
  <2>2. CASE RetireOrder(a) \/ CancelAccepted(a) \/ CancelFailed(a) \/ RecheckOrder(a)
    BY <2>2, RetireOrderKnows, CancelAcceptedKnows, CancelFailedKnows, RecheckOrderKnows
  <2>3. CASE PlaceAccepted(a) \/ PlaceRejected(a)
    BY <2>3, PlaceAcceptedKnows, PlaceRejectedKnows
  <2>4. CASE ReadForSave(a) \/ TruncateFile(a) \/ writeStore(a) \/ AdvanceThrows(a)
    BY <2>4, ReadForSaveKnows, TruncateFileKnows, writeStoreKnows, AdvanceThrowsKnows
  <2> QED BY <1>4, <2>1, <2>2, <2>3, <2>4 DEF AdvanceSteps
<1>5. CASE BrokerSteps
  BY <1>0, <1>5, FillOneKnows, OrderDiesKnows DEF BrokerSteps
<1>6. CASE Tick
  BY <1>0, <1>6, TickKnows
<1>7. CASE Crash
  <2>1. crashes \in 0 .. 0
    BY DEF IInv, TypeOK, InOrder
  <2> QED BY <1>7, <2>1 DEF Crash, InOrder
<1>8. CASE UNCHANGED vars
  <2>1. /\ UNCHANGED <<clock, brokerVars, store, localVars>> /\ clock \in Int
    BY <1>8 DEF vars, IInv, TypeOK
  <2>2. SingleLiveOrder'
    BY <2>1 DEF OrderInv, SingleLiveOrder, InBook, brokerVars
  <2> QED BY <2>1, <2>2, KnownSame, WorldStep
<1> QED BY <1>1, <1>2, <1>3, <1>4, <1>5, <1>6, <1>7, <1>8 DEF Next

-----------------------------------------------------------------------------
(* Purchases stay behind the ramp.                                         *)

\* Where a spray has bought or has an order, it has begun.
AheadInv ==
  /\ NeverAheadOfRamp
  /\ \A s \in Sprays : bought[s] > 0 => startedAt(s) <= clock
  /\ \A o \in 1 .. placed : startedAt(orders[o].spray) <= clock
  /\ \A o \in 1 .. placed : InBook(o) => orders[o].filled < orders[o].quantity

\* The quantities of a state are numbers.
LEMMA NumberFacts ==
  ASSUME TypeOK
  PROVE  /\ clock \in Nat /\ placed \in Nat /\ \A a \in Activities : now[a] \in Nat
         /\ \A s \in Sprays : startedAt(s) \in Nat /\ bought[s] \in Nat
         /\ \A o \in 1 .. placed :
              /\ orders[o] \in Orders /\ orders[o].spray \in Sprays
              /\ orders[o].filled \in Nat /\ orders[o].quantity \in Nat
<1>1. clock \in Nat /\ placed \in Nat /\ \A a \in Activities : now[a] \in Nat
  BY DEF TypeOK
<1>2. \A s \in Sprays : startedAt(s) \in Nat /\ bought[s] \in Nat
  BY SprayFacts DEF TypeOK
<1>3. \A o \in 1 .. placed : orders[o] \in Orders
  BY DEF TypeOK
<1>4. \A o \in Orders : o.spray \in Sprays /\ o.filled \in Nat /\ o.quantity \in Nat
  BY DEF Orders
<1> QED BY <1>1, <1>2, <1>3, <1>4

\* What is unlocked stays unlocked.
LEMMA RampGrows ==
  ASSUME NEW d \in Nat, NEW e \in Nat, d <= e
  PROVE  /\ cumulativeAllowed(d) \in Nat /\ cumulativeAllowed(e) \in Nat
         /\ cumulativeAllowed(d) <= cumulativeAllowed(e)
<1>1. cumulativeAllowed(d) \in 0 .. Total /\ cumulativeAllowed(e) \in 0 .. Total /\ Total \in Nat
  BY RampBounded, RampAssumption DEF RampAssumption
<1>2. CASE e >= Window
  BY <1>1, <1>2 DEF cumulativeAllowed
<1>3. CASE ~(e >= Window)
  BY <1>1, <1>3, RampAssumption DEF cumulativeAllowed, RampAssumption
<1> QED BY <1>1, <1>2, <1>3

\* A later time allows as much.
LEMMA AllowedLater ==
  ASSUME IInv, TypeOK', clock <= clock', NEW s \in Sprays, startedAt(s) <= clock
  PROVE  /\ cumulativeAllowed(clock - startedAt(s)) \in Nat
         /\ cumulativeAllowed(clock' - startedAt(s)) \in Nat
         /\ cumulativeAllowed(clock - startedAt(s)) <= cumulativeAllowed(clock' - startedAt(s))
<1>1. /\ startedAt(s) \in Int /\ clock \in Int /\ clock' \in Int
  BY SprayFacts DEF IInv, TypeOK
<1>2. clock - startedAt(s) \in Nat /\ clock' - startedAt(s) \in Nat
      /\ clock - startedAt(s) <= clock' - startedAt(s)
  BY <1>1
<1> QED BY <1>2, RampGrows

\* Time goes on and orders leave the book.
LEMMA AheadStays ==
  ASSUME IInv, TypeOK', AheadInv, clock <= clock', UNCHANGED <<placed, bought>>,
         \A o \in 1 .. placed :
           /\ orders'[o].spray = orders[o].spray /\ orders'[o].filled = orders[o].filled
           /\ orders'[o].quantity = orders[o].quantity /\ (InBook(o)' => InBook(o))
  PROVE  AheadInv'
<1>1. /\ clock \in Int /\ clock' \in Int
      /\ \A s \in Sprays : startedAt(s) \in Int /\ bought[s] \in Nat
      /\ \A o \in 1 .. placed : /\ orders[o].spray \in Sprays /\ orders[o].filled \in Int
                               /\ orders[o].quantity \in Int
  <2>1. TypeOK
    BY DEF IInv
  <2>2. clock' \in Int
    BY DEF TypeOK
  <2> QED BY <2>1, <2>2, NumberFacts
<1>2. \A s \in Sprays : bought[s] > 0 => startedAt(s) <= clock'
  BY <1>1 DEF AheadInv
<1>3. \A o \in 1 .. placed : startedAt(orders[o].spray) <= clock'
  BY <1>1 DEF AheadInv
<1>4. ASSUME NEW s \in Sprays, bought[s] > 0
      PROVE  bought[s] <= cumulativeAllowed(clock' - startedAt(s))
  <2>1. startedAt(s) <= clock /\ bought[s] <= cumulativeAllowed(clock - startedAt(s))
    BY <1>4 DEF AheadInv, NeverAheadOfRamp
  <2> QED BY <1>1, <2>1, AllowedLater
<1>5. ASSUME NEW s \in Sprays, NEW o \in 1 .. placed, InBook(o), orders[o].spray = s
      PROVE  bought[s] + orders[o].quantity - orders[o].filled
               <= cumulativeAllowed(clock' - startedAt(s))
  <2>1. /\ startedAt(s) <= clock
        /\ bought[s] + orders[o].quantity - orders[o].filled
             <= cumulativeAllowed(clock - startedAt(s))
    BY <1>5 DEF AheadInv, NeverAheadOfRamp
  <2> QED BY <1>1, <2>1, AllowedLater
<1>6. NeverAheadOfRamp'
  BY <1>4, <1>5 DEF NeverAheadOfRamp
<1>7. \A o \in 1 .. placed' : InBook(o)' => orders'[o].filled < orders'[o].quantity
  BY DEF AheadInv
<1>8. /\ \A s \in Sprays : bought'[s] > 0 => startedAt(s) <= clock'
      /\ \A o \in 1 .. placed' : startedAt(orders'[o].spray) <= clock'
  BY <1>2, <1>3
<1> QED BY <1>6, <1>7, <1>8 DEF AheadInv

\* A fill turns what an order may still buy into what is bought.
LEMMA AheadFills ==
  ASSUME IInv, TypeOK', AheadInv, SingleLiveOrder, NEW o \in 1 .. placed, FillOne(o)
  PROVE  AheadInv'
<1> DEFINE z == orders[o].spray
           f == orders[o].filled + 1
           st == IF f >= orders[o].quantity THEN "filled" ELSE orders[o].status
<1>1. /\ orders' = [orders EXCEPT ![o].filled = f, ![o].status = st]
      /\ bought' = [bought EXCEPT ![z] = @ + 1]
      /\ placed' = placed /\ clock' = clock /\ InBook(o)
  BY DEF FillOne
<1>2. /\ orders \in [1 .. placed -> Orders] /\ bought \in [Sprays -> Nat]
      /\ z \in Sprays /\ f = orders[o].filled + 1 /\ clock \in Int
      /\ \A s \in Sprays : startedAt(s) \in Int
  <2>1. TypeOK
    BY DEF IInv
  <2>2. orders \in [1 .. placed -> Orders] /\ bought \in [Sprays -> Nat]
    BY <2>1 DEF TypeOK
  <2> QED BY <2>1, <2>2, NumberFacts
<1>3. orders[o].filled < orders[o].quantity
  BY <1>1 DEF AheadInv
<1>4. f < orders[o].quantity \/ st = "filled"
  BY <1>2 DEF Orders
<1>5. st \in {orders[o].status, "filled"}
  OBVIOUS
<1> HIDE DEF f, st
<1>6. \A p \in 1 .. placed :
        /\ orders'[p].spray = orders[p].spray /\ orders'[p].quantity = orders[p].quantity
        /\ orders'[p].filled = IF p = o THEN f ELSE orders[p].filled
        /\ orders'[p].status = IF p = o THEN st ELSE orders[p].status
        /\ orders[p].filled \in Int /\ orders[p].quantity \in Int
        /\ orders[p].spray \in Sprays
  BY SMTT(30), <1>1, <1>2 DEF Orders
<1>7. \A p \in 1 .. placed : InBook(p)' => InBook(p)
  BY <1>1, <1>5, <1>6 DEF InBook
<1>8. \A p \in 1 .. placed : InBook(p)' => orders'[p].filled < orders'[p].quantity
  <2>1. InBook(o)' => f < orders[o].quantity
    BY <1>4, <1>6 DEF InBook
  <2> QED BY <1>6, <1>7, <2>1 DEF AheadInv
<1>9. \A s \in Sprays : bought'[s] = IF s = z THEN bought[z] + 1 ELSE bought[s]
  BY <1>1, <1>2
<1>10. startedAt(z) <= clock
  BY DEF AheadInv
<1>11. bought[z] + orders[o].quantity - orders[o].filled <= cumulativeAllowed(clock - startedAt(z))
  BY <1>1, <1>2 DEF AheadInv, NeverAheadOfRamp
<1>12. cumulativeAllowed(clock - startedAt(z)) \in Int
  <2>1. clock <= clock'
    BY <1>1, <1>2
  <2> QED BY <1>2, <1>10, <2>1, AllowedLater
<1>13. \A p \in 1 .. placed : InBook(p) /\ orders[p].spray = z => p = o
  BY <1>1 DEF SingleLiveOrder
<1> HIDE DEF z
<1>14. ASSUME NEW s \in Sprays
       PROVE  /\ bought'[s] > 0 => bought'[s] <= cumulativeAllowed(clock' - startedAt(s))
              /\ \A p \in 1 .. placed' :
                   InBook(p)' /\ orders'[p].spray = s
                     => bought'[s] + orders'[p].quantity - orders'[p].filled
                          <= cumulativeAllowed(clock' - startedAt(s))
  <2>1. CASE s = z
    <3>1. bought'[s] = bought[z] + 1 /\ bought[z] \in Int
      BY <1>2, <1>9, <2>1
    <3>2. bought'[s] <= cumulativeAllowed(clock' - startedAt(s))
      BY <1>1, <1>3, <1>6, <1>11, <1>12, <2>1, <3>1
    <3>3. ASSUME NEW p \in 1 .. placed', InBook(p)', orders'[p].spray = s
          PROVE  bought'[s] + orders'[p].quantity - orders'[p].filled
                   <= cumulativeAllowed(clock' - startedAt(s))
      <4>1. p = o
        BY <1>1, <1>6, <1>7, <1>13, <2>1, <3>3
      <4> QED BY <1>1, <1>2, <1>6, <1>11, <1>12, <2>1, <3>1, <4>1
    <3> QED BY <3>2, <3>3
  <2>2. CASE s # z
    <3>1. bought'[s] = bought[s]
      BY <1>9, <2>2
    <3>2. ASSUME NEW p \in 1 .. placed', InBook(p)', orders'[p].spray = s
          PROVE  bought'[s] + orders'[p].quantity - orders'[p].filled
                   <= cumulativeAllowed(clock' - startedAt(s))
      <4>1. p # o /\ p \in 1 .. placed /\ InBook(p) /\ orders[p].spray = s
        BY <1>1, <1>6, <1>7, <2>2, <3>2 DEF z
      <4>2. bought[s] + orders[p].quantity - orders[p].filled <= cumulativeAllowed(clock - startedAt(s))
        BY <4>1 DEF AheadInv, NeverAheadOfRamp
      <4> QED BY <1>1, <1>6, <3>1, <4>1, <4>2
    <3>3. bought'[s] > 0 => bought'[s] <= cumulativeAllowed(clock' - startedAt(s))
      BY <1>1, <3>1 DEF AheadInv, NeverAheadOfRamp
    <3> QED BY <3>2, <3>3
  <2> QED BY <2>1, <2>2
<1>15. NeverAheadOfRamp'
  BY <1>14 DEF NeverAheadOfRamp
<1>16. \A s \in Sprays : bought'[s] > 0 => startedAt(s) <= clock'
  BY <1>1, <1>9, <1>10 DEF AheadInv
<1>17. \A p \in 1 .. placed' : startedAt(orders'[p].spray) <= clock'
  BY <1>1, <1>6 DEF AheadInv
<1> QED BY <1>1, <1>8, <1>15, <1>16, <1>17 DEF AheadInv

\* An order is for what the ramp allowed and the record, which is exact, lacks.
LEMMA AheadPlaces ==
  ASSUME InOrder, IInv, TypeOK', AheadInv, OrderInv(TRUE), NEW a \in Activities,
         PlaceAccepted(a)
  PROVE  AheadInv'
<1> DEFINE q == Shortfall(a, rec[a])
<1>0. /\ pc[a] = "place" /\ cur[a] \in Sprays /\ rec[a] \in SprayRampRecord
      /\ placed \in Nat /\ bought \in [Sprays -> Nat] /\ clock \in Nat /\ now[a] \in Nat
  <2>1. pc[a] = "place" /\ TypeOK
    BY DEF PlaceAccepted, IInv
  <2>2. /\ cur[a] \in Sprays /\ rec[a] \in SprayRampRecord /\ bought \in [Sprays -> Nat]
    BY <2>1 DEF TypeOK
  <2> QED BY <2>1, <2>2, NumberFacts
<1>1. PICK s \in Sprays : s = cur[a]
  BY <1>0
<1>2. /\ placed' = placed + 1
      /\ orders' = [o \in 1 .. placed + 1 |->
           IF o = placed + 1 THEN [spray |-> s, quantity |-> q, filled |-> 0,
                                   prior |-> bought[s], status |-> "live"]
           ELSE orders[o]]
      /\ clock' = clock /\ bought' = bought
  BY <1>1 DEF PlaceAccepted
<1>3. Advances(TRUE, a)
  BY <1>0, WorksAlone DEF Advancing
<1>4. /\ rec[a] # NoRecord /\ rec[a].workingOrder.id = 0 /\ Knows(TRUE, s, rec[a])
      /\ rec[a].observedFilled \in Nat
  BY <1>0, <1>1, <1>3, KnownFacts, RecordFacts DEF Advances
<1>5. \A o \in 1 .. placed : ~(InBook(o) /\ orders[o].spray = s)
  BY <1>0, <1>4 DEF Knows, LiveOf
<1>6. rec[a].observedFilled = bought[s]
  BY <1>4 DEF Knows, Exact
<1>7. /\ startedAt(s) \in Nat /\ startedAt(s) <= now[a] /\ now[a] <= clock /\ q > 0
  <2>1. startedAt(s) \in Nat
    BY SprayFacts
  <2>2. LocalOK(a) /\ now[a] <= clock
    BY DEF IInv, OrderInv
  <2> QED BY <1>0, <1>1, <2>1, <2>2 DEF LocalOK, Advancing
<1>8. /\ q = cumulativeAllowed(now[a] - startedAt(s)) - bought[s]
  BY <1>1, <1>6 DEF Shortfall
<1> HIDE DEF q
<1>9. /\ cumulativeAllowed(now[a] - startedAt(s)) \in Nat
      /\ cumulativeAllowed(clock - startedAt(s)) \in Nat
      /\ cumulativeAllowed(now[a] - startedAt(s)) <= cumulativeAllowed(clock - startedAt(s))
  <2>1. /\ now[a] - startedAt(s) \in Nat /\ clock - startedAt(s) \in Nat
        /\ now[a] - startedAt(s) <= clock - startedAt(s)
    BY <1>0, <1>7
  <2> QED BY <2>1, RampGrows
<1>10. bought[s] + q <= cumulativeAllowed(clock - startedAt(s))
  BY <1>0, <1>8, <1>9
<1>11. /\ \A o \in 1 .. placed : orders'[o] = orders[o] /\ o # placed + 1
       /\ \A o \in 1 .. placed' : o # placed + 1 => o \in 1 .. placed
       /\ placed + 1 \in 1 .. placed' /\ orders'[placed + 1].spray = s
       /\ orders'[placed + 1].filled = 0 /\ orders'[placed + 1].quantity = q
  BY <1>0, <1>2
<1>12. q \in Int
  BY <1>0, <1>8, <1>9
<1>13. ASSUME NEW z \in Sprays, NEW o \in 1 .. placed', InBook(o)', orders'[o].spray = z
       PROVE  bought'[z] + orders'[o].quantity - orders'[o].filled
                <= cumulativeAllowed(clock' - startedAt(z))
  <2>1. CASE o = placed + 1
    <3>1. z = s
      BY <1>11, <1>13, <2>1
    <3> QED BY <1>0, <1>2, <1>10, <1>11, <1>12, <2>1, <3>1
  <2>2. CASE o # placed + 1
    BY <1>2, <1>11, <1>13, <2>2 DEF AheadInv, NeverAheadOfRamp, InBook
  <2> QED BY <2>1, <2>2
<1>14. NeverAheadOfRamp'
  BY <1>2, <1>13 DEF AheadInv, NeverAheadOfRamp
<1>15. \A o \in 1 .. placed' : InBook(o)' => orders'[o].filled < orders'[o].quantity
  BY <1>7, <1>11 DEF AheadInv, InBook
<1>16. \A o \in 1 .. placed' : startedAt(orders'[o].spray) <= clock'
  <2>1. startedAt(s) <= clock
    BY <1>0, <1>7
  <2> QED BY <1>2, <1>11, <2>1 DEF AheadInv
<1>17. \A z \in Sprays : bought'[z] > 0 => startedAt(z) <= clock'
  BY <1>2 DEF AheadInv
<1> QED BY <1>14, <1>15, <1>16, <1>17 DEF AheadInv

LEMMA AheadInit == Init => AheadInv
BY DEF Init, AheadInv, NeverAheadOfRamp

\* Whatever the step, no spray gets ahead of its ramp.
LEMMA AheadStep ==
  ASSUME InOrder, IInv, IInv', AheadInv, OrderInv(TRUE), [Next]_vars
  PROVE  AheadInv'
<1>0. TypeOK' /\ SingleLiveOrder /\ clock \in Int
  BY DEF IInv, OrderInv, TypeOK
<1>1. CASE UNCHANGED <<clock, brokerVars>>
  <2>1. UNCHANGED <<clock, placed, orders, bought>> /\ clock <= clock'
    BY <1>0, <1>1 DEF brokerVars
  <2> QED BY <1>0, <2>1, AheadStays DEF InBook
<1>2. ASSUME NEW o \in 1 .. placed, FillOne(o)
      PROVE  AheadInv'
  BY <1>0, <1>2, AheadFills
<1>3. ASSUME NEW o \in 1 .. placed, orders' = [orders EXCEPT ![o].status = "dead"],
             UNCHANGED <<clock, placed, bought>>
      PROVE  AheadInv'
  <2>1. \A p \in 1 .. placed :
          /\ orders'[p].spray = orders[p].spray /\ orders'[p].filled = orders[p].filled
          /\ orders'[p].quantity = orders[p].quantity
          /\ orders'[p].status \in {"dead", orders[p].status}
    BY SMTT(30), <1>3 DEF IInv, TypeOK, Orders
  <2>2. \A p \in 1 .. placed : InBook(p)' => InBook(p)
    BY <2>1 DEF InBook
  <2> QED BY <1>0, <1>3, <2>1, <2>2, AheadStays
<1>4. CASE Tick
  <2>1. clock <= clock' /\ UNCHANGED <<placed, orders, bought>>
    BY <1>0, <1>4 DEF Tick, brokerVars
  <2> QED BY <1>0, <2>1, AheadStays DEF InBook
<1>5. ASSUME NEW a \in Activities, CancelAccepted(a)
      PROVE  AheadInv'
  <2> DEFINE o == rec[a].workingOrder.id
  <2>1. /\ orders' = [orders EXCEPT ![o].status = "dead"]
        /\ UNCHANGED <<clock, placed, bought>> /\ pc[a] = "cancel"
    BY <1>5 DEF CancelAccepted, InOrder
  <2>2. o \in 1 .. placed
    <3>1. LocalOK(a) /\ TypeOK
      BY DEF IInv
    <3>2. cur[a] \in Sprays /\ rec[a] \in SprayRampRecord
      BY <2>1, <3>1 DEF TypeOK
    <3>3. GoodRecord(cur[a], rec[a]) /\ o # 0
      BY <2>1, <3>1, <3>2, SprayFacts DEF LocalOK
    <3> QED BY <3>2, <3>3, RecordFacts DEF GoodRecord, GoodSlot
  <2> HIDE DEF o
  <2> QED BY <1>3, <2>1, <2>2
<1>6. ASSUME NEW a \in Activities, PlaceAccepted(a)
      PROVE  AheadInv'
  BY <1>0, <1>6, AheadPlaces
<1>7. CASE CycleSteps \/ (\E c \in Contracts : startSprayBuy(c))
           \/ (\E s \in Sprays : abortSprayBuy(s)) \/ Crash \/ UNCHANGED vars
  <2>1. UNCHANGED <<clock, brokerVars>>
    BY <1>7 DEF CycleSteps, advanceSprays, CycleEnds, NextSpray, startSprayBuy,
                abortSprayBuy, Crash, vars
  <2> QED BY <1>1, <2>1
<1>8. ASSUME NEW a \in Activities, AdvanceSteps(a)
      PROVE  AheadInv'
  <2>1. ASSUME \/ ReconcileOrder(a) \/ UsableQuote(a) \/ NoQuote(a) \/ RetireOrder(a)
               \/ CancelFailed(a) \/ RecheckOrder(a) \/ PlaceRejected(a)
               \/ ReadForSave(a) \/ TruncateFile(a) \/ writeStore(a) \/ AdvanceThrows(a)
        PROVE  UNCHANGED <<clock, brokerVars>>
    BY <2>1 DEF ReconcileOrder, UsableQuote, NoQuote, RetireOrder, CancelFailed,
                RecheckOrder, PlaceRejected, ReadForSave, TruncateFile, writeStore,
                AdvanceThrows
  <2> QED BY <1>1, <1>5, <1>6, <1>8, <2>1 DEF AdvanceSteps
<1>9. CASE BrokerSteps
  BY <1>2, <1>3, <1>9 DEF BrokerSteps, OrderDies
<1> QED BY <1>4, <1>7, <1>8, <1>9 DEF Next

\* An activity that re-reads an order it cancelled goes on by its own step.
LEMMA LeavesRecheck ==
  ASSUME TypeOK, NEW a \in Activities, pc[a] = "recheck", pc'[a] # "recheck",
         NEW b \in Activities, AdvanceSteps(b)
  PROVE  a = b /\ RecheckOrder(a)
<1>1. CASE a = b
  BY <1>1 DEF AdvanceSteps, ReconcileOrder, UsableQuote, NoQuote, RetireOrder,
     CancelAccepted, CancelFailed, PlaceAccepted, PlaceRejected, ReadForSave,
     TruncateFile, writeStore, AdvanceThrows
<1>2. CASE a # b
  <2>1. pc'[a] = pc[a]
    BY <1>2 DEF AdvanceSteps, ReconcileOrder, UsableQuote, NoQuote,
       RetireOrder, CancelAccepted, CancelFailed, RecheckOrder, PlaceAccepted,
       PlaceRejected, ReadForSave, TruncateFile, writeStore, AdvanceThrows, GoOn,
       Retired, DoneWithSpray, TypeOK
  <2> QED BY <2>1
<1> QED BY <1>1, <1>2

\* No other step lets it leave.
LEMMA RecheckGoesOn ==
  ASSUME InOrder, TypeOK, NEW a \in Activities, pc[a] = "recheck", pc'[a] # "recheck",
         \/ CycleSteps \/ (\E c \in Contracts : startSprayBuy(c))
         \/ (\E s \in Sprays : abortSprayBuy(s)) \/ BrokerSteps \/ Tick \/ Crash
         \/ UNCHANGED vars
  PROVE  FALSE
<1>1. CASE CycleSteps
  <2>1. CASE advanceSprays
    BY <2>1 DEF advanceSprays, MayBegin, InOrder
  <2>2. CASE \E s \in Sprays : NextSpray(s)
    BY <2>2 DEF NextSpray, GoOn, TypeOK
  <2>3. CASE CycleEnds
    BY <2>3 DEF CycleEnds, TypeOK
  <2> QED BY <1>1, <2>1, <2>2, <2>3 DEF CycleSteps
<1>2. CASE (\E c \in Contracts : startSprayBuy(c)) \/ (\E s \in Sprays : abortSprayBuy(s))
  BY <1>2 DEF startSprayBuy, abortSprayBuy, MayBegin, InOrder
<1>3. CASE BrokerSteps \/ Tick \/ UNCHANGED vars
  BY <1>3 DEF BrokerSteps, FillOne, OrderDies, Tick, vars, localVars
<1>4. CASE Crash
  BY <1>4 DEF Crash, InOrder, TypeOK
<1> QED BY <1>1, <1>2, <1>3, <1>4

\* A slot freed on an answer leaves what the answer said.
LEMMA AnswerKept ==
  ASSUME IInv, NEW a \in Activities, pc[a] = "recheck",
         Retired(a, [Reconciled(rec[a]) EXCEPT !.workingOrder = NoOrder])
  PROVE  rec'[a].observedFilled = Reconciled(rec[a]).observedFilled
<1>1. /\ TypeOK /\ rec[a] \in SprayRampRecord /\ rec[a].workingOrder.id # 0
      /\ cur[a] \in Sprays
  BY DEF IInv, TypeOK, LocalOK
<1>2. Reconciled(rec[a]) \in SprayRampRecord
  <2>1. Reconciled(rec[a]) \in reconcileWorkingOrder(rec[a])
    BY <1>1 DEF reconcileWorkingOrder
  <2> QED BY <1>1, <2>1, ReconcileFacts
<1> DEFINE r == Reconciled(rec[a])
<1>3. rec'[a] \in {[r EXCEPT !.workingOrder = NoOrder],
                   [[r EXCEPT !.workingOrder = NoOrder] EXCEPT !.aborted = TRUE]}
  BY <1>1 DEF Retired, GoOn, TypeOK
<1> HIDE DEF r
<1> QED BY <1>2, <1>3 DEF SprayRampRecord, r

\* Where status calls do not fail, every slot is freed on an answer.
LEMMA AnsweredStep ==
  ASSUME InOrder, ~StatusErrors, IInv, [Next]_vars
  PROVE  Answered
<1> SUFFICES ASSUME NEW a \in Activities, pc[a] = "recheck", pc'[a] # "recheck"
             PROVE  rec'[a].observedFilled = Reconciled(rec[a]).observedFilled
  BY DEF Answered
<1>1. RecheckOrder(a) /\ rec[a].workingOrder.id # 0
  BY LeavesRecheck, RecheckGoesOn DEF Next, IInv, LocalOK
<1>2. Retired(a, [Reconciled(rec[a]) EXCEPT !.workingOrder = NoOrder])
  BY <1>1 DEF RecheckOrder, reconcileWorkingOrder
<1> QED BY <1>2, AnswerKept

\* While activities take turns, nobody crashes or aborts, every reply arrives and
\* an accepted cancel is final, a spray never has two orders in the book, however
\* often status calls and cancels fail (reconcileWorkingOrder, retireWorkingOrder).
THEOREM OneOrderAtATime ==
  ASSUME InOrder
  PROVE  Spec => []SingleLiveOrder
<1> DEFINE Inv == IInv /\ PrunedInv /\ OrderInv(FALSE)
<1>1. Init => Inv
  BY InitIInv, InitKnows, PrunedInit
<1>2. Inv /\ [Next]_vars => Inv'
  BY NextIInv, PrunedStep, NextKnows DEF IInv
<1>3. Inv => SingleLiveOrder
  BY DEF OrderInv
<1> QED BY <1>1, <1>2, <1>3, PTL DEF Spec

\* Where status calls are answered, too, a spray never buys, and never stands to
\* buy, more than its ramp allows by then (retireWorkingOrder's second re-read).
THEOREM PurchasesFollowTheRamp ==
  ASSUME InOrder, ~StatusErrors
  PROVE  Spec => []NeverAheadOfRamp
<1> DEFINE Inv == IInv /\ PrunedInv /\ OrderInv(TRUE) /\ AheadInv
<1>1. Init => Inv
  BY InitIInv, InitKnows, PrunedInit, AheadInit
<1>2. Inv /\ [Next]_vars => Inv'
  BY NextIInv, PrunedStep, NextKnows, AnsweredStep, AheadStep DEF IInv
<1>3. Inv => NeverAheadOfRamp
  BY DEF AheadInv
<1> QED BY <1>1, <1>2, <1>3, PTL DEF Spec

-----------------------------------------------------------------------------
(* The same of the worlds that TLC explores.                               *)

\* The reliable world differs from the sequential one in what a status call may
\* leave in the record; all its steps are steps of the sequential world.
LEMMA ReliableAdvances ==
  ASSUME NEW a \in Activities, Reliable!AdvanceSteps(a)
  PROVE  /\ AdvanceSteps(a)
         /\ pc[a] = "recheck" /\ rec[a].workingOrder.id # 0 =>
              Retired(a, [Reconciled(rec[a]) EXCEPT !.workingOrder = NoOrder])
<1>1. ASSUME NEW r PROVE Reliable!Reconciled(r) = Reconciled(r)
  BY DEF Reconciled, Reliable!Reconciled, Larger, Reliable!Larger, InBook, Reliable!InBook,
         NoOrder, Reliable!NoOrder
<1>2. ASSUME NEW r
      PROVE  /\ Reliable!reconcileWorkingOrder(r) \subseteq reconcileWorkingOrder(r)
             /\ r.workingOrder.id # 0 => Reliable!reconcileWorkingOrder(r) = {Reconciled(r)}
  BY <1>1 DEF reconcileWorkingOrder, Reliable!reconcileWorkingOrder
<1>3. ASSUME NEW b, NEW r PROVE Reliable!Shortfall(b, r) = Shortfall(b, r)
  BY DEF Shortfall, Reliable!Shortfall, cumulativeAllowed, Reliable!cumulativeAllowed,
         startedAt, Reliable!startedAt
<1>4. ASSUME NEW b, NEW r PROVE Reliable!Retired(b, r) <=> Retired(b, r)
  BY <1>3 DEF Retired, Reliable!Retired, GoOn, Reliable!GoOn, isSprayComplete, Reliable!isSprayComplete
<1>5. CASE Reliable!ReconcileOrder(a)
  <2>1. ReconcileOrder(a)
    BY <1>2, <1>3, <1>5 DEF ReconcileOrder, Reliable!ReconcileOrder, GoOn, Reliable!GoOn,
       deadline, Reliable!deadline, startedAt, Reliable!startedAt, brokerVars, Reliable!brokerVars
  <2> QED BY <2>1 DEF AdvanceSteps, ReconcileOrder
<1>6. CASE Reliable!RetireOrder(a)
  <2>1. RetireOrder(a)
    BY <1>2, <1>4, <1>6 DEF RetireOrder, Reliable!RetireOrder, GoOn, Reliable!GoOn,
       brokerVars, Reliable!brokerVars
  <2> QED BY <2>1 DEF AdvanceSteps, RetireOrder
<1>7. CASE Reliable!RecheckOrder(a)
  <2>1. RecheckOrder(a)
    BY <1>2, <1>4, <1>7 DEF RecheckOrder, Reliable!RecheckOrder, NoOrder, Reliable!NoOrder,
       brokerVars, Reliable!brokerVars
  <2>2. rec[a].workingOrder.id # 0 =>
          Retired(a, [Reconciled(rec[a]) EXCEPT !.workingOrder = NoOrder])
    BY <1>2, <1>4, <1>7 DEF Reliable!RecheckOrder, NoOrder, Reliable!NoOrder
  <2> QED BY <2>1, <2>2 DEF AdvanceSteps
<1>8. CASE Reliable!UsableQuote(a)
  <2>1. UsableQuote(a)
    BY <1>3, <1>8 DEF UsableQuote, Reliable!UsableQuote, GoOn, Reliable!GoOn,
       brokerVars, Reliable!brokerVars
  <2> QED BY <2>1 DEF AdvanceSteps, UsableQuote
<1>9. CASE Reliable!NoQuote(a)
  <2>1. NoQuote(a)
    BY <1>9 DEF NoQuote, Reliable!NoQuote, GoOn, Reliable!GoOn, brokerVars, Reliable!brokerVars
  <2> QED BY <2>1 DEF AdvanceSteps, NoQuote
<1>10. CASE Reliable!CancelAccepted(a) \/ Reliable!CancelFailed(a)
  <2>1. CancelAccepted(a) \/ CancelFailed(a)
    BY <1>10 DEF CancelAccepted, Reliable!CancelAccepted, CancelFailed, Reliable!CancelFailed,
       InBook, Reliable!InBook, GoOn, Reliable!GoOn, brokerVars, Reliable!brokerVars
  <2> QED BY <2>1 DEF AdvanceSteps, CancelAccepted, CancelFailed
<1>11. CASE Reliable!PlaceAccepted(a) \/ Reliable!PlaceRejected(a)
  <2>1. PlaceAccepted(a) \/ PlaceRejected(a)
    BY <1>3, <1>11 DEF PlaceAccepted, Reliable!PlaceAccepted, PlaceRejected,
       Reliable!PlaceRejected, GoOn, Reliable!GoOn, brokerVars, Reliable!brokerVars
  <2> QED BY <2>1 DEF AdvanceSteps, PlaceAccepted, PlaceRejected
<1>12. DoneWithSpray(a) <=> Reliable!DoneWithSpray(a)
  BY DEF DoneWithSpray, Reliable!DoneWithSpray, NewRecord, Reliable!NewRecord, NoOrder,
         Reliable!NoOrder, EmptyData, Reliable!EmptyData, Sprays, Reliable!Sprays
<1>13. CASE Reliable!ReadForSave(a)
  <2>1. ReadForSave(a)
    BY <1>12, <1>13 DEF ReadForSave, Reliable!ReadForSave, brokerVars, Reliable!brokerVars,
       pruneCompletedSprays, Reliable!pruneCompletedSprays, isSprayComplete,
       Reliable!isSprayComplete, Sprays, Reliable!Sprays
  <2> QED BY <2>1 DEF AdvanceSteps, ReadForSave
<1>14. CASE Reliable!TruncateFile(a) \/ Reliable!writeStore(a) \/ Reliable!AdvanceThrows(a)
  <2>1. TruncateFile(a) \/ writeStore(a) \/ AdvanceThrows(a)
    BY <1>12, <1>14 DEF TruncateFile, Reliable!TruncateFile, writeStore, Reliable!writeStore,
       AdvanceThrows, Reliable!AdvanceThrows, brokerVars, Reliable!brokerVars, NewRecord,
       Reliable!NewRecord, NoOrder, Reliable!NoOrder, EmptyData, Reliable!EmptyData, Sprays,
       Reliable!Sprays
  <2> QED BY <2>1 DEF AdvanceSteps, TruncateFile, writeStore, AdvanceThrows
<1> QED
  BY <1>5, <1>6, <1>7, <1>8, <1>9, <1>10, <1>11, <1>13, <1>14 DEF Reliable!AdvanceSteps

\* Every step of the reliable world is one of the sequential world.
LEMMA ReliableSteps ==
  ASSUME [Reliable!Next]_vars
  PROVE  /\ [Next]_vars
         /\ \/ \E a \in Activities : Reliable!AdvanceSteps(a)
            \/ CycleSteps \/ (\E c \in Contracts : startSprayBuy(c))
            \/ (\E s \in Sprays : abortSprayBuy(s)) \/ BrokerSteps \/ Tick \/ Crash
            \/ UNCHANGED vars
<1>1. CASE \E a \in Activities : Reliable!AdvanceSteps(a)
  BY <1>1, ReliableAdvances DEF Next
<1>2. CASE Reliable!CycleSteps
  <2>1. CycleSteps
    BY <1>2 DEF CycleSteps, Reliable!CycleSteps, advanceSprays, Reliable!advanceSprays,
       NextSpray, Reliable!NextSpray, CycleEnds, Reliable!CycleEnds, MayBegin,
       Reliable!MayBegin, GoOn, Reliable!GoOn, brokerVars, Reliable!brokerVars,
       pruneCompletedSprays, Reliable!pruneCompletedSprays, isSprayComplete,
       Reliable!isSprayComplete, EmptyData, Reliable!EmptyData, Sprays, Reliable!Sprays,
       Activities, Reliable!Activities
  <2> QED BY <2>1 DEF Next
<1>3. CASE \E c \in Contracts : Reliable!startSprayBuy(c)
  <2>1. \E c \in Contracts : startSprayBuy(c)
    BY <1>3 DEF startSprayBuy, Reliable!startSprayBuy, MayBegin, Reliable!MayBegin, GoOn,
       Reliable!GoOn, brokerVars, Reliable!brokerVars, deadline, Reliable!deadline, startedAt,
       Reliable!startedAt, ContractOf, Reliable!ContractOf, NewRecord, Reliable!NewRecord,
       NoOrder, Reliable!NoOrder, Sprays, Reliable!Sprays, Activities, Reliable!Activities
  <2> QED BY <2>1 DEF Next
<1>4. CASE \E s \in Sprays : Reliable!abortSprayBuy(s)
  <2>1. \E s \in Sprays : abortSprayBuy(s)
    BY <1>4 DEF abortSprayBuy, Reliable!abortSprayBuy, MayBegin, Reliable!MayBegin, GoOn,
       Reliable!GoOn, brokerVars, Reliable!brokerVars, pruneCompletedSprays,
       Reliable!pruneCompletedSprays, isSprayComplete, Reliable!isSprayComplete, Sprays,
       Reliable!Sprays, Activities, Reliable!Activities
  <2> QED BY <2>1 DEF Next
<1>5. CASE Reliable!BrokerSteps \/ Reliable!Tick
  <2>1. BrokerSteps \/ Tick
    BY <1>5 DEF BrokerSteps, Reliable!BrokerSteps, FillOne, Reliable!FillOne, OrderDies,
       Reliable!OrderDies, Tick, Reliable!Tick, InBook, Reliable!InBook, localVars,
       Reliable!localVars, brokerVars, Reliable!brokerVars
  <2> QED BY <2>1 DEF Next
<1>6. CASE Reliable!Crash
  <2>1. Crash
    BY <1>6 DEF Crash, Reliable!Crash, brokerVars, Reliable!brokerVars, NewRecord,
       Reliable!NewRecord, NoOrder, Reliable!NoOrder, EmptyData, Reliable!EmptyData, Sprays,
       Reliable!Sprays, Activities, Reliable!Activities
  <2> QED BY <2>1 DEF Next
<1> QED
  BY <1>1, <1>2, <1>3, <1>4, <1>5, <1>6
     DEF Reliable!Next, Activities, Reliable!Activities, Sprays, Reliable!Sprays

\* In the reliable world, too, only an answer frees the slot.
LEMMA ReliableAnswers ==
  ASSUME InOrder, IInv, [Reliable!Next]_vars
  PROVE  Answered
<1> SUFFICES ASSUME NEW a \in Activities, pc[a] = "recheck", pc'[a] # "recheck"
             PROVE  rec'[a].observedFilled = Reconciled(rec[a]).observedFilled
  BY DEF Answered
<1>1. TypeOK /\ rec[a].workingOrder.id # 0
  BY DEF IInv, LocalOK
<1>2. PICK b \in Activities : Reliable!AdvanceSteps(b)
  BY <1>1, ReliableSteps, RecheckGoesOn
<1>3. a = b
  BY <1>1, <1>2, ReliableAdvances, LeavesRecheck
<1>4. Retired(a, [Reconciled(rec[a]) EXCEPT !.workingOrder = NoOrder])
  BY <1>1, <1>2, <1>3, ReliableAdvances
<1> QED BY <1>4, AnswerKept

\* MCSpec's sequential and reliable worlds: the theorem OneOrderAtATime of the
\* property the run checks (SingleLiveOrderInOrder).
THEOREM OneOrderInOrder ==
  ASSUME InOrder
  PROVE  MCSpec => []SingleLiveOrderInOrder
<1> DEFINE Inv == world \in {"sequential", "reliable"} => IInv /\ PrunedInv /\ OrderInv(FALSE)
<1>1. MCInit => Inv
  BY InitIInv, InitKnows, PrunedInit DEF MCInit
<1>2. Inv /\ [MCNext]_<<vars, world>> => Inv'
  <2> SUFFICES ASSUME Inv, [MCNext]_<<vars, world>>, world' \in {"sequential", "reliable"}
               PROVE  (IInv /\ PrunedInv /\ OrderInv(FALSE))'
    OBVIOUS
  <2>1. IInv /\ PrunedInv /\ OrderInv(FALSE) /\ ([Next]_vars \/ [Reliable!Next]_vars)
    BY DEF MCNext
  <2>2. [Next]_vars
    BY <2>1, ReliableSteps
  <2> QED BY <2>1, <2>2, NextIInv, PrunedStep, NextKnows DEF IInv
<1>3. Inv => SingleLiveOrderInOrder
  BY DEF OrderInv, SingleLiveOrderInOrder
<1> QED BY <1>1, <1>2, <1>3, PTL DEF MCSpec

-----------------------------------------------------------------------------
(* A spray is a purchase.                                                  *)

\* What a ramp has unlocked is a number, and stays unlocked.
LEMMA UnlockedGrows ==
  ASSUME IInv, TypeOK', clock <= clock', NEW s \in Sprays
  PROVE  Unlocked(s) \in Nat /\ Unlocked(s)' \in Nat /\ Unlocked(s) <= Unlocked(s)'
<1>1. clock \in Nat /\ clock' \in Nat /\ startedAt(s) \in Nat
  BY NumberFacts DEF IInv, TypeOK
<1>2. CASE startedAt(s) <= clock
  <2>1. startedAt(s) <= clock'
    BY <1>1, <1>2
  <2> QED BY <1>2, <2>1, AllowedLater DEF Unlocked
<1>3. CASE ~(startedAt(s) <= clock)
  <2>1. CASE startedAt(s) <= clock'
    <3>1. clock' - startedAt(s) \in Nat
      BY <1>1, <2>1
    <3>2. cumulativeAllowed(clock' - startedAt(s)) \in Nat
      BY <3>1, RampGrows
    <3> QED BY <1>3, <2>1, <3>2 DEF Unlocked
  <2>2. CASE ~(startedAt(s) <= clock')
    BY <1>3, <2>2 DEF Unlocked
  <2> QED BY <2>1, <2>2
<1> QED BY <1>2, <1>3

LEMMA StartsAsPurchase == Init /\ IInv => Promise!Init
<1> SUFFICES ASSUME Init, IInv
             PROVE  Promise!Init
  OBVIOUS
<1>1. \A s \in Sprays : Unlocked(s) \in Nat
  <2> SUFFICES ASSUME NEW s \in Sprays
               PROVE  Unlocked(s) \in Nat
    OBVIOUS
  <2>1. startedAt(s) \in Nat /\ clock \in Nat
    BY NumberFacts DEF IInv
  <2>2. CASE startedAt(s) <= clock
    <3>1. clock - startedAt(s) \in Nat
      BY <2>1, <2>2
    <3> QED BY <2>2, <3>1, RampGrows DEF Unlocked
  <2>3. CASE ~(startedAt(s) <= clock)
    BY <2>3 DEF Unlocked
  <2> QED BY <2>2, <2>3
<1>2. \A s \in Sprays : OpenOrders(s) = {}
  BY DEF Init, OpenOrders
<1>3. bought = [s \in Sprays |-> 0]
  BY DEF Init
<1> QED BY <1>1, <1>2, <1>3 DEF Promise!Init

\* Time unlocks.
LEMMA TickUnlocks ==
  ASSUME IInv, IInv', Tick
  PROVE  Promise!Unlock
<1>1. clock <= clock' /\ TypeOK'
  BY NumberFacts DEF Tick, IInv
<1>2. \A s \in Sprays :
        Unlocked(s) \in Nat /\ Unlocked(s)' \in Nat /\ Unlocked(s) <= Unlocked(s)'
  BY <1>1, UnlockedGrows
<1>3. \A s \in Sprays : OpenOrders(s)' = OpenOrders(s)
  BY DEF Tick, brokerVars, OpenOrders, InBook
<1>4. bought' = bought
  BY DEF Tick, brokerVars
<1> DEFINE al == [s \in Sprays |-> Unlocked(s)]
           al2 == [s \in Sprays |-> Unlocked(s)']
<1>5. al2 \in [Sprays -> Nat] /\ \A s \in Sprays : al[s] <= al2[s]
  BY <1>2
<1> QED BY <1>3, <1>4, <1>5 DEF Promise!Unlock

\* The one order in the book is all its spray has open.
LEMMA LoneOrder ==
  ASSUME SingleLiveOrder, NEW o \in 1 .. placed, InBook(o)
  PROVE  OpenOrders(orders[o].spray) =
           {[id |-> o, rest |-> orders[o].quantity - orders[o].filled]}
BY DEF SingleLiveOrder, OpenOrders

\* Where only order o changes, only its spray's open orders do.
LEMMA OthersOpen ==
  ASSUME placed' = placed, NEW o \in 1 .. placed, NEW s, s # orders[o].spray,
         orders'[o].spray = orders[o].spray,
         \A p \in 1 .. placed : p # o => orders'[p] = orders[p]
  PROVE  OpenOrders(s)' = OpenOrders(s)
<1> DEFINE Mine == {p \in 1 .. placed : InBook(p) /\ orders[p].spray = s}
           Mine2 == {p \in 1 .. placed' : InBook(p)' /\ orders'[p].spray = s}
<1>1. Mine2 = Mine /\ \A p \in Mine : orders'[p] = orders[p]
  BY DEF InBook
<1> QED BY <1>1 DEF OpenOrders

\* Where one value of a function changes, EXCEPT says so.
LEMMA OneValue ==
  ASSUME NEW S, NEW f, NEW g, f = [s \in S |-> f[s]], g = [s \in S |-> g[s]],
         NEW z \in S, NEW v, g[z] = v, \A s \in S : s # z => g[s] = f[s]
  PROVE  g = [f EXCEPT ![z] = v]
OBVIOUS

\* The only order of a spray leaves the book: the rest of it is withdrawn.
LEMMA OrderLeaves ==
  ASSUME IInv, SingleLiveOrder, NEW o \in 1 .. placed, InBook(o),
         orders' = [orders EXCEPT ![o].status = "dead"],
         UNCHANGED <<clock, placed, bought>>
  PROVE  Promise!Next
<1>0. PICK z \in Sprays : z = orders[o].spray
  BY NumberFacts DEF IInv
<1>1. z = orders[o].spray /\ orders \in [1 .. placed -> Orders]
  BY <1>0 DEF IInv, TypeOK
<1>2. /\ orders'[o].spray = z /\ orders'[o].status = "dead"
      /\ \A p \in 1 .. placed : p # o => orders'[p] = orders[p]
  BY SMTT(30), <1>1 DEF Orders
<1>3. OpenOrders(z) # {}
  BY <1>1, LoneOrder
<1>4. OpenOrders(z)' = {}
  <2>1. \A p \in 1 .. placed' : ~(InBook(p)' /\ orders'[p].spray = z)
    BY <1>1, <1>2 DEF SingleLiveOrder, InBook
  <2> QED BY <2>1 DEF OpenOrders
<1>5. \A s \in Sprays : s # z => OpenOrders(s)' = OpenOrders(s)
  BY <1>1, <1>2, OthersOpen
<1>6. \A s \in Sprays : Unlocked(s)' = Unlocked(s)
  BY DEF Unlocked
<1>7. Promise!Withdraw(z)
  <2> DEFINE op == [s \in Sprays |-> OpenOrders(s)]
             op2 == [s \in Sprays |-> OpenOrders(s)']
  <2>1. op2 = [op EXCEPT ![z] = {}]
    <3>1. op2[z] = {} /\ \A s \in Sprays : s # z => op2[s] = op[s]
      BY <1>1, <1>4, <1>5
    <3>2. op = [s \in Sprays |-> op[s]] /\ op2 = [s \in Sprays |-> op2[s]]
      OBVIOUS
    <3> HIDE DEF op, op2
    <3> QED BY <1>1, <3>1, <3>2, OneValue
  <2>2. op[z] # {}
    BY <1>1, <1>3
  <2>3. [s \in Sprays |-> Unlocked(s)'] = [s \in Sprays |-> Unlocked(s)]
    BY <1>6
  <2> QED BY <2>1, <2>2, <2>3 DEF Promise!Withdraw
<1> QED BY <1>1, <1>7 DEF Promise!Next

\* A fill buys one of what the order may still buy; the last one closes it.
LEMMA OrderFills ==
  ASSUME IInv, SingleLiveOrder, AheadInv, NEW o \in 1 .. placed, FillOne(o)
  PROVE  Promise!Next
<1>0. PICK z \in Sprays : z = orders[o].spray
  BY NumberFacts DEF IInv
<1> DEFINE f == orders[o].filled + 1
           st == IF f >= orders[o].quantity THEN "filled" ELSE orders[o].status
           rest == orders[o].quantity - orders[o].filled
<1>1. /\ orders' = [orders EXCEPT ![o].filled = f, ![o].status = st]
      /\ bought' = [bought EXCEPT ![z] = @ + 1]
      /\ placed' = placed /\ clock' = clock /\ InBook(o)
  BY <1>0 DEF FillOne
<1>2. /\ orders \in [1 .. placed -> Orders] /\ bought \in [Sprays -> Nat]
      /\ orders[o].filled \in Nat /\ orders[o].quantity \in Nat
  BY NumberFacts DEF IInv, TypeOK
<1>3. /\ rest \in Nat /\ rest >= 1 /\ f \in Nat /\ orders[o].quantity - f = rest - 1
      /\ f >= orders[o].quantity <=> rest = 1
  <2>1. orders[o].filled < orders[o].quantity
    BY <1>1 DEF AheadInv
  <2> QED BY <1>2, <2>1
<1>4. st = IF rest = 1 THEN "filled" ELSE orders[o].status
  BY <1>3
<1> HIDE DEF f, st
<1>5. /\ orders'[o].spray = z /\ orders'[o].status = st /\ orders'[o].filled = f
      /\ orders'[o].quantity = orders[o].quantity
      /\ \A p \in 1 .. placed : p # o => orders'[p] = orders[p]
  BY SMTT(30), <1>0, <1>1, <1>2 DEF Orders
<1>6. OpenOrders(z) = {[id |-> o, rest |-> rest]}
  BY <1>0, <1>1, LoneOrder
<1>7. OpenOrders(z)' = IF rest = 1 THEN {} ELSE {[id |-> o, rest |-> rest - 1]}
  <2>1. \A p \in 1 .. placed' : InBook(p)' /\ orders'[p].spray = z => p = o
    BY <1>0, <1>1, <1>5 DEF SingleLiveOrder, InBook
  <2>2. CASE rest = 1
    <3>1. ~InBook(o)'
      BY <1>4, <1>5, <2>2 DEF InBook
    <3>2. {p \in 1 .. placed' : InBook(p)' /\ orders'[p].spray = z} = {}
      BY <2>1, <3>1
    <3>3. OpenOrders(z)' = {}
      BY <3>2 DEF OpenOrders
    <3> QED BY <2>2, <3>3
  <2>3. CASE rest # 1
    <3>1. InBook(o)' /\ o \in 1 .. placed' /\ orders'[o].spray = z
      BY <1>1, <1>4, <1>5, <2>3 DEF InBook
    <3>2. {p \in 1 .. placed' : InBook(p)' /\ orders'[p].spray = z} = {o}
      BY <2>1, <3>1
    <3>3. OpenOrders(z)' = {[id |-> o, rest |-> orders'[o].quantity - orders'[o].filled]}
      BY <3>2 DEF OpenOrders
    <3> QED BY <1>3, <1>5, <2>3, <3>3
  <2> QED BY <2>2, <2>3
<1>8. \A s \in Sprays : s # z => OpenOrders(s)' = OpenOrders(s)
  BY <1>0, <1>1, <1>5, OthersOpen
<1>9. \A s \in Sprays : Unlocked(s)' = Unlocked(s)
  BY <1>1 DEF Unlocked
<1> HIDE DEF rest
<1>10. Promise!Fill(z)
  <2> DEFINE w == [id |-> o, rest |-> rest]
             op == [s \in Sprays |-> OpenOrders(s)]
             op2 == [s \in Sprays |-> OpenOrders(s)']
             left == IF 1 = w.rest THEN {} ELSE {[id |-> w.id, rest |-> w.rest - 1]}
  <2>1. w \in op[z] /\ w.id = o /\ w.rest = rest /\ 1 \in 1 .. w.rest
    BY <1>2, <1>3, <1>6
  <2>2. op2 = [op EXCEPT ![z] = left]
    <3>1. op2[z] = left /\ \A s \in Sprays : s # z => op2[s] = op[s]
      BY <1>2, <1>7, <1>8, <2>1
    <3>2. op = [s \in Sprays |-> op[s]] /\ op2 = [s \in Sprays |-> op2[s]]
      OBVIOUS
    <3> HIDE DEF op, op2, left
    <3> QED BY <1>2, <3>1, <3>2, OneValue
  <2>3. [s \in Sprays |-> Unlocked(s)'] = [s \in Sprays |-> Unlocked(s)]
    BY <1>9
  <2> HIDE DEF w
  <2> QED BY <1>1, <2>1, <2>2, <2>3 DEF Promise!Fill
<1> QED BY <1>2, <1>10 DEF Promise!Next

\* An order is placed while the spray has none, for no more than its ramp has
\* unlocked and it has not bought.
LEMMA OrderPlaced ==
  ASSUME IInv, IInv', AheadInv', SingleLiveOrder', NEW a \in Activities, PlaceAccepted(a)
  PROVE  Promise!Next
<1>0. PICK z, q, id : z = cur[a] /\ q = Shortfall(a, rec[a]) /\ id = placed + 1
  OBVIOUS
<1>1. /\ z \in Sprays /\ placed \in Nat /\ placed + 1 \in 1 .. MaxOrders
      /\ placed' = placed + 1 /\ UNCHANGED <<clock, bought>>
      /\ orders' = [o \in 1 .. placed + 1 |->
           IF o = placed + 1 THEN [spray |-> z, quantity |-> q, filled |-> 0,
                                   prior |-> bought[z], status |-> "live"]
           ELSE orders[o]]
      /\ bought[z] \in Nat
  <2>1. TypeOK /\ pc[a] = "place" /\ placed < MaxOrders /\ placed' = placed + 1
    BY DEF IInv, PlaceAccepted
  <2>2. z \in Sprays
    BY <1>0, <2>1 DEF TypeOK
  <2>3. placed \in Nat /\ MaxOrders \in Nat /\ bought[z] \in Nat
    BY <2>1, <2>2, NumberFacts, RampAssumption DEF RampAssumption
  <2>4. placed + 1 \in 1 .. MaxOrders
    BY <2>1, <2>3
  <2>5. /\ UNCHANGED <<clock, bought>>
        /\ orders' = [o \in 1 .. placed + 1 |->
             IF o = placed + 1 THEN [spray |-> z, quantity |-> q, filled |-> 0,
                                     prior |-> bought[z], status |-> "live"]
             ELSE orders[o]]
    BY <1>0 DEF PlaceAccepted
  <2> QED BY <2>1, <2>2, <2>3, <2>4, <2>5
<1>2. /\ orders'[id].spray = z /\ orders'[id].quantity = q /\ orders'[id].filled = 0
      /\ orders'[id].status = "live" /\ id \in 1 .. placed'
      /\ \A p \in 1 .. placed : orders'[p] = orders[p] /\ p \in 1 .. placed' /\ p # id
      /\ \A p \in 1 .. placed' : p = id \/ p \in 1 .. placed
  BY <1>0, <1>1
<1>3. InBook(id)' /\ \A p \in 1 .. placed : InBook(p)' <=> InBook(p)
  BY <1>2 DEF InBook
<1>4. \A p \in 1 .. placed : ~(InBook(p) /\ orders[p].spray = z)
  BY <1>2, <1>3 DEF SingleLiveOrder
<1>5. q \in Nat /\ q >= 1
  <2>1. orders'[id] \in Orders
    BY <1>2 DEF IInv, TypeOK
  <2> QED BY <1>2, <2>1, RampAssumption DEF Orders, RampAssumption
<1>6. Unlocked(z) \in Nat /\ bought[z] + q <= Unlocked(z)
  <2>1. startedAt(z) <= clock
    BY <1>1, <1>2 DEF AheadInv
  <2>2. /\ bought'[z] + orders'[id].quantity - orders'[id].filled
             <= cumulativeAllowed(clock' - startedAt(z))
    BY <1>1, <1>2, <1>3 DEF AheadInv, NeverAheadOfRamp
  <2>3. bought[z] + q - 0 <= cumulativeAllowed(clock - startedAt(z))
    BY <1>1, <1>2, <2>2
  <2>4. Unlocked(z) = cumulativeAllowed(clock - startedAt(z))
    BY <2>1 DEF Unlocked
  <2>5. clock - startedAt(z) \in Nat
    BY <1>1, <2>1, NumberFacts DEF IInv
  <2>6. Unlocked(z) \in Nat
    BY <2>4, <2>5, RampGrows
  <2> QED BY <1>1, <1>5, <2>3, <2>4, <2>6
<1>7. OpenOrders(z) = {}
  BY <1>4 DEF OpenOrders
<1>8. OpenOrders(z)' = {[id |-> id, rest |-> q]}
  <2>1. {p \in 1 .. placed' : InBook(p)' /\ orders'[p].spray = z} = {id}
    BY <1>2, <1>3, <1>4
  <2>2. OpenOrders(z)' = {[id |-> id, rest |-> orders'[id].quantity - orders'[id].filled]}
    BY <2>1 DEF OpenOrders
  <2> QED BY <1>2, <1>5, <2>2
<1>9. ASSUME NEW s \in Sprays, s # z
      PROVE  OpenOrders(s)' = OpenOrders(s)
  <2> DEFINE Mine == {p \in 1 .. placed : InBook(p) /\ orders[p].spray = s}
             Mine2 == {p \in 1 .. placed' : InBook(p)' /\ orders'[p].spray = s}
  <2>1. Mine2 = Mine /\ \A p \in Mine : orders'[p] = orders[p]
    BY <1>2, <1>3, <1>9
  <2> QED BY <2>1 DEF OpenOrders
<1>10. \A s \in Sprays : Unlocked(s)' = Unlocked(s)
  BY <1>1 DEF Unlocked
<1>11. Promise!Order(z)
  <2>1. id \in 1 .. MaxOrders /\ q \in 1 .. Unlocked(z) - bought[z]
    BY <1>0, <1>1, <1>5, <1>6
  <2>2. [s \in Sprays |-> Unlocked(s)'] = [s \in Sprays |-> Unlocked(s)]
    BY <1>10
  <2> DEFINE al == [s \in Sprays |-> Unlocked(s)]
             op == [s \in Sprays |-> OpenOrders(s)]
             op2 == [s \in Sprays |-> OpenOrders(s)']
  <2>3. al[z] = Unlocked(z) /\ op[z] = {}
    BY <1>1, <1>7
  <2>4. op2 = [op EXCEPT ![z] = {[id |-> id, rest |-> q]}]
    <3>1. op2[z] = {[id |-> id, rest |-> q]} /\ \A s \in Sprays : s # z => op2[s] = op[s]
      BY <1>1, <1>8, <1>9
    <3>2. op = [s \in Sprays |-> op[s]] /\ op2 = [s \in Sprays |-> op2[s]]
      OBVIOUS
    <3> HIDE DEF op, op2
    <3> QED BY <1>1, <3>1, <3>2, OneValue
  <2> QED BY <1>1, <2>1, <2>2, <2>3, <2>4 DEF Promise!Order
<1> QED BY <1>1, <1>11 DEF Promise!Next

\* Where nothing happens at the broker and no time passes, nothing happens to
\* the purchase.
LEMMA PurchaseRests ==
  ASSUME UNCHANGED <<clock, brokerVars>>
  PROVE  UNCHANGED Promise!vars
<1>1. \A s \in Sprays : Unlocked(s)' = Unlocked(s) /\ OpenOrders(s)' = OpenOrders(s)
  BY DEF Unlocked, OpenOrders, InBook, brokerVars
<1> QED BY <1>1 DEF Promise!vars, brokerVars

\* Every step of the executor is a step of the purchase, or none.
LEMMA StepsOfThePurchase ==
  ASSUME InOrder, IInv, IInv', OrderInv(TRUE), OrderInv(TRUE)', AheadInv, AheadInv',
         [Next]_vars
  PROVE  [Promise!Next]_(Promise!vars)
<1>0. SingleLiveOrder /\ SingleLiveOrder'
  BY DEF OrderInv
<1>1. CASE UNCHANGED <<clock, brokerVars>>
  BY <1>1, PurchaseRests
<1>2. CASE BrokerSteps
  <2>1. ASSUME NEW o \in 1 .. placed, FillOne(o)
        PROVE  Promise!Next
    BY <1>0, <2>1, OrderFills
  <2>2. ASSUME NEW o \in 1 .. placed, OrderDies(o)
        PROVE  Promise!Next
    BY <1>0, <2>2, OrderLeaves DEF OrderDies
  <2> QED BY <1>2, <2>1, <2>2 DEF BrokerSteps
<1>3. CASE Tick
  BY <1>3, TickUnlocks DEF Promise!Next
<1>4. ASSUME NEW a \in Activities, CancelAccepted(a)
      PROVE  Promise!Next
  <2> DEFINE o == rec[a].workingOrder.id
  <2>1. /\ orders' = [orders EXCEPT ![o].status = "dead"] /\ InBook(o)
        /\ UNCHANGED <<clock, placed, bought>> /\ pc[a] = "cancel"
    BY <1>4 DEF CancelAccepted, InOrder
  <2>2. o \in 1 .. placed
    <3>1. LocalOK(a) /\ TypeOK
      BY DEF IInv
    <3>2. cur[a] \in Sprays /\ rec[a] \in SprayRampRecord
      BY <2>1, <3>1 DEF TypeOK
    <3>3. GoodRecord(cur[a], rec[a]) /\ o # 0
      BY <2>1, <3>1, <3>2, SprayFacts DEF LocalOK
    <3> QED BY <3>2, <3>3, RecordFacts DEF GoodRecord, GoodSlot
  <2> HIDE DEF o
  <2> QED BY <1>0, <2>1, <2>2, OrderLeaves
<1>5. ASSUME NEW a \in Activities, PlaceAccepted(a)
      PROVE  Promise!Next
  BY <1>0, <1>5, OrderPlaced
<1>6. CASE CycleSteps \/ (\E c \in Contracts : startSprayBuy(c))
           \/ (\E s \in Sprays : abortSprayBuy(s)) \/ Crash \/ UNCHANGED vars
  <2>1. UNCHANGED <<clock, brokerVars>>
    BY <1>6 DEF CycleSteps, advanceSprays, CycleEnds, NextSpray, startSprayBuy,
                abortSprayBuy, Crash, vars
  <2> QED BY <1>1, <2>1
<1>7. ASSUME NEW a \in Activities, AdvanceSteps(a)
      PROVE  [Promise!Next]_(Promise!vars)
  <2>1. ASSUME \/ ReconcileOrder(a) \/ UsableQuote(a) \/ NoQuote(a) \/ RetireOrder(a)
               \/ CancelFailed(a) \/ RecheckOrder(a) \/ PlaceRejected(a)
               \/ ReadForSave(a) \/ TruncateFile(a) \/ writeStore(a) \/ AdvanceThrows(a)
        PROVE  UNCHANGED <<clock, brokerVars>>
    BY <2>1 DEF ReconcileOrder, UsableQuote, NoQuote, RetireOrder, CancelFailed,
                RecheckOrder, PlaceRejected, ReadForSave, TruncateFile, writeStore,
                AdvanceThrows
  <2> QED BY <1>1, <1>4, <1>5, <1>7, <2>1 DEF AdvanceSteps
<1> QED BY <1>2, <1>3, <1>6, <1>7 DEF Next

\* Where activities take turns and the broker answers, a spray is a Purchase: one
\* order at a time, for no more than its ramp has unlocked and it has not bought,
\* every order withdrawn or filled before the next (spray-buy.ts, header).
THEOREM SprayImplementsPurchase ==
  ASSUME InOrder, ~StatusErrors
  PROVE  Spec => ImplementsPurchase
<1> DEFINE Inv == IInv /\ PrunedInv /\ OrderInv(TRUE) /\ AheadInv
<1>1. Init => Inv /\ Promise!Init
  BY InitIInv, InitKnows, PrunedInit, AheadInit, StartsAsPurchase
<1>2. Inv /\ [Next]_vars => Inv'
  BY NextIInv, PrunedStep, NextKnows, AnsweredStep, AheadStep DEF IInv
<1>3. Inv /\ Inv' /\ [Next]_vars => [Promise!Next]_(Promise!vars)
  BY StepsOfThePurchase
<1> QED BY <1>1, <1>2, <1>3, PTL DEF Spec, ImplementsPurchase, Promise!Spec

\* MCSpec's reliable world: the theorem SprayImplementsPurchase of the property
\* the run checks (ImplementsPurchaseIfAnswered).
THEOREM PurchaseIfAnswered ==
  ASSUME InOrder
  PROVE  MCSpec => ImplementsPurchaseIfAnswered
<1> DEFINE Inv == world = "reliable" => IInv /\ PrunedInv /\ OrderInv(TRUE) /\ AheadInv
<1>1. MCInit => Inv /\ Promise!Init
  BY InitIInv, InitKnows, PrunedInit, AheadInit, StartsAsPurchase DEF MCInit
<1>2. Inv /\ [MCNext]_<<vars, world>> => Inv'
  <2> SUFFICES ASSUME Inv, [MCNext]_<<vars, world>>, world' = "reliable"
               PROVE  (IInv /\ PrunedInv /\ OrderInv(TRUE) /\ AheadInv)'
    OBVIOUS
  <2>1. IInv /\ PrunedInv /\ OrderInv(TRUE) /\ AheadInv /\ [Reliable!Next]_vars
    BY DEF MCNext
  <2>2. [Next]_vars /\ Answered
    BY <2>1, ReliableSteps, ReliableAnswers
  <2> QED BY <2>1, <2>2, NextIInv, PrunedStep, NextKnows, AheadStep DEF IInv
<1>3. Inv /\ Inv' /\ [MCNext]_<<vars, world>> =>
        [world = "reliable" => Promise!Next]_(Promise!vars)
  <2> SUFFICES ASSUME Inv, Inv', [MCNext]_<<vars, world>>, world = "reliable"
               PROVE  [Promise!Next]_(Promise!vars)
    OBVIOUS
  <2>1. [Reliable!Next]_vars /\ world' = "reliable"
    BY DEF MCNext
  <2>2. [Next]_vars
    BY <2>1, ReliableSteps
  <2> QED BY <2>1, <2>2, StepsOfThePurchase
<1> QED BY <1>1, <1>2, <1>3, PTL DEF MCSpec, ImplementsPurchaseIfAnswered
=============================================================================
