--------------------------- MODULE RunCycleProofs ---------------------------
(***************************************************************************)
(* Proofs about the trading cycle, for any symbols, holdings, number of    *)
(* cycles under way at once and length of the book, and about the position *)
(* registry that it keeps.                                                 *)
(***************************************************************************)
EXTENDS MCRunCycle, FiniteSetTheorems, WellFoundedInduction, TLAPS

-----------------------------------------------------------------------------
(* The cycle's locals.                                                     *)

Actions == {"none", "close", "partial", "manage", "hold"}

Locals ==
  [pc : Steps, list : SUBSET Nat, swept : Nat, reducing : SUBSET Symbols, at : Phases,
   plan : [Groups -> Actions], seen : [Groups -> 0 .. MaxHeld], strong : SUBSET Symbols,
   todo : SUBSET Groups, buys : SUBSET Groups, closed : SUBSET Groups,
   bought : SUBSET Groups, reduced : SUBSET Groups, seeded : SUBSET Groups,
   seed : Groups \cup {Idle.seed}]

EarlySteps == {"idle", "sweep1", "snapshot", "listing2", "sweep2", "select"}
ClosingSteps == {"close", "record"}

\* What a cycle sells out of, or is about to; what it buys into, or is about to.
Closing(l) == IF l.pc = "close" THEN l.closed \cup l.todo ELSE l.closed
Buying(l) == IF l.pc = "manage" THEN l.bought \cup l.todo ELSE l.bought \cup l.buys

\* The groups the zero-DTE breaker may close whatever was decided on them.
Expiring == IF AccountType = "cash" THEN ExpiringToday ELSE {}

\* What was decided was decided on something held.
DecidedOnHeld(l) == \A g \in Groups : l.plan[g] # "none" => l.seen[g] > 0

\* Each list is empty before the phase that fills it.
InOrder(l) ==
  /\ l.pc \in EarlySteps => l.buys = {} /\ l.closed = {}
  /\ l.pc \in EarlySteps \cup ClosingSteps => l.bought = {}
  /\ l.pc \notin EarlySteps \cup ClosingSteps => l.buys = {}
  /\ l.pc \in EarlySteps \cup ClosingSteps \cup {"manage"} => l.reduced = {}
  /\ l.pc \in EarlySteps \cup ClosingSteps \cup {"manage", "reduce"} => l.seeded = {}

\* The closes and the additions come from the candidates for them.
FromCandidates(l) == l.pc \in ClosingSteps =>
  Closing(l) \subseteq partitionClosesByInstrumentGuard(l)
  /\ l.buys \subseteq ManageCandidates(l)

\* A group of both kinds expires today.
OnlyExpiringBoth(l) == Buying(l) \cap Closing(l) \subseteq Expiring

\* In the window a cash account adds to an overnight position on a strong signal
\* only, and such a position is not reduced.
WindowIsKept(l) ==
  AccountType = "cash" /\ isInOvernightReductionWindow(l.at) =>
    \A g \in Buying(l) : SymbolOf(g) \in Overnight => SymbolOf(g) \in l.strong

ReductionsAreOvernight(l) ==
  /\ \A g \in l.reduced : SymbolOf(g) \in Overnight /\ SymbolOf(g) \notin l.strong
  /\ AccountType # "cash" => l.reduced = {} /\ (l.pc = "reduce" => l.todo = {})

\* A symbol this run closed is not seeded.
SeedsAreFresh(l) ==
  /\ l.pc = "seedPlace" => l.seed \in Groups
  /\ AccountType = "cash" \/ HasExclusions =>
       /\ \A g \in l.seeded : SymbolOf(g) \notin ClosedSymbols(l)
       /\ l.pc = "seedPlace" => SymbolOf(l.seed) \notin ClosedSymbols(l)

Sound(l) ==
  /\ DecidedOnHeld(l) /\ InOrder(l) /\ FromCandidates(l)
  /\ OnlyExpiringBoth(l) /\ WindowIsKept(l) /\ ReductionsAreOvernight(l) /\ SeedsAreFresh(l)

CyclesSound == cycle \in [Cycles -> Locals] /\ \A c \in Cycles : Sound(cycle[c])

\* Cycle c goes on with sound locals.
GoesSound(c) == \E l \in Locals : Goes(c, l) /\ Sound(l)

-----------------------------------------------------------------------------
(* The locals stay sound.                                                  *)

LEMMA IdleSound == Idle \in Locals /\ Sound(Idle)
<1>1. "idle" \in Steps /\ "none" \in Actions /\ 1 \in Phases
  BY DEF Steps, Actions, Phases
<1>2. NoPlan \in [Groups -> Actions] /\ NoCount \in [Groups -> 0 .. MaxHeld]
  BY <1>1, RunCycleAssumption DEF NoPlan, NoCount
<1>3. Idle.seed = CHOOSE g \in Groups : TRUE
  BY DEF Idle
<1>4. Idle \in Locals
  BY <1>1, <1>2, <1>3 DEF Idle, Locals
<1>5. DecidedOnHeld(Idle)
  BY DEF DecidedOnHeld, Idle, NoPlan
<1>6. /\ InOrder(Idle) /\ FromCandidates(Idle) /\ OnlyExpiringBoth(Idle)
      /\ WindowIsKept(Idle) /\ ReductionsAreOvernight(Idle)
  BY DEF InOrder, FromCandidates, OnlyExpiringBoth, WindowIsKept, ReductionsAreOvernight,
         Idle, Closing, Buying, EarlySteps, ClosingSteps
<1>7. SeedsAreFresh(Idle)
  BY DEF SeedsAreFresh, Idle
<1> QED BY <1>4, <1>5, <1>6, <1>7 DEF Sound

\* A step that leaves all alone that Sound looks at, between early steps.
LEMMA EarlySound ==
  ASSUME NEW l \in Locals, Sound(l), NEW m \in Locals,
         l.pc \in EarlySteps, m.pc \in EarlySteps,
         m.plan = l.plan, m.seen = l.seen, m.at = l.at, m.strong = l.strong,
         m.buys = l.buys, m.closed = l.closed, m.bought = l.bought,
         m.reduced = l.reduced, m.seeded = l.seeded
  PROVE  Sound(m)
<1>1. /\ l.buys = {} /\ l.closed = {} /\ l.bought = {} /\ l.reduced = {} /\ l.seeded = {}
  BY DEF Sound, InOrder
<1>2. m.pc \notin {"close", "record", "manage", "reduce", "seedPlace"}
  BY DEF EarlySteps
<1>3. DecidedOnHeld(m) /\ InOrder(m) /\ FromCandidates(m)
  BY <1>1, <1>2 DEF Sound, DecidedOnHeld, InOrder, FromCandidates, ClosingSteps
<1>4. Buying(m) = {}
  BY <1>1, <1>2 DEF Buying
<1>5. OnlyExpiringBoth(m) /\ WindowIsKept(m)
  BY <1>4 DEF OnlyExpiringBoth, WindowIsKept
<1>6. ReductionsAreOvernight(m) /\ SeedsAreFresh(m)
  BY <1>1, <1>2 DEF ReductionsAreOvernight, SeedsAreFresh
<1> QED BY <1>3, <1>5, <1>6 DEF Sound

LEMMA SweepSound ==
  ASSUME CyclesSound, NEW c \in Cycles,
         SweepCancels(c) \/ SweepCancelFails(c)
           \/ SweepEnds(c, "sweep1", "snapshot") \/ SweepEnds(c, "sweep2", "select")
  PROVE  GoesSound(c)
<1> DEFINE l == cycle[c]
<1>0. l \in Locals /\ Sound(l)
  BY DEF CyclesSound
<1>1. CASE SweepCancels(c) \/ SweepCancelFails(c)
  <2> DEFINE m == [l EXCEPT !.list = @ \ {Min(l.list)}]
  <2>1. m \in Locals
    BY <1>0 DEF Locals
  <2>2. /\ l.pc \in EarlySteps /\ m.pc = l.pc
        /\ m.plan = l.plan /\ m.seen = l.seen /\ m.at = l.at /\ m.strong = l.strong
        /\ m.buys = l.buys /\ m.closed = l.closed /\ m.bought = l.bought
        /\ m.reduced = l.reduced /\ m.seeded = l.seeded
    BY <1>0, <1>1 DEF SweepCancels, SweepCancelFails, EarlySteps, Locals
  <2>3. Goes(c, m)
    BY <1>1 DEF SweepCancels, SweepCancelFails
  <2> HIDE DEF l, m
  <2> QED BY <1>0, <2>1, <2>2, <2>3, EarlySound DEF GoesSound
<1>2. ASSUME NEW from \in EarlySteps, NEW to \in EarlySteps, SweepEnds(c, from, to)
      PROVE  GoesSound(c)
  <2> DEFINE m == Local(c, to)
  <2>1. m \in Locals
    BY <1>0 DEF Locals, Local, EarlySteps, Steps
  <2>2. /\ l.pc \in EarlySteps /\ m.pc = to
        /\ m.plan = l.plan /\ m.seen = l.seen /\ m.at = l.at /\ m.strong = l.strong
        /\ m.buys = l.buys /\ m.closed = l.closed /\ m.bought = l.bought
        /\ m.reduced = l.reduced /\ m.seeded = l.seeded
    BY <1>0, <1>2 DEF SweepEnds, At, Local, Locals
  <2>3. Goes(c, m)
    BY <1>2 DEF SweepEnds
  <2> HIDE DEF l, m
  <2> QED BY <1>0, <2>1, <2>2, <2>3, EarlySound DEF GoesSound
<1> QED BY <1>1, <1>2 DEF EarlySteps

LEMMA SnapshotSound ==
  ASSUME CyclesSound, held \in [Groups -> 0 .. MaxHeld], phase \in Phases,
         NEW c \in Cycles, Snapshot(c)
  PROVE  GoesSound(c)
<1> DEFINE l == cycle[c]
<1>0. l \in Locals /\ Sound(l) /\ l.pc = "snapshot"
  BY DEF CyclesSound, Snapshot, At
<1>1. PICK plan \in [Groups -> Actions], strong \in SUBSET (Symbols \cap Overnight) :
        /\ \A g \in Groups : plan[g] \in Decisions(g, held[g])
        /\ Goes(c, [Local(c, "listing2") EXCEPT
                      !.at = phase, !.seen = held, !.strong = strong, !.reducing = {},
                      !.plan = withOvernightCloseOverrides(plan)])
  BY DEF Snapshot, Actions
<1> DEFINE p == withOvernightCloseOverrides(plan)
           m == [Local(c, "listing2") EXCEPT
                   !.at = phase, !.seen = held, !.strong = strong, !.reducing = {}, !.plan = p]
<1>2. p \in [Groups -> Actions] /\ \A g \in Groups : p[g] # "none" => held[g] > 0
  <2>1. ASSUME NEW g \in Groups
        PROVE  p[g] \in Actions /\ (p[g] # "none" => plan[g] # "none")
    BY DEF withOvernightCloseOverrides, Actions
  <2>2. ASSUME NEW g \in Groups, plan[g] # "none"
        PROVE  held[g] > 0
    BY <1>1, <2>2 DEF Decisions
  <2>3. p \in [Groups -> Actions]
    BY <2>1 DEF withOvernightCloseOverrides
  <2> QED BY <2>1, <2>2, <2>3
<1> HIDE DEF p
<1>3. m \in Locals
  BY <1>0, <1>2 DEF Locals, Local, Steps
<1>4. /\ m.pc = "listing2" /\ m.plan = p /\ m.seen = held
      /\ m.buys = l.buys /\ m.closed = l.closed /\ m.bought = l.bought
      /\ m.reduced = l.reduced /\ m.seeded = l.seeded
  BY <1>0 DEF Local, Locals
<1>5. Goes(c, m)
  BY <1>1 DEF p
<1>6. /\ l.buys = {} /\ l.closed = {} /\ l.bought = {} /\ l.reduced = {} /\ l.seeded = {}
  BY <1>0 DEF Sound, InOrder, EarlySteps
<1> HIDE DEF l, m
<1>7. DecidedOnHeld(m) /\ InOrder(m) /\ FromCandidates(m)
  BY <1>2, <1>4, <1>6 DEF DecidedOnHeld, InOrder, FromCandidates, ClosingSteps
<1>8. Buying(m) = {}
  BY <1>4, <1>6 DEF Buying
<1>9. OnlyExpiringBoth(m) /\ WindowIsKept(m) /\ ReductionsAreOvernight(m) /\ SeedsAreFresh(m)
  BY <1>4, <1>6, <1>8 DEF OnlyExpiringBoth, WindowIsKept, ReductionsAreOvernight, SeedsAreFresh
<1> QED BY <1>3, <1>5, <1>7, <1>9 DEF GoesSound, Sound

\* A group is a candidate of both kinds only through the zero-DTE breaker.
LEMMA CandidatesOfBoth ==
  ASSUME NEW l
  PROVE  ManageCandidates(l) \cap partitionClosesByInstrumentGuard(l) \subseteq Expiring
BY DEF ManageCandidates, partitionClosesByInstrumentGuard, CloseCandidates, Expiring

LEMMA CandidatesInWindow ==
  ASSUME NEW l, AccountType = "cash", isInOvernightReductionWindow(l.at)
  PROVE  \A g \in ManageCandidates(l) : SymbolOf(g) \in Overnight => SymbolOf(g) \in l.strong
BY DEF ManageCandidates

\* The candidates are a matter of the decisions, and of the moment they were
\* taken at.
LEMMA CandidatesKept ==
  ASSUME NEW l, NEW m, m.plan = l.plan, m.seen = l.seen, m.at = l.at, m.strong = l.strong
  PROVE  /\ ManageCandidates(m) = ManageCandidates(l)
         /\ partitionClosesByInstrumentGuard(m) = partitionClosesByInstrumentGuard(l)
BY DEF ManageCandidates, partitionClosesByInstrumentGuard, CloseCandidates

\* While the cycle closes, all follows from where the closes and the additions
\* come from.
LEMMA ClosingSound ==
  ASSUME NEW m \in Locals, m.pc \in ClosingSteps, DecidedOnHeld(m), FromCandidates(m),
         m.bought = {}, m.reduced = {}, m.seeded = {}
  PROVE  Sound(m)
<1>1. m.pc \notin EarlySteps /\ m.pc \notin {"manage", "reduce", "seedPlace"}
  BY DEF ClosingSteps, EarlySteps
<1>2. InOrder(m)
  BY <1>1 DEF InOrder
<1>3. Buying(m) = m.buys /\ m.buys \subseteq ManageCandidates(m)
      /\ Closing(m) \subseteq partitionClosesByInstrumentGuard(m)
  BY <1>1 DEF Buying, FromCandidates
<1>4. OnlyExpiringBoth(m)
  BY <1>3, CandidatesOfBoth DEF OnlyExpiringBoth
<1>5. WindowIsKept(m)
  BY <1>3, CandidatesInWindow DEF WindowIsKept
<1>6. ReductionsAreOvernight(m) /\ SeedsAreFresh(m)
  BY <1>1 DEF ReductionsAreOvernight, SeedsAreFresh
<1> QED BY <1>2, <1>4, <1>5, <1>6 DEF Sound

LEMMA SelectSound ==
  ASSUME CyclesSound, NEW c \in Cycles, Select(c)
  PROVE  GoesSound(c)
<1> DEFINE l == cycle[c]
<1>0. l \in Locals /\ Sound(l) /\ l.pc = "select"
  BY DEF CyclesSound, Select, At
<1>1. PICK buys \in SUBSET ManageCandidates(l) :
        Goes(c, [Local(c, "close") EXCEPT
          !.todo = partitionClosesByInstrumentGuard(l), !.buys = buys])
  BY DEF Select
<1> DEFINE T == partitionClosesByInstrumentGuard(l)
           m == [Local(c, "close") EXCEPT !.todo = T, !.buys = buys]
<1>2. T \subseteq Groups /\ buys \subseteq Groups
  BY DEF partitionClosesByInstrumentGuard, CloseCandidates, ManageCandidates, Actionable
<1>3. m \in Locals
  <2> HIDE DEF T
  <2> QED BY <1>0, <1>2 DEF Locals, Local, Steps
<1>4. /\ m.pc = "close" /\ m.todo = T /\ m.buys = buys /\ m.plan = l.plan /\ m.seen = l.seen
      /\ m.at = l.at /\ m.strong = l.strong /\ m.closed = l.closed /\ m.bought = l.bought
      /\ m.reduced = l.reduced /\ m.seeded = l.seeded
  <2> HIDE DEF T
  <2> QED BY <1>0 DEF Local, Locals
<1>5. Goes(c, m)
  BY <1>1
<1>6. /\ l.closed = {} /\ l.bought = {} /\ l.reduced = {} /\ l.seeded = {} /\ DecidedOnHeld(l)
  BY <1>0 DEF Sound, InOrder, EarlySteps
<1> HIDE DEF m
<1>7. Closing(m) = T /\ ManageCandidates(m) = ManageCandidates(l)
      /\ partitionClosesByInstrumentGuard(m) = T
  BY <1>4, <1>6, CandidatesKept DEF Closing
<1> HIDE DEF T, l
<1>8. FromCandidates(m) /\ DecidedOnHeld(m) /\ m.pc \in ClosingSteps
  BY <1>4, <1>6, <1>7 DEF FromCandidates, DecidedOnHeld, ClosingSteps
<1>9. Sound(m)
  BY <1>3, <1>4, <1>6, <1>8, ClosingSound
<1> QED BY <1>3, <1>5, <1>9 DEF GoesSound

LEMMA CloseSound ==
  ASSUME CyclesSound, NEW c \in Cycles, NEW g \in Groups, CloseGroup(c, g)
  PROVE  GoesSound(c)
<1> DEFINE l == cycle[c]
<1>0. l \in Locals /\ Sound(l) /\ l.pc = "close" /\ g \in l.todo
  BY DEF CyclesSound, CloseGroup, At
<1>1. ASSUME NEW C \in {l.closed, l.closed \cup {g}},
             Goes(c, [l EXCEPT !.todo = @ \ {g}, !.closed = C])
      PROVE  GoesSound(c)
  <2> DEFINE m == [l EXCEPT !.todo = @ \ {g}, !.closed = C]
  <2>1. m \in Locals
    BY <1>0 DEF Locals
  <2>2. /\ m.pc = "close" /\ m.todo = l.todo \ {g} /\ m.closed = C /\ m.buys = l.buys
        /\ m.plan = l.plan /\ m.seen = l.seen
        /\ m.at = l.at /\ m.strong = l.strong /\ m.bought = l.bought
        /\ m.reduced = l.reduced /\ m.seeded = l.seeded
    BY <1>0 DEF Locals
  <2>3. Goes(c, m)
    BY <1>1
  <2> HIDE DEF m, l
  <2>4. /\ DecidedOnHeld(l) /\ FromCandidates(l)
        /\ l.bought = {} /\ l.reduced = {} /\ l.seeded = {}
    BY <1>0 DEF Sound, InOrder, ClosingSteps
  <2>5. Closing(m) \subseteq Closing(l)
    BY <1>0, <2>2 DEF Closing
  <2>6. FromCandidates(m) /\ DecidedOnHeld(m) /\ m.pc \in ClosingSteps
    BY <1>0, <2>2, <2>4, <2>5, CandidatesKept DEF FromCandidates, DecidedOnHeld, ClosingSteps
  <2>7. Sound(m)
    BY <2>1, <2>2, <2>4, <2>6, ClosingSound
  <2> QED BY <2>1, <2>3, <2>7 DEF GoesSound
<1>2. CASE Goes(c, [l EXCEPT !.todo = @ \ {g}, !.closed = @ \cup {g}])
  BY <1>1, <1>2
<1>3. CASE Goes(c, [l EXCEPT !.todo = @ \ {g}])
  <2>1. [l EXCEPT !.todo = @ \ {g}, !.closed = l.closed] = [l EXCEPT !.todo = @ \ {g}]
    BY <1>0 DEF Locals
  <2> QED BY <1>1, <1>3, <2>1
<1> QED BY <1>2, <1>3 DEF CloseGroup

LEMMA ClosesDoneSound ==
  ASSUME CyclesSound, NEW c \in Cycles, ClosesDone(c)
  PROVE  GoesSound(c)
<1> DEFINE l == cycle[c]
           m == Local(c, "record")
<1>0. l \in Locals /\ Sound(l) /\ l.pc = "close" /\ l.todo = {}
  BY DEF CyclesSound, ClosesDone, At
<1>1. m \in Locals
  BY <1>0 DEF Locals, Local, Steps
<1>2. /\ m.pc = "record" /\ m.closed = l.closed /\ m.buys = l.buys
      /\ m.plan = l.plan /\ m.seen = l.seen
      /\ m.at = l.at /\ m.strong = l.strong /\ m.bought = l.bought
      /\ m.reduced = l.reduced /\ m.seeded = l.seeded
  BY <1>0 DEF Locals, Local
<1>3. Goes(c, m)
  BY DEF ClosesDone
<1> HIDE DEF m, l
<1>4. /\ DecidedOnHeld(l) /\ FromCandidates(l)
      /\ l.bought = {} /\ l.reduced = {} /\ l.seeded = {}
  BY <1>0 DEF Sound, InOrder, ClosingSteps
<1>5. Closing(m) \subseteq Closing(l)
  BY <1>0, <1>2 DEF Closing
<1>6. FromCandidates(m) /\ DecidedOnHeld(m) /\ m.pc \in ClosingSteps
  BY <1>0, <1>2, <1>4, <1>5, CandidatesKept DEF FromCandidates, DecidedOnHeld, ClosingSteps
<1>7. Sound(m)
  BY <1>1, <1>2, <1>4, <1>6, ClosingSound
<1> QED BY <1>1, <1>3, <1>7 DEF GoesSound

\* After the closes: what remains to hold of the later steps.
LEMMA LaterSound ==
  ASSUME NEW m, m.pc \notin EarlySteps \cup ClosingSteps, DecidedOnHeld(m), InOrder(m),
         OnlyExpiringBoth(m), WindowIsKept(m), ReductionsAreOvernight(m), SeedsAreFresh(m)
  PROVE  Sound(m)
BY DEF Sound, FromCandidates

LEMMA RecordSound ==
  ASSUME CyclesSound, NEW c \in Cycles, RecordCloses(c)
  PROVE  GoesSound(c)
<1> DEFINE l == cycle[c]
           m == [Local(c, "manage") EXCEPT !.todo = l.buys, !.buys = {}, !.plan = NoPlan]
<1>0. l \in Locals /\ Sound(l) /\ l.pc = "record"
  BY DEF CyclesSound, RecordCloses, At
<1>1. m \in Locals
  <2>1. NoPlan \in [Groups -> Actions]
    BY DEF NoPlan, Actions
  <2> HIDE DEF NoPlan
  <2> QED BY <1>0, <2>1 DEF Locals, Local, Steps
<1>2. /\ m.pc = "manage" /\ m.todo = l.buys /\ m.buys = {} /\ m.plan = NoPlan
      /\ m.closed = l.closed /\ m.at = l.at /\ m.strong = l.strong /\ m.bought = l.bought
      /\ m.reduced = l.reduced /\ m.seeded = l.seeded
  BY <1>0 DEF Locals, Local
<1>3. Goes(c, m)
  BY DEF RecordCloses
<1> HIDE DEF m, l
<1>4. l.bought = {} /\ l.reduced = {} /\ l.seeded = {}
  BY <1>0 DEF Sound, InOrder, ClosingSteps
<1>5. m.pc \notin EarlySteps \cup ClosingSteps
  BY <1>2 DEF EarlySteps, ClosingSteps
<1>6. Buying(m) = Buying(l) /\ Closing(m) = Closing(l)
  BY <1>0, <1>2, <1>4 DEF Buying, Closing
<1>7. InOrder(m) /\ DecidedOnHeld(m)
  BY <1>2, <1>4, <1>5 DEF InOrder, DecidedOnHeld, NoPlan
<1>8. OnlyExpiringBoth(m) /\ WindowIsKept(m)
  BY <1>0, <1>2, <1>6 DEF Sound, OnlyExpiringBoth, WindowIsKept
<1>9. ReductionsAreOvernight(m) /\ SeedsAreFresh(m)
  BY <1>2, <1>4 DEF ReductionsAreOvernight, SeedsAreFresh
<1>10. Sound(m)
  BY <1>5, <1>7, <1>8, <1>9, LaterSound
<1> QED BY <1>1, <1>3, <1>10 DEF GoesSound

LEMMA ManageSound ==
  ASSUME CyclesSound, NEW c \in Cycles, NEW g \in Groups, ManageGroup(c, g)
  PROVE  GoesSound(c)
<1> DEFINE l == cycle[c]
<1>0. l \in Locals /\ Sound(l) /\ l.pc = "manage" /\ g \in l.todo
  BY DEF CyclesSound, ManageGroup, At
<1>1. ASSUME NEW B \in {l.bought, l.bought \cup {g}},
             Goes(c, [l EXCEPT !.todo = @ \ {g}, !.bought = B])
      PROVE  GoesSound(c)
  <2> DEFINE m == [l EXCEPT !.todo = @ \ {g}, !.bought = B]
  <2>1. m \in Locals
    BY <1>0 DEF Locals
  <2>2. /\ m.pc = "manage" /\ m.todo = l.todo \ {g} /\ m.bought = B /\ m.buys = l.buys
        /\ m.plan = l.plan /\ m.seen = l.seen /\ m.closed = l.closed
        /\ m.at = l.at /\ m.strong = l.strong
        /\ m.reduced = l.reduced /\ m.seeded = l.seeded
    BY <1>0 DEF Locals
  <2>3. Goes(c, m)
    BY <1>1
  <2> HIDE DEF m, l
  <2>4. m.pc \notin EarlySteps \cup ClosingSteps
    BY <2>2 DEF EarlySteps, ClosingSteps
  <2>5. Buying(m) \subseteq Buying(l) /\ Closing(m) = Closing(l)
    BY <1>0, <2>2 DEF Buying, Closing
  <2>6. InOrder(m) /\ DecidedOnHeld(m)
    BY <1>0, <2>2, <2>4 DEF Sound, InOrder, DecidedOnHeld
  <2>7. OnlyExpiringBoth(m) /\ WindowIsKept(m)
    BY <1>0, <2>2, <2>5 DEF Sound, OnlyExpiringBoth, WindowIsKept
  <2>8. l.reduced = {} /\ l.seeded = {}
    BY <1>0 DEF Sound, InOrder
  <2>9. ReductionsAreOvernight(m) /\ SeedsAreFresh(m)
    BY <2>2, <2>8 DEF ReductionsAreOvernight, SeedsAreFresh
  <2>10. Sound(m)
    BY <2>4, <2>6, <2>7, <2>9, LaterSound
  <2> QED BY <2>1, <2>3, <2>10 DEF GoesSound
<1>2. CASE Goes(c, [l EXCEPT !.todo = @ \ {g}, !.bought = @ \cup {g}])
  BY <1>1, <1>2
<1>3. CASE Goes(c, [l EXCEPT !.todo = @ \ {g}])
  <2>1. [l EXCEPT !.todo = @ \ {g}, !.bought = l.bought] = [l EXCEPT !.todo = @ \ {g}]
    BY <1>0 DEF Locals
  <2> QED BY <1>1, <1>3, <2>1
<1> QED BY <1>2, <1>3 DEF ManageGroup

\* A later step that leaves alone what was closed and bought, and lists what a
\* phase of reductions or seeds may do.
LEMMA LaterStepSound ==
  ASSUME NEW l \in Locals, Sound(l), NEW m \in Locals,
         l.pc \notin EarlySteps \cup ClosingSteps,
         m.pc \in {"reduce", "seed", "seedPlace"},
         m.plan = l.plan, m.seen = l.seen, m.at = l.at, m.strong = l.strong,
         m.buys = l.buys, m.closed = l.closed, m.bought = l.bought,
         m.pc = "reduce" => m.seeded = {},
         ReductionsAreOvernight(m), SeedsAreFresh(m)
  PROVE  Sound(m)
<1>1. m.pc \notin EarlySteps \cup ClosingSteps \cup {"manage"}
  BY DEF EarlySteps, ClosingSteps
<1>2. InOrder(m) /\ DecidedOnHeld(m)
  BY <1>1 DEF Sound, InOrder, DecidedOnHeld
<1>3. Buying(m) \subseteq Buying(l) /\ Closing(m) \subseteq Closing(l)
  <2>1. l.buys = {} /\ m.pc # "close" /\ m.pc # "manage" /\ l.pc # "close"
    BY <1>1 DEF Sound, InOrder, EarlySteps, ClosingSteps
  <2> QED BY <2>1 DEF Buying, Closing
<1>4. OnlyExpiringBoth(m) /\ WindowIsKept(m)
  BY <1>3 DEF Sound, OnlyExpiringBoth, WindowIsKept
<1> QED BY <1>1, <1>2, <1>4, LaterSound

LEMMA ManageDoneSound ==
  ASSUME CyclesSound, NEW c \in Cycles, ManageDone(c)
  PROVE  GoesSound(c)
<1> DEFINE l == cycle[c]
           T == IF AccountType = "cash" /\ ~isPastCashCutoff(phase) /\ phase > 1
                THEN {g \in Groups : l.seen[g] > 0} ELSE {}
           m == [Local(c, "reduce") EXCEPT !.todo = T]
<1>0. l \in Locals /\ Sound(l) /\ l.pc = "manage"
  BY DEF CyclesSound, ManageDone, At
<1>1. T \subseteq Groups /\ (AccountType # "cash" => T = {}) /\ Goes(c, m)
  BY DEF ManageDone
<1> HIDE DEF T
<1>2. m \in Locals
  BY <1>0, <1>1 DEF Locals, Local, Steps
<1>3. /\ m.pc = "reduce" /\ m.todo = T
      /\ m.plan = l.plan /\ m.seen = l.seen /\ m.at = l.at /\ m.strong = l.strong
      /\ m.buys = l.buys /\ m.closed = l.closed /\ m.bought = l.bought
      /\ m.reduced = l.reduced /\ m.seeded = l.seeded
  BY <1>0 DEF Locals, Local
<1> HIDE DEF m, l
<1>4. l.reduced = {} /\ l.seeded = {} /\ l.pc \notin EarlySteps \cup ClosingSteps
  BY <1>0 DEF Sound, InOrder, EarlySteps, ClosingSteps
<1>5. ReductionsAreOvernight(m) /\ SeedsAreFresh(m)
  BY <1>1, <1>3, <1>4 DEF ReductionsAreOvernight, SeedsAreFresh
<1>6. Sound(m)
  BY <1>0, <1>2, <1>3, <1>4, <1>5, LaterStepSound
<1> QED BY <1>1, <1>2, <1>6 DEF GoesSound

LEMMA ReduceSound ==
  ASSUME CyclesSound, NEW c \in Cycles, NEW g \in Groups, ReduceGroup(c, g)
  PROVE  GoesSound(c)
<1> DEFINE l == cycle[c]
<1>0. l \in Locals /\ Sound(l) /\ l.pc = "reduce" /\ g \in l.todo
  BY DEF CyclesSound, ReduceGroup, At
<1>1. ASSUME NEW R \in {l.reduced, l.reduced \cup {g}}, R = l.reduced \/ Reducible(l, g),
             Goes(c, [l EXCEPT !.todo = @ \ {g}, !.reduced = R])
      PROVE  GoesSound(c)
  <2> DEFINE m == [l EXCEPT !.todo = @ \ {g}, !.reduced = R]
  <2>1. m \in Locals
    BY <1>0 DEF Locals
  <2>2. /\ m.pc = "reduce" /\ m.todo = l.todo \ {g} /\ m.reduced = R
        /\ m.plan = l.plan /\ m.seen = l.seen /\ m.at = l.at /\ m.strong = l.strong
        /\ m.buys = l.buys /\ m.closed = l.closed /\ m.bought = l.bought
        /\ m.seeded = l.seeded
    BY <1>0 DEF Locals
  <2>3. Goes(c, m)
    BY <1>1
  <2> HIDE DEF m, l
  <2>4. l.seeded = {} /\ l.pc \notin EarlySteps \cup ClosingSteps
    BY <1>0 DEF Sound, InOrder, EarlySteps, ClosingSteps
  <2>5. ReductionsAreOvernight(m)
    BY <1>0, <1>1, <2>2 DEF Sound, ReductionsAreOvernight, Reducible
  <2>6. SeedsAreFresh(m)
    BY <2>2, <2>4 DEF SeedsAreFresh
  <2>7. Sound(m)
    BY <1>0, <2>1, <2>2, <2>4, <2>5, <2>6, LaterStepSound
  <2> QED BY <2>1, <2>3, <2>7 DEF GoesSound
<1>2. CASE Reducible(l, g) /\ Goes(c, [l EXCEPT !.todo = @ \ {g}, !.reduced = @ \cup {g}])
  BY <1>1, <1>2
<1>3. CASE Goes(c, [l EXCEPT !.todo = @ \ {g}])
  <2>1. [l EXCEPT !.todo = @ \ {g}, !.reduced = l.reduced] = [l EXCEPT !.todo = @ \ {g}]
    BY <1>0 DEF Locals
  <2> QED BY <1>1, <1>3, <2>1
<1> QED BY <1>2, <1>3 DEF ReduceGroup

LEMMA ReducesDoneSound ==
  ASSUME CyclesSound, NEW c \in Cycles, ReducesDone(c)
  PROVE  GoesSound(c)
<1> DEFINE l == cycle[c]
           T == {g \in Groups : Openable(g)}
           m == [Local(c, "seed") EXCEPT !.todo = T]
<1>0. l \in Locals /\ Sound(l) /\ l.pc = "reduce"
  BY DEF CyclesSound, ReducesDone, At
<1>1. T \subseteq Groups /\ Goes(c, m)
  BY DEF ReducesDone
<1> HIDE DEF T
<1>2. m \in Locals
  BY <1>0, <1>1 DEF Locals, Local, Steps
<1>3. /\ m.pc = "seed"
      /\ m.plan = l.plan /\ m.seen = l.seen /\ m.at = l.at /\ m.strong = l.strong
      /\ m.buys = l.buys /\ m.closed = l.closed /\ m.bought = l.bought
      /\ m.reduced = l.reduced /\ m.seeded = l.seeded
  BY <1>0 DEF Locals, Local
<1> HIDE DEF m, l
<1>4. l.pc \notin EarlySteps \cup ClosingSteps /\ l.seeded = {}
  BY <1>0 DEF Sound, InOrder, EarlySteps, ClosingSteps
<1>5. ReductionsAreOvernight(m) /\ SeedsAreFresh(m)
  BY <1>0, <1>3, <1>4 DEF Sound, ReductionsAreOvernight, SeedsAreFresh
<1>6. Sound(m)
  BY <1>0, <1>2, <1>3, <1>4, <1>5, LaterStepSound
<1> QED BY <1>1, <1>2, <1>6 DEF GoesSound

LEMMA SeedSound ==
  ASSUME CyclesSound, NEW c \in Cycles,
         (\E g \in Groups : SeedChecks(c, g)) \/ SeedPlaces(c)
  PROVE  GoesSound(c)
<1> DEFINE l == cycle[c]
<1>0. l \in Locals /\ Sound(l) /\ l.pc \in {"seed", "seedPlace"}
  BY DEF CyclesSound, SeedChecks, SeedPlaces, At
<1>1. l.pc \notin EarlySteps \cup ClosingSteps
  BY <1>0 DEF EarlySteps, ClosingSteps
<1>2. SeedsAreFresh(l) /\ ReductionsAreOvernight(l)
  BY <1>0 DEF Sound
<1>3. ASSUME NEW m \in Locals, Goes(c, m), m.pc \in {"seed", "seedPlace"}, SeedsAreFresh(m),
             m.plan = l.plan, m.seen = l.seen, m.at = l.at, m.strong = l.strong,
             m.buys = l.buys, m.closed = l.closed, m.bought = l.bought, m.reduced = l.reduced
      PROVE  GoesSound(c)
  <2>1. ReductionsAreOvernight(m)
    BY <1>2, <1>3 DEF ReductionsAreOvernight
  <2>2. Sound(m)
    BY <1>0, <1>1, <1>3, <2>1, LaterStepSound
  <2> QED BY <1>3, <2>2 DEF GoesSound
<1>4. ASSUME NEW g \in Groups, SymbolOf(g) \notin excludedSeedSymbols(l),
             Goes(c, [Local(c, "seedPlace") EXCEPT !.todo = @ \ {g}, !.seed = g])
      PROVE  GoesSound(c)
  <2> DEFINE m == [Local(c, "seedPlace") EXCEPT !.todo = @ \ {g}, !.seed = g]
  <2>1. m \in Locals
    BY <1>0 DEF Locals, Local, Steps
  <2>2. /\ m.pc = "seedPlace" /\ m.seed = g
        /\ m.plan = l.plan /\ m.seen = l.seen /\ m.at = l.at /\ m.strong = l.strong
        /\ m.buys = l.buys /\ m.closed = l.closed /\ m.bought = l.bought
        /\ m.reduced = l.reduced /\ m.seeded = l.seeded
    BY <1>0 DEF Locals, Local
  <2>3. SeedsAreFresh(m)
    BY <1>2, <1>4, <2>2 DEF SeedsAreFresh, excludedSeedSymbols, ClosedSymbols
  <2> HIDE DEF m, l
  <2> QED BY <1>3, <1>4, <2>1, <2>2, <2>3 DEF m
<1>5. ASSUME NEW T, T \subseteq Groups, Goes(c, [l EXCEPT !.todo = T]), l.pc = "seed"
      PROVE  GoesSound(c)
  <2> DEFINE m == [l EXCEPT !.todo = T]
  <2>1. m \in Locals
    BY <1>0, <1>5 DEF Locals
  <2>2. /\ m.pc = "seed"
        /\ m.plan = l.plan /\ m.seen = l.seen /\ m.at = l.at /\ m.strong = l.strong
        /\ m.buys = l.buys /\ m.closed = l.closed /\ m.bought = l.bought
        /\ m.reduced = l.reduced /\ m.seeded = l.seeded
    BY <1>0, <1>5 DEF Locals
  <2>3. SeedsAreFresh(m)
    BY <1>2, <2>2 DEF SeedsAreFresh, ClosedSymbols
  <2> HIDE DEF m, l
  <2> QED BY <1>3, <1>5, <2>1, <2>2, <2>3 DEF m
<1>6. ASSUME NEW S \in {l.seeded, l.seeded \cup {l.seed}}, l.pc = "seedPlace",
             Goes(c, [Local(c, "seed") EXCEPT !.seeded = S])
      PROVE  GoesSound(c)
  <2> DEFINE m == [Local(c, "seed") EXCEPT !.seeded = S]
  <2>1. m \in Locals
    <3>1. l.seed \in Groups /\ l.seeded \subseteq Groups
      BY <1>0, <1>2, <1>6 DEF SeedsAreFresh, Locals
    <3>2. S \subseteq Groups
      BY <1>6, <3>1
    <3> QED BY <1>0, <3>2 DEF Locals, Local, Steps
  <2>2. /\ m.pc = "seed" /\ m.seeded = S
        /\ m.plan = l.plan /\ m.seen = l.seen /\ m.at = l.at /\ m.strong = l.strong
        /\ m.buys = l.buys /\ m.closed = l.closed /\ m.bought = l.bought
        /\ m.reduced = l.reduced
    BY <1>0 DEF Locals, Local
  <2>3. SeedsAreFresh(m)
    BY <1>2, <1>6, <2>2 DEF SeedsAreFresh, ClosedSymbols
  <2> HIDE DEF m, l
  <2> QED BY <1>3, <1>6, <2>1, <2>2, <2>3 DEF m
<1>7. CASE \E g \in Groups : SeedChecks(c, g)
  <2>1. PICK g \in Groups : SeedChecks(c, g)
    BY <1>7
  <2>2. l.todo \ {g} \subseteq Groups /\ l.pc = "seed"
    BY <1>0, <2>1 DEF Locals, SeedChecks, At
  <2>3. CASE Goes(c, [l EXCEPT !.todo = @ \ {g}])
    BY <1>5, <2>2, <2>3
  <2> QED BY <1>4, <2>1, <2>3 DEF SeedChecks
<1>8. CASE SeedPlaces(c)
  <2>1. l.pc = "seedPlace"
    BY <1>8 DEF SeedPlaces, At
  <2>2. CASE Goes(c, Local(c, "seed"))
    <3>1. [Local(c, "seed") EXCEPT !.seeded = l.seeded] = Local(c, "seed")
      BY <1>0 DEF Local, Locals
    <3> QED BY <1>6, <2>1, <2>2, <3>1
  <2>3. CASE Goes(c, [Local(c, "seed") EXCEPT !.seeded = @ \cup {l.seed}])
    <3>1. [Local(c, "seed") EXCEPT !.seeded = @ \cup {l.seed}]
            = [Local(c, "seed") EXCEPT !.seeded = l.seeded \cup {l.seed}]
      BY <1>0 DEF Local, Locals
    <3> QED BY <1>6, <2>1, <2>3, <3>1
  <2> QED BY <1>8, <2>2, <2>3 DEF SeedPlaces
<1> QED BY <1>7, <1>8

\* A cycle begins, lists the second time, ends or is thrown out of.
LEMMA ListSound ==
  ASSUME CyclesSound, NEW c \in Cycles, NEW from \in EarlySteps,
         NEW to \in {"sweep1", "sweep2"},
         SweepLists(c, from, to), Len(orders) \in Nat,
         \A i \in Ids : Working(i) => orders[i].group \in Groups
  PROVE  GoesSound(c)
<1> DEFINE l == cycle[c]
           L == {i \in Ids : Swept(i)}
           W == {j \in WorkingOf("overnight-reduction") :
                   orders[j].status = "live" /\ j \notin terminal}
           R == {SymbolOf(orders[i].group) : i \in W}
           m == [Local(c, to) EXCEPT !.list = L, !.swept = Len(orders), !.reducing = R]
<1>0. l \in Locals /\ Sound(l) /\ l.pc = from
  BY DEF CyclesSound, SweepLists, At
<1>1. Goes(c, m)
  BY DEF SweepLists
<1>2. L \subseteq Nat
  BY DEF Ids
<1>3. R \subseteq Symbols
  <2>1. \A i \in W : orders[i].group \in Groups
    BY DEF WorkingOf
  <2>2. \A g \in Groups : SymbolOf(g) \in Symbols
    BY DEF Groups, SymbolOf
  <2> HIDE DEF W
  <2> QED BY <2>1, <2>2
<1> HIDE DEF L, R
<1>4. m \in Locals
  BY <1>0, <1>2, <1>3 DEF Locals, Local, Steps
<1>5. /\ m.pc = to
      /\ m.plan = l.plan /\ m.seen = l.seen /\ m.at = l.at /\ m.strong = l.strong
      /\ m.buys = l.buys /\ m.closed = l.closed /\ m.bought = l.bought
      /\ m.reduced = l.reduced /\ m.seeded = l.seeded
  BY <1>0 DEF Locals, Local
<1>6. m.pc \in EarlySteps
  BY <1>5 DEF EarlySteps
<1> HIDE DEF m, l
<1>7. Sound(m)
  BY <1>0, <1>4, <1>5, <1>6, EarlySound
<1> QED BY <1>1, <1>4, <1>7 DEF GoesSound

LEMMA EndSound ==
  ASSUME CyclesSound, NEW c \in Cycles, CycleEnds(c) \/ CycleThrows(c)
  PROVE  GoesSound(c)
BY IdleSound DEF CycleEnds, CycleThrows, GoesSound

\* The other cycles stay where they are.
LEMMA OneCycleSound ==
  ASSUME CyclesSound, NEW c \in Cycles, GoesSound(c)
  PROVE  CyclesSound'
<1>1. PICK l \in Locals : Goes(c, l) /\ Sound(l)
  BY DEF GoesSound
<1>2. cycle' \in [Cycles -> Locals]
  BY <1>1 DEF CyclesSound, Goes
<1>3. ASSUME NEW d \in Cycles
      PROVE  Sound(cycle'[d])
  <2>1. CASE d = c
    BY <1>1, <2>1 DEF CyclesSound, Goes
  <2>2. CASE d # c
    BY <1>1, <2>2 DEF CyclesSound, Goes
  <2> QED BY <2>1, <2>2
<1> QED BY <1>2, <1>3 DEF CyclesSound

-----------------------------------------------------------------------------
(* The book.                                                               *)

WorkingOrder ==
  [status : {"live", "stuck"}, group : Groups, source : Sources, side : {"buy", "sell"},
   quantity : 1 .. MaxHeld]

Typed ==
  /\ orders \in Seq({Gone} \cup WorkingOrder) /\ Len(orders) <= MaxOrders
  /\ held \in [Groups -> 0 .. MaxHeld]
  /\ phase \in Phases
  /\ terminal \subseteq Ids
  /\ scaled \subseteq Groups /\ sold \subseteq Groups
  /\ CyclesSound
  /\ \A c \in Cycles : cycle[c].list \subseteq Ids /\ cycle[c].swept <= Len(orders)

LEMMA MinOfTwo ==
  ASSUME NEW a \in Int, NEW b \in Int
  PROVE  Min({a, b}) = IF a <= b THEN a ELSE b
<1>1. \E x \in {a, b} : \A y \in {a, b} : x <= y
  OBVIOUS
<1> QED BY <1>1 DEF Min

LEMMA MaxOfTwo ==
  ASSUME NEW a \in Int, NEW b \in Int
  PROVE  Max({a, b}) = IF a >= b THEN a ELSE b
<1>1. \E x \in {a, b} : \A y \in {a, b} : x >= y
  OBVIOUS
<1> QED BY <1>1 DEF Max

\* A set of ids has a least one.
LEMMA LeastId ==
  ASSUME NEW S \in SUBSET Nat, S # {}
  PROVE  Min(S) \in S
<1> DEFINE R == OpToRel(<, Nat)
<1>1. \A x, y \in S : <<y, x>> \notin R => x <= y
  BY DEF OpToRel
<1>2. PICK x \in S : \A y \in S : <<y, x>> \notin R
  <2>1. IsWellFoundedOn(R, Nat)
    BY NatLessThanWellFounded
  <2> HIDE DEF R
  <2> QED BY <2>1, WFMin
<1>3. PICK z \in S : \A y \in S : z <= y
  <2> HIDE DEF R
  <2> QED BY <1>1, <1>2
<1> QED BY <1>3 DEF Min

LEMMA BookFacts ==
  ASSUME Typed
  PROVE  /\ Len(orders) \in Nat /\ Ids = 1 .. Len(orders) /\ IsFiniteSet(Ids)
         /\ \A i \in Ids : orders[i] \in {Gone} \cup WorkingOrder
         /\ \A i \in Ids : Working(i) => orders[i] \in WorkingOrder
<1>1. Len(orders) \in Nat /\ Ids = 1 .. Len(orders)
  BY DEF Typed, Ids
<1>2. \A i \in Ids : orders[i] \in {Gone} \cup WorkingOrder
  BY <1>1 DEF Typed
<1>3. \A i \in Ids : Working(i) => orders[i] \in WorkingOrder
  BY <1>2 DEF Working, Gone
<1>4. IsFiniteSet(Ids)
  BY <1>1, FS_Interval
<1> QED BY <1>1, <1>2, <1>3, <1>4

\* An order of the book is replaced, by one that is over or by one that works.
LEMMA OneOrderChanged ==
  ASSUME Typed, NEW i \in Ids, NEW o \in {Gone} \cup WorkingOrder,
         orders' = [orders EXCEPT ![i] = o]
  PROVE  /\ orders' \in Seq({Gone} \cup WorkingOrder)
         /\ Len(orders') = Len(orders) /\ Ids' = Ids
         /\ orders'[i] = o /\ \A j \in Ids : j # i => orders'[j] = orders[j]
<1>1. orders \in Seq({Gone} \cup WorkingOrder) /\ i \in 1 .. Len(orders)
  BY DEF Typed, Ids
<1>2. orders' \in Seq({Gone} \cup WorkingOrder) /\ Len(orders') = Len(orders)
  BY <1>1
<1> QED BY <1>1, <1>2 DEF Ids

\* An order is placed.
LEMMA PlacedTyped ==
  ASSUME NEW g \in Groups, NEW source \in Sources, NEW side \in {"buy", "sell"},
         NEW n \in 1 .. MaxHeld
  PROVE  /\ Order(g, source, side, n) \in WorkingOrder
         /\ Order(g, source, side, n).group = g
         /\ Order(g, source, side, n).source = source
         /\ Order(g, source, side, n).side = side
         /\ Order(g, source, side, n).quantity = n
         /\ Order(g, source, side, n).status = "live"
BY DEF Order, WorkingOrder

LEMMA OneOrderPlaced ==
  ASSUME Typed, NEW g \in Groups, NEW source \in Sources, NEW side \in {"buy", "sell"},
         NEW n \in 1 .. MaxHeld, Places(g, source, side, n)
  PROVE  /\ orders' \in Seq({Gone} \cup WorkingOrder) /\ Len(orders') <= MaxOrders
         /\ Len(orders') = Len(orders) + 1 /\ Ids' = Ids \cup {Len(orders) + 1}
         /\ orders'[Len(orders) + 1] = Order(g, source, side, n)
         /\ \A j \in Ids : orders'[j] = orders[j] /\ j # Len(orders) + 1
<1> DEFINE o == Order(g, source, side, n)
<1>0. o \in WorkingOrder /\ orders' = Append(orders, o) /\ Len(orders) < MaxOrders
  BY PlacedTyped DEF Places
<1> HIDE DEF o
<1>1. orders \in Seq({Gone} \cup WorkingOrder) /\ Len(orders) \in Nat
  BY DEF Typed
<1>2. orders' \in Seq({Gone} \cup WorkingOrder) /\ Len(orders') = Len(orders) + 1
  BY <1>0, <1>1
<1>3. Ids' = 1 .. (Len(orders) + 1) /\ Ids = 1 .. Len(orders)
  BY <1>2 DEF Ids
<1>4. orders'[Len(orders) + 1] = o
  BY <1>0, <1>1
<1>5. \A j \in Ids : orders'[j] = orders[j] /\ j # Len(orders) + 1
  BY <1>0, <1>1, <1>3
<1>6. Len(orders') <= MaxOrders
  BY <1>0, <1>1, <1>2, RunCycleAssumption
<1> QED BY <1>2, <1>3, <1>4, <1>5, <1>6 DEF o

LEMMA SourcesOfCycles == SeedSource \in Sources
/\ {"bot", "overnight-reduction"} \subseteq Sources
BY DEF SeedSource, Sources, CycleSources

-----------------------------------------------------------------------------
(* Typed holds in every state.                                             *)

LEMMA InitTyped == Init => Typed
<1> SUFFICES ASSUME Init PROVE Typed
  OBVIOUS
<1>1. orders \in Seq({Gone} \cup WorkingOrder) /\ Len(orders) <= MaxOrders
  <2>1. CASE orders = <<>>
    BY <2>1, RunCycleAssumption
  <2>2. ASSUME NEW g \in Groups, NEW source \in Resting, orders = <<Order(g, source, "buy", 1)>>
        PROVE  orders \in Seq({Gone} \cup WorkingOrder) /\ Len(orders) <= MaxOrders
    <3> DEFINE o == Order(g, source, "buy", 1)
    <3>1. source \in Sources /\ 1 \in 1 .. MaxHeld /\ 1 <= MaxOrders
      BY RestingAssumption, RunCycleAssumption
    <3>2. o \in WorkingOrder
      BY <3>1, PlacedTyped
    <3> HIDE DEF o
    <3>3. <<o>> \in Seq({Gone} \cup WorkingOrder) /\ Len(<<o>>) = 1
      BY <3>2
    <3> QED BY <2>2, <3>1, <3>3 DEF o
  <2> QED BY <2>1, <2>2 DEF Init
<1>2. held \in [Groups -> 0 .. MaxHeld] /\ phase \in Phases
  BY RunCycleAssumption DEF Init, Phases
<1>3. Idle.list = {} /\ Idle.swept = 0
  BY DEF Idle
<1>4. \A c \in Cycles : cycle[c] = Idle
  BY DEF Init
<1>5. CyclesSound
  BY <1>4, IdleSound DEF Init, CyclesSound
<1>6. Len(orders) \in Nat
  BY <1>1
<1> QED BY <1>1, <1>2, <1>3, <1>4, <1>5, <1>6 DEF Init, Typed

\* What a cycle has listed and swept stays within the book.
ListedWithin(l, n) == l.list \subseteq 1 .. n /\ l.swept <= n

LEMMA CycleTyped ==
  ASSUME Typed, NEW c \in Cycles, GoesSound(c),
         orders' \in Seq({Gone} \cup WorkingOrder), Len(orders') <= MaxOrders,
         Len(orders) <= Len(orders'),
         held' = held, phase' = phase, terminal' \subseteq Ids,
         scaled' \subseteq Groups, sold' \subseteq Groups,
         \A l : Goes(c, l) => ListedWithin(l, Len(orders))
  PROVE  Typed'
<1>1. Len(orders) \in Nat /\ Len(orders') \in Nat /\ Ids \subseteq Ids'
  BY DEF Typed, Ids
<1>2. CyclesSound'
  BY OneCycleSound DEF Typed
<1>3. PICK l \in Locals : Goes(c, l) /\ ListedWithin(l, Len(orders))
  BY DEF GoesSound
<1>4. ASSUME NEW d \in Cycles
      PROVE  cycle'[d].list \subseteq Ids' /\ cycle'[d].swept <= Len(orders')
  <2>1. cycle'[d].list \subseteq Ids /\ cycle'[d].swept <= Len(orders)
    BY <1>3 DEF Goes, ListedWithin, Typed, CyclesSound, Ids
  <2>2. cycle'[d].swept \in Nat
    BY <1>2 DEF CyclesSound, Locals
  <2> QED BY <1>1, <2>1, <2>2
<1> QED BY <1>1, <1>2, <1>4 DEF Typed

\* The lists of a cycle are its own before and after.
LEMMA KeepsLists ==
  ASSUME Typed, NEW c \in Cycles, NEW m, Goes(c, m),
         m.list \subseteq cycle[c].list, m.swept = cycle[c].swept
  PROVE  \A l : Goes(c, l) => ListedWithin(l, Len(orders))
<1>1. ASSUME NEW l, Goes(c, l)
      PROVE  l = m
  BY <1>1 DEF Goes, Typed, CyclesSound
<1> QED BY <1>1 DEF ListedWithin, Typed, Ids

LEMMA SweepTyped ==
  ASSUME Typed, NEW c \in Cycles,
         \/ SweepLists(c, "idle", "sweep1") \/ SweepLists(c, "listing2", "sweep2")
         \/ SweepCancels(c) \/ SweepCancelFails(c)
         \/ SweepEnds(c, "sweep1", "snapshot") \/ SweepEnds(c, "sweep2", "select")
  PROVE  Typed'
<1>0. CyclesSound /\ Len(orders) \in Nat /\ Len(orders) <= MaxOrders
      /\ cycle[c] \in Locals /\ cycle[c].list \subseteq Ids
  BY BookFacts DEF Typed, CyclesSound
<1>1. ASSUME NEW from \in EarlySteps, NEW to \in {"sweep1", "sweep2"}, SweepLists(c, from, to)
      PROVE  Typed'
  <2>1. \A i \in Ids : Working(i) => orders[i].group \in Groups
    BY BookFacts DEF WorkingOrder
  <2>2. GoesSound(c)
    BY <1>0, <1>1, <2>1, ListSound
  <2>3. ASSUME NEW l, Goes(c, l)
        PROVE  ListedWithin(l, Len(orders))
    <3> DEFINE R == {SymbolOf(orders[i].group) : i \in {j \in WorkingOf("overnight-reduction") :
                       orders[j].status = "live" /\ j \notin terminal}}
               m == [Local(c, to) EXCEPT !.list = {i \in Ids : Swept(i)},
                                         !.swept = Len(orders), !.reducing = R]
    <3>1. Goes(c, m)
      BY <1>1 DEF SweepLists
    <3> HIDE DEF R
    <3>2. m.list = {i \in Ids : Swept(i)} /\ m.swept = Len(orders)
      BY <1>0 DEF Local, Locals
    <3> HIDE DEF m
    <3>3. l = m
      BY <2>3, <3>1 DEF Goes, Typed, CyclesSound
    <3> QED BY <1>0, <3>2, <3>3 DEF ListedWithin, Ids
  <2>4. terminal' \subseteq Ids /\ UNCHANGED <<orders, held, phase, scaled, sold>>
    BY <1>1 DEF SweepLists, Typed
  <2>5. scaled' \subseteq Groups /\ sold' \subseteq Groups /\ Len(orders) <= Len(orders')
        /\ orders' \in Seq({Gone} \cup WorkingOrder) /\ Len(orders') <= MaxOrders
    BY <1>0, <2>4 DEF Typed
  <2> QED BY <2>2, <2>3, <2>4, <2>5, CycleTyped
<1>2. CASE SweepCancels(c) \/ SweepCancelFails(c)
  <2> DEFINE i == Min(cycle[c].list)
             m == [cycle[c] EXCEPT !.list = @ \ {i}]
  <2>1. cycle[c].list \subseteq Ids /\ cycle[c].list \subseteq Nat
    BY <1>0, BookFacts
  <2>2. i \in Ids
    BY <1>0, <1>2, <2>1, LeastId DEF SweepCancels, SweepCancelFails
  <2>3. GoesSound(c)
    BY <1>0, <1>2, SweepSound
  <2>4. /\ Goes(c, m) /\ UNCHANGED <<held, phase, scaled, sold>>
        /\ terminal' \in {terminal, terminal \cup {i}}
        /\ orders' = orders \/ orders' = [orders EXCEPT ![i] = Gone]
    <3> HIDE DEF m
    <3>1. CASE SweepCancels(c)
      <4>1. Goes(c, m) /\ UNCHANGED <<held, phase, scaled, sold>>
            /\ terminal' \in {terminal, terminal \cup {i}}
            /\ orders' = [orders EXCEPT ![i] = IF @.status = "live" THEN Gone ELSE @]
        BY <3>1 DEF SweepCancels, m
      <4>2. [orders EXCEPT ![i] = orders[i]] = orders
        BY DEF Typed
      <4> QED BY <4>1, <4>2
    <3>2. CASE SweepCancelFails(c)
      BY <3>2 DEF SweepCancelFails, m
    <3> QED BY <1>2, <3>1, <3>2
  <2>5. m.list \subseteq cycle[c].list /\ m.swept = cycle[c].swept
    BY <1>0 DEF Locals
  <2> HIDE DEF m, i
  <2>6. orders' \in Seq({Gone} \cup WorkingOrder) /\ Len(orders') = Len(orders)
    BY <2>2, <2>4, OneOrderChanged DEF Typed
  <2>7. \A l : Goes(c, l) => ListedWithin(l, Len(orders))
    BY <2>4, <2>5, KeepsLists
  <2>8. scaled' \subseteq Groups /\ sold' \subseteq Groups /\ terminal' \subseteq Ids
    BY <2>2, <2>4 DEF Typed
  <2> QED BY <1>0, <2>3, <2>4, <2>6, <2>7, <2>8, CycleTyped
<1>3. CASE SweepEnds(c, "sweep1", "snapshot") \/ SweepEnds(c, "sweep2", "select")
  <2>1. GoesSound(c)
    BY <1>0, <1>3, SweepSound
  <2>2. PICK to \in {"snapshot", "select"} :
          Goes(c, Local(c, to)) /\ UNCHANGED <<orders, held, phase, terminal, scaled, sold>>
    BY <1>3 DEF SweepEnds
  <2>3. Local(c, to).list = cycle[c].list /\ Local(c, to).swept = cycle[c].swept
    BY <1>0 DEF Local, Locals
  <2>4. \A l : Goes(c, l) => ListedWithin(l, Len(orders))
    BY <2>2, <2>3, KeepsLists
  <2> QED BY <1>0, <2>1, <2>2, <2>4, CycleTyped DEF Typed
<1> QED BY <1>1, <1>2, <1>3 DEF EarlySteps

\* A step of a cycle that leaves the book alone.
LEMMA QuietTyped ==
  ASSUME Typed, NEW c \in Cycles, GoesSound(c),
         UNCHANGED <<orders, held, phase, terminal>>,
         scaled' \subseteq Groups, sold' \subseteq Groups,
         NEW m, Goes(c, m), m.list \subseteq cycle[c].list,
         m.swept = cycle[c].swept
  PROVE  Typed'
<1>1. \A l : Goes(c, l) => ListedWithin(l, Len(orders))
  BY KeepsLists
<1>2. orders' \in Seq({Gone} \cup WorkingOrder) /\ Len(orders') <= MaxOrders
      /\ Len(orders) <= Len(orders') /\ terminal' \subseteq Ids
      /\ held' = held /\ phase' = phase
  BY BookFacts DEF Typed
<1> QED BY <1>1, <1>2, CycleTyped

LEMMA PlacingTyped ==
  ASSUME Typed, NEW c \in Cycles, GoesSound(c),
         UNCHANGED <<held, phase, terminal, scaled>>, sold' \subseteq Groups,
         NEW m, Goes(c, m), m.list \subseteq cycle[c].list, m.swept = cycle[c].swept,
         NEW g \in Groups, NEW source \in Sources, NEW side \in {"buy", "sell"},
         NEW n \in 1 .. MaxHeld, Places(g, source, side, n)
  PROVE  Typed'
<1>1. \A l : Goes(c, l) => ListedWithin(l, Len(orders))
  BY KeepsLists
<1>2. orders' \in Seq({Gone} \cup WorkingOrder) /\ Len(orders') <= MaxOrders
      /\ Len(orders') = Len(orders) + 1 /\ Len(orders) \in Nat
  BY OneOrderPlaced, BookFacts
<1>3. terminal' \subseteq Ids /\ scaled' \subseteq Groups /\ held' = held /\ phase' = phase
      /\ Len(orders) <= Len(orders')
  BY <1>2 DEF Typed
<1> QED BY <1>1, <1>2, <1>3, CycleTyped

LEMMA DecideTyped ==
  ASSUME Typed, NEW c \in Cycles, Snapshot(c) \/ Select(c) \/ ClosesDone(c)
  PROVE  Typed'
<1> DEFINE l == cycle[c]
<1>0. CyclesSound /\ l \in Locals
  BY DEF Typed, CyclesSound
<1>1. GoesSound(c)
  BY <1>0, SnapshotSound, SelectSound, ClosesDoneSound DEF Typed
<1>2. UNCHANGED <<orders, held, phase, terminal, scaled, sold>>
  BY DEF Snapshot, Select, ClosesDone
<1>3. ASSUME NEW m, Goes(c, m), m.list = l.list, m.swept = l.swept
      PROVE  Typed'
  BY <1>1, <1>2, <1>3, QuietTyped DEF Typed
<1>4. CASE Snapshot(c)
  <2>1. PICK plan, strong :
          Goes(c, [Local(c, "listing2") EXCEPT
                     !.at = phase, !.seen = held, !.strong = strong, !.reducing = {},
                     !.plan = withOvernightCloseOverrides(plan)])
    BY <1>4 DEF Snapshot
  <2> DEFINE p == withOvernightCloseOverrides(plan)
             m == [Local(c, "listing2") EXCEPT
                     !.at = phase, !.seen = held, !.strong = strong, !.reducing = {},
                     !.plan = p]
  <2>2. Goes(c, m)
    BY <2>1
  <2> HIDE DEF p
  <2>3. m.list = l.list /\ m.swept = l.swept
    BY <1>0 DEF Local, Locals
  <2> HIDE DEF m, l
  <2> QED BY <1>3, <2>2, <2>3
<1>5. CASE Select(c)
  <2>1. PICK buys : Goes(c, [Local(c, "close") EXCEPT
          !.todo = partitionClosesByInstrumentGuard(cycle[c]), !.buys = buys])
    BY <1>5 DEF Select
  <2> DEFINE T == partitionClosesByInstrumentGuard(cycle[c])
             m == [Local(c, "close") EXCEPT !.todo = T, !.buys = buys]
  <2>2. Goes(c, m)
    BY <2>1
  <2> HIDE DEF T
  <2>3. m.list = l.list /\ m.swept = l.swept
    BY <1>0 DEF Local, Locals
  <2> HIDE DEF m, l
  <2> QED BY <1>3, <2>2, <2>3
<1>6. CASE ClosesDone(c)
  <2>1. Goes(c, Local(c, "record"))
    BY <1>6 DEF ClosesDone
  <2>2. Local(c, "record").list = l.list /\ Local(c, "record").swept = l.swept
    BY <1>0 DEF Local, Locals
  <2> QED BY <1>3, <2>1, <2>2
<1> QED BY <1>4, <1>5, <1>6

\* What a close sells is held, and at least one contract of it.
LEMMA CloseQuantityTyped ==
  ASSUME NEW l \in Locals, Sound(l), l.pc = "close", NEW g \in l.todo
  PROVE  CloseQuantity(l, g) \in 1 .. MaxHeld
<1>1. g \in CloseCandidates(l) /\ g \in Groups /\ l.seen[g] \in 0 .. MaxHeld
  BY DEF Sound, FromCandidates, Closing, ClosingSteps, partitionClosesByInstrumentGuard, Locals
<1>2. l.seen[g] > 0
  BY <1>1 DEF CloseCandidates, Sound, DecidedOnHeld
<1>3. Max({1, l.seen[g] \div 2}) \in 1 .. MaxHeld
  <2>1. l.seen[g] \div 2 \in Int /\ l.seen[g] \div 2 <= l.seen[g]
    BY <1>1, <1>2
  <2>2. Max({1, l.seen[g] \div 2}) = IF 1 >= l.seen[g] \div 2 THEN 1 ELSE l.seen[g] \div 2
    BY <2>1, MaxOfTwo
  <2> QED BY <1>1, <1>2, <2>1, <2>2, RunCycleAssumption
<1> QED BY <1>1, <1>2, <1>3, RunCycleAssumption DEF CloseQuantity

LEMMA CloseTyped ==
  ASSUME Typed, NEW c \in Cycles, NEW g \in Groups, CloseGroup(c, g)
  PROVE  Typed'
<1> DEFINE l == cycle[c]
<1>0. CyclesSound /\ l \in Locals /\ Sound(l) /\ l.pc = "close" /\ g \in l.todo
  BY DEF Typed, CyclesSound, CloseGroup, At
<1>1. GoesSound(c)
  BY <1>0, CloseSound
<1>2. UNCHANGED <<held, phase, terminal, scaled>>
  BY DEF CloseGroup
<1>3. CASE /\ Places(g, "bot", "sell", CloseQuantity(l, g))
           /\ sold' = IF IsPartial(l, g) THEN sold \cup {g} ELSE sold
           /\ Goes(c, [l EXCEPT !.todo = @ \ {g}, !.closed = @ \cup {g}])
  <2> DEFINE m == [l EXCEPT !.todo = @ \ {g}, !.closed = @ \cup {g}]
  <2>1. Goes(c, m) /\ m.list = l.list /\ m.swept = l.swept
    BY <1>0, <1>3 DEF Locals
  <2>2. CloseQuantity(l, g) \in 1 .. MaxHeld
    BY <1>0, CloseQuantityTyped
  <2>3. sold' \subseteq Groups
    BY <1>3 DEF Typed
  <2> HIDE DEF m, l
  <2> QED BY <1>1, <1>2, <1>3, <2>1, <2>2, <2>3, PlacingTyped, SourcesOfCycles DEF l
<1>4. CASE Goes(c, [l EXCEPT !.todo = @ \ {g}]) /\ UNCHANGED <<orders, sold>>
  <2> DEFINE m == [l EXCEPT !.todo = @ \ {g}]
  <2>1. Goes(c, m) /\ m.list = l.list /\ m.swept = l.swept
    BY <1>0, <1>4 DEF Locals
  <2> HIDE DEF m, l
  <2>2. scaled' \subseteq Groups /\ sold' \subseteq Groups
    BY <1>2, <1>4 DEF Typed
  <2> QED BY <1>1, <1>2, <1>4, <2>1, <2>2, QuietTyped DEF l
<1> QED BY <1>3, <1>4 DEF CloseGroup

LEMMA RecordTyped ==
  ASSUME Typed, NEW c \in Cycles, RecordCloses(c)
  PROVE  Typed'
<1> DEFINE l == cycle[c]
           m == [Local(c, "manage") EXCEPT !.todo = l.buys, !.buys = {}, !.plan = NoPlan]
<1>0. CyclesSound /\ l \in Locals
  BY DEF Typed, CyclesSound
<1>1. GoesSound(c)
  BY <1>0, RecordSound
<1>2. Goes(c, m) /\ m.list = l.list /\ m.swept = l.swept
  BY <1>0 DEF RecordCloses, Locals, Local
<1>3. /\ scaled' \subseteq Groups /\ sold' \subseteq Groups
      /\ UNCHANGED <<orders, held, phase, terminal>>
  BY DEF RecordCloses, ScaledAfter
<1> HIDE DEF m, l
<1> QED BY <1>1, <1>2, <1>3, QuietTyped DEF l

LEMMA ManageTyped ==
  ASSUME Typed, NEW c \in Cycles, (\E g \in Groups : ManageGroup(c, g)) \/ ManageDone(c)
  PROVE  Typed'
<1> DEFINE l == cycle[c]
<1>0. CyclesSound /\ l \in Locals
  BY DEF Typed, CyclesSound
<1>1. GoesSound(c)
  BY <1>0, ManageSound, ManageDoneSound
<1>2. UNCHANGED <<held, phase, terminal, scaled, sold>> /\ scaled' \subseteq Groups
      /\ sold' \subseteq Groups
  BY DEF ManageGroup, ManageDone, Typed
<1>3. ASSUME NEW g \in Groups, ManageGroup(c, g)
      PROVE  Typed'
  <2>1. CASE /\ Places(g, "bot", "buy", 1)
             /\ Goes(c, [l EXCEPT !.todo = @ \ {g}, !.bought = @ \cup {g}])
    <3> DEFINE m == [l EXCEPT !.todo = @ \ {g}, !.bought = @ \cup {g}]
    <3>1. Goes(c, m) /\ m.list = l.list /\ m.swept = l.swept
      BY <1>0, <2>1 DEF Locals
    <3>2. 1 \in 1 .. MaxHeld
      BY RunCycleAssumption
    <3> HIDE DEF m, l
    <3> QED BY <1>1, <1>2, <2>1, <3>1, <3>2, PlacingTyped, SourcesOfCycles DEF l
  <2>2. CASE Goes(c, [l EXCEPT !.todo = @ \ {g}]) /\ UNCHANGED orders
    <3> DEFINE m == [l EXCEPT !.todo = @ \ {g}]
    <3>1. Goes(c, m) /\ m.list = l.list /\ m.swept = l.swept
      BY <1>0, <2>2 DEF Locals
    <3> HIDE DEF m, l
    <3> QED BY <1>1, <1>2, <2>2, <3>1, QuietTyped DEF l
  <2> QED BY <1>3, <2>1, <2>2 DEF ManageGroup
<1>4. CASE ManageDone(c)
  <2> DEFINE T == IF AccountType = "cash" /\ ~isPastCashCutoff(phase) /\ phase > 1
                  THEN {g \in Groups : l.seen[g] > 0} ELSE {}
             m == [Local(c, "reduce") EXCEPT !.todo = T]
  <2>1. Goes(c, m) /\ UNCHANGED orders
    BY <1>4 DEF ManageDone
  <2> HIDE DEF T
  <2>2. m.list = l.list /\ m.swept = l.swept
    BY <1>0 DEF Locals, Local
  <2> HIDE DEF m, l
  <2> QED BY <1>1, <1>2, <2>1, <2>2, QuietTyped DEF l
<1> QED BY <1>3, <1>4

LEMMA ReduceTyped ==
  ASSUME Typed, NEW c \in Cycles, (\E g \in Groups : ReduceGroup(c, g)) \/ ReducesDone(c)
  PROVE  Typed'
<1> DEFINE l == cycle[c]
<1>0. CyclesSound /\ l \in Locals
  BY DEF Typed, CyclesSound
<1>1. GoesSound(c)
  BY <1>0, ReduceSound, ReducesDoneSound
<1>2. UNCHANGED <<held, phase, terminal, scaled, sold>> /\ scaled' \subseteq Groups
      /\ sold' \subseteq Groups
  BY DEF ReduceGroup, ReducesDone, Typed
<1>3. ASSUME NEW g \in Groups, ReduceGroup(c, g)
      PROVE  Typed'
  <2>1. ASSUME NEW n \in 1 .. l.seen[g], Places(g, "overnight-reduction", "sell", n),
               Goes(c, [l EXCEPT !.todo = @ \ {g}, !.reduced = @ \cup {g}])
        PROVE  Typed'
    <3> DEFINE m == [l EXCEPT !.todo = @ \ {g}, !.reduced = @ \cup {g}]
    <3>1. Goes(c, m) /\ m.list = l.list /\ m.swept = l.swept
      BY <1>0, <2>1 DEF Locals
    <3>2. n \in 1 .. MaxHeld
      BY <1>0, RunCycleAssumption DEF Locals
    <3> HIDE DEF m, l
    <3> QED BY <1>1, <1>2, <2>1, <3>1, <3>2, PlacingTyped, SourcesOfCycles DEF l
  <2>2. CASE Goes(c, [l EXCEPT !.todo = @ \ {g}]) /\ UNCHANGED orders
    <3> DEFINE m == [l EXCEPT !.todo = @ \ {g}]
    <3>1. Goes(c, m) /\ m.list = l.list /\ m.swept = l.swept
      BY <1>0, <2>2 DEF Locals
    <3> HIDE DEF m, l
    <3> QED BY <1>1, <1>2, <2>2, <3>1, QuietTyped DEF l
  <2> QED BY <1>3, <2>1, <2>2 DEF ReduceGroup
<1>4. CASE ReducesDone(c)
  <2> DEFINE m == [Local(c, "seed") EXCEPT !.todo = {g \in Groups : Openable(g)}]
  <2>1. Goes(c, m) /\ UNCHANGED orders /\ m.list = l.list /\ m.swept = l.swept
    BY <1>0, <1>4 DEF ReducesDone, Locals, Local
  <2> HIDE DEF m, l
  <2> QED BY <1>1, <1>2, <2>1, QuietTyped DEF l
<1> QED BY <1>3, <1>4

LEMMA SeedTyped ==
  ASSUME Typed, NEW c \in Cycles, (\E g \in Groups : SeedChecks(c, g)) \/ SeedPlaces(c)
  PROVE  Typed'
<1> DEFINE l == cycle[c]
<1>0. CyclesSound /\ l \in Locals /\ Sound(l)
  BY DEF Typed, CyclesSound
<1>1. GoesSound(c)
  BY <1>0, SeedSound
<1>2. UNCHANGED <<held, phase, terminal, scaled, sold>> /\ scaled' \subseteq Groups
      /\ sold' \subseteq Groups
  BY DEF SeedChecks, SeedPlaces, Typed
<1>3. ASSUME NEW m, Goes(c, m), m.list = l.list, m.swept = l.swept, UNCHANGED orders
      PROVE  Typed'
  BY <1>1, <1>2, <1>3, QuietTyped
<1>4. ASSUME NEW g \in Groups, SeedChecks(c, g)
      PROVE  Typed'
  <2>1. CASE Goes(c, [Local(c, "seedPlace") EXCEPT !.todo = @ \ {g}, !.seed = g])
    <3> DEFINE m == [Local(c, "seedPlace") EXCEPT !.todo = @ \ {g}, !.seed = g]
    <3>1. Goes(c, m) /\ m.list = l.list /\ m.swept = l.swept
      BY <1>0, <2>1 DEF Locals, Local
    <3> HIDE DEF m, l
    <3> QED BY <1>3, <1>4, <3>1 DEF SeedChecks
  <2>2. CASE Goes(c, [l EXCEPT !.todo = @ \ {g}])
    <3> DEFINE m == [l EXCEPT !.todo = @ \ {g}]
    <3>1. Goes(c, m) /\ m.list = l.list /\ m.swept = l.swept
      BY <1>0, <2>2 DEF Locals
    <3> HIDE DEF m, l
    <3> QED BY <1>3, <1>4, <3>1 DEF SeedChecks
  <2> QED BY <1>4, <2>1, <2>2 DEF SeedChecks
<1>5. CASE SeedPlaces(c)
  <2>1. CASE /\ Places(l.seed, SeedSource, "buy", 1)
             /\ Goes(c, [Local(c, "seed") EXCEPT !.seeded = @ \cup {l.seed}])
    <3> DEFINE m == [Local(c, "seed") EXCEPT !.seeded = @ \cup {l.seed}]
    <3>1. Goes(c, m) /\ m.list = l.list /\ m.swept = l.swept
      BY <1>0, <2>1 DEF Locals, Local
    <3>2. 1 \in 1 .. MaxHeld
      BY RunCycleAssumption
    <3>3. l.seed \in Groups
      BY <1>0, <1>5 DEF Sound, SeedsAreFresh, SeedPlaces, At
    <3> HIDE DEF m, l
    <3> QED BY <1>1, <1>2, <2>1, <3>1, <3>2, <3>3, PlacingTyped, SourcesOfCycles DEF l
  <2>2. CASE Goes(c, Local(c, "seed")) /\ UNCHANGED orders
    <3> DEFINE m == Local(c, "seed")
    <3>1. Goes(c, m) /\ m.list = l.list /\ m.swept = l.swept
      BY <1>0, <2>2 DEF Locals, Local
    <3> HIDE DEF m, l
    <3> QED BY <1>3, <2>2, <3>1
  <2> QED BY <1>5, <2>1, <2>2 DEF SeedPlaces
<1> QED BY <1>4, <1>5

LEMMA EndTyped ==
  ASSUME Typed, NEW c \in Cycles, CycleEnds(c) \/ CycleThrows(c)
  PROVE  Typed'
<1>1. GoesSound(c) /\ Goes(c, Idle) /\ UNCHANGED <<orders, held, phase, terminal, scaled, sold>>
  BY EndSound DEF Typed, CycleEnds, CycleThrows
<1>2. ASSUME NEW l, Goes(c, l)
      PROVE  ListedWithin(l, Len(orders))
  <2>1. l = Idle
    BY <1>1, <1>2 DEF Goes, Typed, CyclesSound
  <2> QED BY <2>1, BookFacts DEF Idle, ListedWithin
<1> QED BY <1>1, <1>2, CycleTyped, BookFacts DEF Typed

\* The broker's steps and the clock's.
LEMMA OutsideTyped ==
  ASSUME Typed,
         (\E i \in Ids : OrderFills(i) \/ OrderExpires(i) \/ OrderStalls(i)) \/ TimePasses
  PROVE  Typed'
<1>0. UNCHANGED <<terminal, scaled, sold, cycle>>
  BY DEF OrderFills, OrderExpires, OrderStalls, TimePasses
<1>1. CyclesSound'
  BY <1>0 DEF Typed, CyclesSound
<1>2. ASSUME NEW i \in Ids, OrderFills(i) \/ OrderExpires(i) \/ OrderStalls(i)
      PROVE  Typed'
  <2>1. orders[i] \in WorkingOrder
    BY <1>2, BookFacts DEF OrderFills, OrderExpires, OrderStalls
  <2>2. orders' \in Seq({Gone} \cup WorkingOrder) /\ Len(orders') = Len(orders)
    <3>1. CASE OrderFills(i) \/ OrderExpires(i)
      BY <3>1, OneOrderChanged DEF OrderFills, OrderExpires
    <3>2. CASE OrderStalls(i)
      <4> DEFINE o == [orders[i] EXCEPT !.status = IF @ = "live" THEN "stuck" ELSE "live"]
      <4>1. o \in WorkingOrder
        BY <2>1 DEF WorkingOrder
      <4>2. orders' = [orders EXCEPT ![i] = o]
        BY <3>2 DEF OrderStalls
      <4> HIDE DEF o
      <4> QED BY <4>1, <4>2, OneOrderChanged
    <3> QED BY <1>2, <3>1, <3>2
  <2>3. held' \in [Groups -> 0 .. MaxHeld] /\ phase' = phase
    <3>1. CASE OrderFills(i)
      <4> DEFINE o == orders[i]
      <4>1. o.group \in Groups /\ held[o.group] \in 0 .. MaxHeld /\ o.quantity \in 1 .. MaxHeld
        BY <2>1 DEF WorkingOrder, Typed
      <4>2. Min({MaxHeld, held[o.group] + o.quantity}) \in 0 .. MaxHeld
        BY <4>1, MinOfTwo, RunCycleAssumption
      <4>3. Max({0, held[o.group] - o.quantity}) \in 0 .. MaxHeld
        BY <4>1, MaxOfTwo, RunCycleAssumption
      <4> HIDE DEF o
      <4> QED BY <3>1, <4>1, <4>2, <4>3 DEF OrderFills, Typed, o
    <3>2. CASE OrderExpires(i) \/ OrderStalls(i)
      BY <3>2 DEF OrderExpires, OrderStalls, Typed
    <3> QED BY <1>2, <3>1, <3>2 DEF OrderFills
  <2> QED BY <1>0, <1>1, <2>2, <2>3 DEF Typed, Ids
<1>3. CASE TimePasses
  <2>1. phase' \in Phases /\ UNCHANGED <<orders, held>>
    BY <1>3, RunCycleAssumption DEF TimePasses, Typed, Phases
  <2> QED BY <1>0, <1>1, <2>1 DEF Typed, Ids
<1> QED BY <1>2, <1>3

LEMMA StepTyped == Typed /\ [Next]_vars => Typed'
<1> SUFFICES ASSUME Typed, [Next]_vars PROVE Typed'
  OBVIOUS
<1>1. ASSUME NEW c \in Cycles, Step(c)
      PROVE  Typed'
  BY <1>1, SweepTyped, DecideTyped, CloseTyped, RecordTyped, ManageTyped, ReduceTyped,
    SeedTyped,
     EndTyped DEF Step, CycleBegins
<1>2. CASE UNCHANGED vars
  BY <1>2 DEF vars, Typed, CyclesSound, Ids
<1> QED BY <1>1, <1>2, OutsideTyped DEF Next

LEMMA AlwaysTyped == Spec => []Typed
BY InitTyped, StepTyped, PTL DEF Spec

-----------------------------------------------------------------------------
(* What follows for every cycle.                                           *)

\* The state is well formed: what rests in the book are orders of the account's
\* groups for a quantity it can hold, and a cycle's lists are of such orders and
\* groups (run-cycle.ts and execute-position-evaluations.ts keep no more).
THEOREM TypeCorrect == Spec => []TypeOK
<1>1. Typed => TypeOK
  <2> SUFFICES ASSUME Typed PROVE TypeOK
    OBVIOUS
  <2>1. \A i \in Ids : Working(i) => orders[i] \in WorkingOrder
    BY BookFacts
  <2>2. ASSUME NEW c \in Cycles
        PROVE  /\ cycle[c].pc \in Steps
               /\ cycle[c].list \subseteq Ids /\ cycle[c].swept \in 0 .. MaxOrders
               /\ cycle[c].todo \subseteq Groups /\ cycle[c].closed \subseteq Groups
    <3>1. cycle[c] \in Locals /\ cycle[c].list \subseteq Ids /\ cycle[c].swept <= Len(orders)
          /\ Len(orders) <= MaxOrders /\ Len(orders) \in Nat
      BY BookFacts DEF Typed, CyclesSound
    <3> QED BY <3>1, RunCycleAssumption DEF Locals
  <2> QED BY <2>1, <2>2 DEF Typed, TypeOK, WorkingOrder
<1> QED BY <1>1, AlwaysTyped, PTL

\* A cycle that sells out of a group and adds to it does so only where the
\* zero-DTE breaker closes what expires today, whatever was decided on it, and
\* the additions were chosen from the decisions (the close and the manage list of
\* executePositionEvaluations are not checked against each other).
RoundTripsExpireToday == \A c \in Cycles :
                         cycle[c].bought \cap cycle[c].closed \subseteq Expiring

THEOREM OnlyTheBreakerRoundTrips == Spec => []RoundTripsExpireToday
<1>1. ASSUME NEW l, OnlyExpiringBoth(l)
      PROVE  l.bought \cap l.closed \subseteq Expiring
  BY <1>1 DEF OnlyExpiringBoth, Buying, Closing
<1>2. Typed => RoundTripsExpireToday
  BY <1>1 DEF Typed, CyclesSound, Sound, RoundTripsExpireToday
<1> QED BY <1>2, AlwaysTyped, PTL

\* Where nothing expires today, and the run knows what was closed (a cash account,
\* or the map of the batch), no cycle sells out of a symbol and buys into it.
THEOREM NeverSellsAndBuys ==
  ASSUME AccountType = "cash" => ExpiringToday = {}, AccountType = "cash" \/ HasExclusions
  PROVE  Spec => []NoRoundTrip
<1>1. ASSUME Typed, NEW c \in Cycles
      PROVE  /\ cycle[c].bought \cap cycle[c].closed = {}
             /\ \A g \in cycle[c].seeded : SymbolOf(g) \notin ClosedSymbols(cycle[c])
  <2> DEFINE l == cycle[c]
  <2>1. OnlyExpiringBoth(l) /\ SeedsAreFresh(l)
    BY <1>1 DEF Typed, CyclesSound, Sound
  <2> HIDE DEF l
  <2>2. l.bought \cap l.closed = {}
    BY <2>1 DEF OnlyExpiringBoth, Buying, Closing, Expiring
  <2>3. \A g \in l.seeded : SymbolOf(g) \notin ClosedSymbols(l)
    BY <2>1 DEF SeedsAreFresh
  <2> QED BY <2>2, <2>3 DEF l
<1>2. Typed => NoRoundTrip
  BY <1>1 DEF NoRoundTrip, Typed, CyclesSound
<1> QED BY <1>2, AlwaysTyped, PTL

\* A cycle that decided within the reduction window never adds to a position it
\* reduces, however many cycles run and whatever throws.
THEOREM NeverFlipFlops == Spec => []NoFlipFlop
<1>1. ASSUME NEW l, WindowIsKept(l), ReductionsAreOvernight(l),
             isInOvernightReductionWindow(l.at)
      PROVE  l.bought \cap l.reduced = {}
  <2>1. CASE AccountType = "cash"
    BY <1>1, <2>1 DEF WindowIsKept, ReductionsAreOvernight, Buying
  <2>2. CASE AccountType # "cash"
    BY <1>1, <2>2 DEF ReductionsAreOvernight
  <2> QED BY <2>1, <2>2
<1>2. Typed => NoFlipFlop
  BY <1>1 DEF Typed, CyclesSound, Sound, NoFlipFlop
<1> QED BY <1>2, AlwaysTyped, PTL

-----------------------------------------------------------------------------
(* Where each step of a cycle leads.                                       *)

LEMMA StepsLead ==
  ASSUME CyclesSound, NEW c \in Cycles
  PROVE  /\ \A from, to \in Steps : SweepLists(c, from, to) \/ SweepEnds(c, from, to) =>
              At(c, from) /\ At(c, to)'
         /\ SweepCancels(c) \/ SweepCancelFails(c) =>
              cycle[c].pc \in {"sweep1", "sweep2"} /\ cycle'[c].pc = cycle[c].pc
         /\ Snapshot(c) => At(c, "listing2")'
         /\ Select(c) => At(c, "close")'
         /\ \A g \in Groups :
              /\ CloseGroup(c, g) => At(c, "close")'
              /\ ManageGroup(c, g) => At(c, "manage")'
              /\ ReduceGroup(c, g) => At(c, "reduce")'
              /\ SeedChecks(c, g) => cycle'[c].pc \in {"seed", "seedPlace"}
         /\ ClosesDone(c) => At(c, "record")'
         /\ RecordCloses(c) => At(c, "manage")'
         /\ ManageDone(c) => At(c, "reduce")'
         /\ ReducesDone(c) => At(c, "seed")'
         /\ SeedPlaces(c) => At(c, "seed")'
         /\ CycleEnds(c) \/ CycleThrows(c) => cycle'[c] = Idle
<1>0. cycle[c] \in Locals /\ DOMAIN cycle = Cycles
  BY DEF CyclesSound
<1>1. \A l : Goes(c, l) => cycle'[c] = l
  BY <1>0 DEF Goes
<1>2. \A from, to \in Steps : SweepLists(c, from, to) \/ SweepEnds(c, from, to) =>
              At(c, from) /\ At(c, to)'
  <2> SUFFICES ASSUME NEW from \in Steps, NEW to \in Steps,
                      SweepLists(c, from, to) \/ SweepEnds(c, from, to)
               PROVE  At(c, from) /\ At(c, to)'
    OBVIOUS
  <2>1. CASE SweepEnds(c, from, to)
    BY <1>0, <1>1, <2>1 DEF SweepEnds, At, Local, Locals
  <2>2. CASE SweepLists(c, from, to)
    <3> DEFINE L == {i \in Ids : Swept(i)}
               R == {SymbolOf(orders[i].group) : i \in {j \in WorkingOf("overnight-reduction") :
                       orders[j].status = "live" /\ j \notin terminal}}
    <3>1. Goes(c, [Local(c, to) EXCEPT !.list = L, !.swept = Len(orders), !.reducing = R])
          /\ At(c, from)
      BY <2>2 DEF SweepLists
    <3> HIDE DEF L, R
    <3> QED BY <1>0, <1>1, <3>1 DEF At, Local, Locals
  <2> QED BY <2>1, <2>2
<1>3. SweepCancels(c) \/ SweepCancelFails(c) =>
        cycle[c].pc \in {"sweep1", "sweep2"} /\ cycle'[c].pc = cycle[c].pc
  BY <1>0, <1>1 DEF SweepCancels, SweepCancelFails, Locals
<1>4. Snapshot(c) => At(c, "listing2")'
  BY <1>0, <1>1 DEF Snapshot, At, Local, Locals
<1>5. Select(c) => At(c, "close")'
  BY <1>0, <1>1 DEF Select, At, Local, Locals
<1>6. ASSUME NEW g \in Groups
      PROVE  /\ CloseGroup(c, g) => At(c, "close")'
             /\ ManageGroup(c, g) => At(c, "manage")'
             /\ ReduceGroup(c, g) => At(c, "reduce")'
             /\ SeedChecks(c, g) => cycle'[c].pc \in {"seed", "seedPlace"}
  <2>1. CloseGroup(c, g) => At(c, "close")'
    BY <1>0, <1>1 DEF CloseGroup, At, Locals
  <2>2. ManageGroup(c, g) => At(c, "manage")'
    BY <1>0, <1>1 DEF ManageGroup, At, Locals
  <2>3. ReduceGroup(c, g) => At(c, "reduce")'
    BY <1>0, <1>1 DEF ReduceGroup, At, Locals
  <2>4. SeedChecks(c, g) => cycle'[c].pc \in {"seed", "seedPlace"}
    BY <1>0, <1>1 DEF SeedChecks, At, Local, Locals
  <2> QED BY <2>1, <2>2, <2>3, <2>4
<1>7. ClosesDone(c) => At(c, "record")'
  BY <1>0, <1>1 DEF ClosesDone, At, Local, Locals
<1>8. RecordCloses(c) => At(c, "manage")'
  BY <1>0, <1>1 DEF RecordCloses, At, Local, Locals
<1>9. ManageDone(c) => At(c, "reduce")'
  BY <1>0, <1>1 DEF ManageDone, At, Local, Locals
<1>10. ReducesDone(c) => At(c, "seed")'
  BY <1>0, <1>1 DEF ReducesDone, At, Local, Locals
<1>11. SeedPlaces(c) => At(c, "seed")'
  BY <1>0, <1>1 DEF SeedPlaces, At, Local, Locals
<1>12. CycleEnds(c) \/ CycleThrows(c) => cycle'[c] = Idle
  BY <1>0, <1>1 DEF CycleEnds, CycleThrows
<1> QED BY <1>2, <1>3, <1>4, <1>5, <1>6, <1>7, <1>8, <1>9, <1>10, <1>11, <1>12

-----------------------------------------------------------------------------
(* Runners.                                                                *)

Alone == \A c, d \in Cycles : c = d
OneSidePerSymbol == \A g, h \in Groups : SymbolOf(g) = SymbolOf(h) => g = h

\* Until a run records its closes, a group it closed in part is one a partial
\* close was placed for.
RunnerInv ==
  /\ scaled \subseteq sold
  /\ \A c \in Cycles : cycle[c].pc \in ClosingSteps =>
       \A g \in cycle[c].closed : IsPartial(cycle[c], g) => g \in sold

LEMMA RunnerStep ==
  ASSUME Alone, OneSidePerSymbol, Typed, RunnerInv, [Next]_vars
  PROVE  RunnerInv'
<1>1. ASSUME NEW c \in Cycles, scaled' \subseteq sold',
             cycle'[c].pc \in ClosingSteps =>
               \A g \in cycle'[c].closed : IsPartial(cycle'[c], g) => g \in sold'
      PROVE  RunnerInv'
  BY <1>1 DEF Alone, RunnerInv
<1>2. ASSUME NEW c \in Cycles, UNCHANGED <<scaled, sold>>, cycle'[c].pc \notin ClosingSteps
      PROVE  RunnerInv'
  BY <1>1, <1>2 DEF RunnerInv
<1>3. ASSUME NEW c \in Cycles, Step(c), UNCHANGED <<scaled, sold>>,
             ~Select(c), ~ClosesDone(c), \A g \in Groups : ~CloseGroup(c, g)
      PROVE  RunnerInv'
  <2>1. /\ Idle.pc = "idle"
        /\ {"idle", "sweep1", "sweep2", "snapshot", "select", "listing2"} \subseteq Steps
    BY DEF Idle, Steps
  <2>2. cycle'[c].pc \notin ClosingSteps
    BY <1>3, <2>1, StepsLead DEF Typed, Step, CycleBegins, At, ClosingSteps
  <2> QED BY <1>2, <1>3, <2>2
<1>4. ASSUME NEW c \in Cycles, Select(c)
      PROVE  RunnerInv'
  <2>1. cycle'[c].closed = {}
    <3> DEFINE T == partitionClosesByInstrumentGuard(cycle[c])
    <3>1. cycle[c] \in Locals /\ cycle[c].closed = {} /\ DOMAIN cycle = Cycles
      BY <1>4 DEF Typed, CyclesSound, Sound, InOrder, EarlySteps, Select, At
    <3>2. PICK buys : Goes(c, [Local(c, "close") EXCEPT !.todo = T, !.buys = buys])
      BY <1>4 DEF Select
    <3> HIDE DEF T
    <3> QED BY <3>1, <3>2 DEF Goes, Local, Locals
  <2>2. UNCHANGED <<scaled, sold>>
    BY <1>4 DEF Select
  <2> QED BY <1>1, <2>1, <2>2 DEF RunnerInv
<1>5. ASSUME NEW c \in Cycles, ClosesDone(c)
      PROVE  RunnerInv'
  <2>1. /\ cycle'[c].closed = cycle[c].closed /\ cycle'[c].plan = cycle[c].plan
        /\ cycle[c].pc \in ClosingSteps /\ UNCHANGED <<scaled, sold>>
    BY <1>5 DEF ClosesDone, Typed, CyclesSound, Goes, Local, Locals, At, ClosingSteps
  <2> QED BY <1>1, <2>1 DEF RunnerInv, IsPartial
<1>6. ASSUME NEW c \in Cycles, NEW g \in Groups, CloseGroup(c, g)
      PROVE  RunnerInv'
  <2> DEFINE l == cycle[c]
  <2>0. l \in Locals /\ l.pc \in ClosingSteps /\ UNCHANGED scaled /\ DOMAIN cycle = Cycles
    BY <1>6 DEF CloseGroup, Typed, CyclesSound, At, ClosingSteps
  <2>1. CASE /\ sold' = IF IsPartial(l, g) THEN sold \cup {g} ELSE sold
             /\ Goes(c, [l EXCEPT !.todo = @ \ {g}, !.closed = @ \cup {g}])
    <3>1. cycle'[c].closed = l.closed \cup {g} /\ cycle'[c].plan = l.plan
      BY <2>0, <2>1 DEF Goes, Locals
    <3> HIDE DEF l
    <3>2. \A h \in cycle'[c].closed : IsPartial(cycle'[c], h) => h \in sold'
      BY <2>0, <2>1, <3>1 DEF RunnerInv, IsPartial, l
    <3> QED BY <1>1, <2>0, <2>1, <3>2 DEF RunnerInv
  <2>2. CASE UNCHANGED sold /\ Goes(c, [l EXCEPT !.todo = @ \ {g}])
    <3>1. cycle'[c].closed = l.closed /\ cycle'[c].plan = l.plan
      BY <2>0, <2>2 DEF Goes, Locals
    <3> QED BY <1>1, <2>0, <2>2, <3>1 DEF RunnerInv, IsPartial
  <2> QED BY <1>6, <2>1, <2>2 DEF CloseGroup
<1>7. ASSUME NEW c \in Cycles, RecordCloses(c)
      PROVE  RunnerInv'
  <2> DEFINE l == cycle[c]
             open == {g \in Groups : l.seen[g] > 0}
             placed == {g \in partitionClosesByInstrumentGuard(l) :
                          SymbolOf(g) \in ClosedSymbols(l)}
  <2>0. l \in Locals /\ l.pc \in ClosingSteps /\ l.closed \subseteq Groups
    BY <1>7 DEF RecordCloses, Typed, CyclesSound, At, ClosingSteps, Locals
  <2>1. placed \subseteq l.closed
    BY <2>0 DEF OneSidePerSymbol, ClosedSymbols, partitionClosesByInstrumentGuard,
      CloseCandidates,
                Actionable
  <2>2. \A g \in placed : IsPartial(l, g) => g \in sold
    BY <2>0, <2>1 DEF RunnerInv
  <2>3. ScaledAfter(l) \subseteq sold \cap open
    <3>1. ScaledAfter(l) \subseteq (scaled \cup {g \in placed : IsPartial(l, g)}) \cap open
      BY DEF ScaledAfter
    <3> HIDE DEF placed, open
    <3> QED BY <2>2, <3>1 DEF RunnerInv
  <2>4. scaled' = ScaledAfter(l) /\ sold' = sold \cap open
    BY <1>7 DEF RecordCloses
  <2>5. cycle'[c].pc \notin ClosingSteps
    BY <1>7, StepsLead DEF Typed, At, ClosingSteps
  <2> QED BY <1>1, <2>3, <2>4, <2>5
<1>8. ASSUME NEW c \in Cycles, Step(c)
      PROVE  RunnerInv'
  <2>1. CASE \/ Select(c) \/ ClosesDone(c) \/ RecordCloses(c)
             \/ \E g \in Groups : CloseGroup(c, g)
    BY <1>4, <1>5, <1>6, <1>7, <2>1
  <2>2. CASE ~(\/ Select(c) \/ ClosesDone(c) \/ RecordCloses(c)
               \/ \E g \in Groups : CloseGroup(c, g))
    <3>1. UNCHANGED <<scaled, sold>>
      BY <1>8, <2>2 DEF Step, CycleBegins, SweepLists, SweepCancels, SweepCancelFails,
        SweepEnds,
         Snapshot, ManageGroup, ReduceGroup, SeedChecks, ManageDone, ReducesDone, SeedPlaces,
         CycleEnds, CycleThrows
    <3> QED BY <1>3, <1>8, <2>2, <3>1
  <2> QED BY <2>1, <2>2
<1>9. CASE ~\E c \in Cycles : Step(c)
  <2>1. UNCHANGED <<scaled, sold, cycle>>
    BY <1>9 DEF Next, vars, OrderFills, OrderExpires, OrderStalls, TimePasses
  <2> QED BY <2>1 DEF RunnerInv
<1> QED BY <1>8, <1>9

\* A row of the scale-out store always stands for a tranche that was placed for
\* sale, where one cycle runs at a time and a symbol has one group: the store is
\* written by symbol, after the closes (execute-position-evaluations.ts).
THEOREM RunnersSoldTheirTranche ==
  ASSUME Alone, OneSidePerSymbol
  PROVE  Spec => []RunnerSoldItsTranche
<1>1. Init => RunnerInv
  BY DEF Init, RunnerInv, Idle, ClosingSteps
<1>2. Typed /\ RunnerInv /\ [Next]_vars => RunnerInv'
  BY RunnerStep
<1>3. RunnerInv => RunnerSoldItsTranche
  BY DEF RunnerInv, RunnerSoldItsTranche
<1> QED BY <1>1, <1>2, <1>3, AlwaysTyped, PTL DEF Spec

-----------------------------------------------------------------------------
(* What a step does to the book.                                           *)

\* No order comes, and what changes is over.
Shrinks ==
  /\ Ids' = Ids
  /\ \A i \in Ids : orders'[i] = orders[i] \/ orders'[i] = Gone

\* One order comes.
Comes(g, source, side, n) ==
  /\ Ids' = Ids \cup {Len(orders) + 1} /\ Len(orders) + 1 \notin Ids
  /\ \A i \in Ids : orders'[i] = orders[i]
  /\ orders'[Len(orders) + 1] = Order(g, source, side, n)

\* What each step of a cycle may place.
PlacesInStep(c) ==
  \/ \E g \in cycle[c].todo :
       /\ CloseGroup(c, g) /\ Comes(g, "bot", "sell", CloseQuantity(cycle[c], g))
       /\ g \in partitionClosesByInstrumentGuard(cycle[c])
       /\ Goes(c, [cycle[c] EXCEPT !.todo = @ \ {g}, !.closed = @ \cup {g}])
       /\ CloseQuantity(cycle[c], g) \in 1 .. cycle[c].seen[g]
  \/ \E g \in Groups : ManageGroup(c, g) /\ Comes(g, "bot", "buy", 1)
  \/ \E g \in cycle[c].todo, n \in Nat :
       /\ ReduceGroup(c, g) /\ Reducible(cycle[c], g)
       /\ Comes(g, "overnight-reduction", "sell", n)
       /\ Goes(c, [cycle[c] EXCEPT !.todo = @ \ {g}, !.reduced = @ \cup {g}])
  \/ SeedPlaces(c) /\ \E g \in Groups : Comes(g, SeedSource, "buy", 1)

LEMMA PlacingComes ==
  ASSUME Typed, NEW g \in Groups, NEW source \in Sources, NEW side \in {"buy", "sell"},
         NEW n \in 1 .. MaxHeld, Places(g, source, side, n)
  PROVE  Comes(g, source, side, n)
<1>1. Len(orders) + 1 \notin Ids
  BY BookFacts
<1> QED BY <1>1, OneOrderPlaced DEF Comes

LEMMA ShrinksOne ==
  ASSUME Typed, orders' = orders \/ \E i \in Ids : orders' = [orders EXCEPT ![i] = Gone]
  PROVE  Shrinks
<1>1. ASSUME orders' = orders
      PROVE  Shrinks
  BY <1>1 DEF Shrinks, Ids
<1>2. ASSUME NEW i \in Ids, orders' = [orders EXCEPT ![i] = Gone]
      PROVE  Shrinks
  BY <1>2, OneOrderChanged DEF Shrinks
<1> QED BY <1>1, <1>2

LEMMA CancelShrinks ==
  ASSUME Typed, NEW c \in Cycles, SweepCancels(c) \/ SweepCancelFails(c)
  PROVE  /\ Min(cycle[c].list) \in cycle[c].list /\ Min(cycle[c].list) \in Ids
         /\ Shrinks
<1> DEFINE i == Min(cycle[c].list)
<1>0. cycle[c].list \subseteq Ids /\ cycle[c].list # {}
  BY DEF Typed, SweepCancels, SweepCancelFails
<1>1. cycle[c].list \subseteq Nat
  BY <1>0, BookFacts
<1>2. i \in cycle[c].list /\ i \in Ids
  BY <1>0, <1>1, LeastId
<1>3. orders' = orders \/ orders' = [orders EXCEPT ![i] = Gone]
  <2>1. CASE SweepCancels(c)
    <3>1. orders' = [orders EXCEPT ![i] = IF @.status = "live" THEN Gone ELSE @]
      BY <2>1 DEF SweepCancels
    <3>2. [orders EXCEPT ![i] = orders[i]] = orders
      BY DEF Typed
    <3> HIDE DEF i
    <3> QED BY <3>1, <3>2
  <2>2. CASE SweepCancelFails(c)
    BY <2>2 DEF SweepCancelFails
  <2> QED BY <2>1, <2>2
<1> HIDE DEF i
<1>4. Shrinks
  BY <1>2, <1>3, ShrinksOne
<1> QED BY <1>2, <1>4 DEF i

LEMMA StepBook ==
  ASSUME Typed, NEW c \in Cycles, Step(c)
  PROVE  Shrinks \/ PlacesInStep(c)
<1> DEFINE l == cycle[c]
<1>0. l \in Locals /\ Sound(l)
  BY DEF Typed, CyclesSound
<1>1. ASSUME orders' = orders
      PROVE  Shrinks
  BY <1>1, ShrinksOne
<1>2. ASSUME NEW g \in Groups, CloseGroup(c, g)
      PROVE  Shrinks \/ PlacesInStep(c)
  <2>1. CASE UNCHANGED orders
    BY <1>1, <2>1
  <2>2. CASE /\ Places(g, "bot", "sell", CloseQuantity(l, g))
             /\ Goes(c, [l EXCEPT !.todo = @ \ {g}, !.closed = @ \cup {g}])
    <3>1. g \in l.todo /\ l.pc = "close"
      BY <1>2 DEF CloseGroup, At
    <3>2. CloseQuantity(l, g) \in 1 .. MaxHeld
      BY <1>0, <3>1, CloseQuantityTyped
    <3>3. Comes(g, "bot", "sell", CloseQuantity(l, g))
      BY <2>2, <3>2, PlacingComes, SourcesOfCycles
    <3>4. g \in partitionClosesByInstrumentGuard(l)
      BY <1>0, <3>1 DEF Sound, FromCandidates, ClosingSteps, Closing
    <3>5. CloseQuantity(l, g) <= l.seen[g]
      <4>1. l.seen[g] \in 0 .. MaxHeld /\ l.seen[g] > 0
        BY <1>0, <3>4 DEF Locals, Sound, DecidedOnHeld, partitionClosesByInstrumentGuard,
                          CloseCandidates
      <4>2. l.seen[g] \div 2 \in Int /\ l.seen[g] \div 2 <= l.seen[g]
        BY <4>1
      <4>3. Max({1, l.seen[g] \div 2}) <= l.seen[g]
        BY <4>1, <4>2, MaxOfTwo
      <4> QED BY <4>1, <4>3 DEF CloseQuantity
    <3>6. CloseQuantity(l, g) \in 1 .. l.seen[g]
      <4>1. l.seen[g] \in Int
        BY <1>0 DEF Locals
      <4> HIDE DEF l
      <4> QED BY <3>2, <3>5, <4>1
    <3> QED BY <1>2, <2>2, <3>1, <3>3, <3>4, <3>6 DEF PlacesInStep
  <2> QED BY <1>2, <2>1, <2>2 DEF CloseGroup
<1>3. ASSUME NEW g \in Groups, ManageGroup(c, g)
      PROVE  Shrinks \/ PlacesInStep(c)
  <2>1. CASE UNCHANGED orders
    BY <1>1, <2>1
  <2>2. CASE Places(g, "bot", "buy", 1)
    <3>1. Comes(g, "bot", "buy", 1)
      BY <2>2, PlacingComes, SourcesOfCycles, RunCycleAssumption
    <3> QED BY <1>3, <3>1 DEF PlacesInStep
  <2> QED BY <1>3, <2>1, <2>2 DEF ManageGroup
<1>4. ASSUME NEW g \in Groups, ReduceGroup(c, g)
      PROVE  Shrinks \/ PlacesInStep(c)
  <2>1. CASE UNCHANGED orders
    BY <1>1, <2>1
  <2>2. ASSUME NEW n \in 1 .. l.seen[g], Reducible(l, g),
               Places(g, "overnight-reduction", "sell", n),
               Goes(c, [l EXCEPT !.todo = @ \ {g}, !.reduced = @ \cup {g}])
        PROVE  PlacesInStep(c)
    <3>1. n \in 1 .. MaxHeld /\ n \in Nat /\ g \in l.todo
      BY <1>0, <1>4, RunCycleAssumption DEF Locals, ReduceGroup
    <3>2. Comes(g, "overnight-reduction", "sell", n)
      BY <2>2, <3>1, PlacingComes, SourcesOfCycles
    <3> QED BY <1>4, <2>2, <3>1, <3>2 DEF PlacesInStep
  <2> QED BY <1>4, <2>1, <2>2 DEF ReduceGroup
<1>5. CASE SeedPlaces(c)
  <2>1. CASE UNCHANGED orders
    BY <1>1, <2>1
  <2>2. CASE Places(l.seed, SeedSource, "buy", 1)
    <3>1. l.seed \in Groups
      BY <1>0, <1>5 DEF SeedPlaces, At, Sound, SeedsAreFresh
    <3>2. Comes(l.seed, SeedSource, "buy", 1)
      BY <2>2, <3>1, PlacingComes, SourcesOfCycles, RunCycleAssumption
    <3> QED BY <1>5, <3>1, <3>2 DEF PlacesInStep
  <2> QED BY <1>5, <2>1, <2>2 DEF SeedPlaces
<1>6. CASE SweepCancels(c) \/ SweepCancelFails(c)
  BY <1>6, CancelShrinks
<1>7. CASE UNCHANGED orders
  BY <1>1, <1>7
<1> QED BY <1>2, <1>3, <1>4, <1>5, <1>6, <1>7
      DEF Step, CycleBegins, SweepLists, SweepEnds, Snapshot, Select, ClosesDone, RecordCloses,
          ManageDone, ReducesDone, SeedChecks, CycleEnds, CycleThrows

\* Where no order stalls, the broker's steps only end orders.
LEMMA OutsideShrinks ==
  ASSUME Typed, ~Flaky, [Next]_vars, ~\E c \in Cycles : Step(c)
  PROVE  Shrinks /\ UNCHANGED <<terminal, cycle>>
<1>1. ASSUME NEW i \in Ids, OrderFills(i) \/ OrderExpires(i)
      PROVE  Shrinks /\ UNCHANGED <<terminal, cycle>>
  BY <1>1, ShrinksOne DEF OrderFills, OrderExpires
<1>2. CASE TimePasses \/ UNCHANGED vars
  BY <1>2, ShrinksOne DEF TimePasses, vars
<1>3. \A i \in Ids : ~OrderStalls(i)
  BY DEF OrderStalls
<1> QED BY <1>1, <1>2, <1>3 DEF Next

\* An order that works after a step worked before it, or came with it.
LEMMA WorkingBefore ==
  ASSUME Shrinks
  PROVE  \A i \in Ids' : Working(i)' => i \in Ids /\ Working(i) /\ orders'[i] = orders[i]
BY DEF Shrinks, Working, Gone

LEMMA WorkingOrCame ==
  ASSUME Typed, NEW g \in Groups, NEW source, NEW side, NEW n, Comes(g, source, side, n)
  PROVE  \A i \in Ids' : Working(i)' =>
           \/ i \in Ids /\ Working(i) /\ orders'[i] = orders[i]
           \/ i \notin Ids /\ orders'[i].group = g /\ orders'[i].source = source
                /\ orders'[i].side = side /\ orders'[i].quantity = n
                /\ orders'[i].status = "live" /\ i = Len(orders) + 1
BY DEF Comes, Working, Order

-----------------------------------------------------------------------------
(* A broker that takes every cancel.                                       *)

\* What works can be cancelled, and what the sweep no longer looks at is over.
PromptBook ==
  /\ \A i \in Ids : Working(i) => orders[i].status = "live"
  /\ TerminalIsOver

LEMMA PromptStep ==
  ASSUME ~Flaky, Typed, PromptBook, [Next]_vars
  PROVE  PromptBook'
<1>0. Typed'
  BY StepTyped
<1>1. ASSUME Shrinks, \A i \in terminal' : i \in Ids /\ ~Working(i)'
      PROVE  PromptBook'
  <2>1. ASSUME NEW i \in Ids', Working(i)'
        PROVE  orders'[i].status = "live"
    BY <1>1, <2>1, WorkingBefore DEF PromptBook
  <2> QED BY <1>1, <2>1 DEF PromptBook, TerminalIsOver
<1>2. ASSUME Shrinks, terminal' = terminal
      PROVE  PromptBook'
  <2>1. \A i \in terminal : i \in Ids /\ ~Working(i)
    BY DEF Typed, PromptBook, TerminalIsOver
  <2>2. \A i \in terminal : i \in Ids'
    BY <1>2, <2>1 DEF Shrinks
  <2>3. \A i \in terminal' : i \in Ids /\ ~Working(i)'
    BY <1>2, <2>1, <2>2, WorkingBefore
  <2> QED BY <1>1, <1>2, <2>3
<1>3. ASSUME NEW c \in Cycles, Step(c)
      PROVE  PromptBook'
  <2>1. CASE SweepCancels(c)
    <3> DEFINE i == Min(cycle[c].list)
    <3>1. i \in Ids /\ Shrinks
      BY <2>1, CancelShrinks
    <3>2. terminal' = IF orders[i].status = "live" THEN terminal ELSE terminal \cup {i}
      BY <2>1 DEF SweepCancels
    <3> HIDE DEF i
    <3>3. CASE orders[i].status = "live"
      BY <1>2, <3>1, <3>2, <3>3
    <3>4. CASE orders[i].status # "live"
      <4>1. ~Working(i)
        BY <3>1, <3>4 DEF PromptBook
      <4>2. \A j \in terminal' : j \in Ids /\ ~Working(j)
        BY <3>1, <3>2, <4>1 DEF PromptBook, TerminalIsOver, Typed
      <4>3. \A j \in terminal' : j \in Ids /\ ~Working(j)'
        BY <3>1, <4>2, WorkingBefore DEF Shrinks
      <4> QED BY <1>1, <3>1, <4>3
    <3> QED BY <3>3, <3>4
  <2>2. CASE SweepLists(c, "idle", "sweep1") \/ SweepLists(c, "listing2", "sweep2")
    <3>1. orders' = orders /\ terminal' = terminal \cup {i \in Ids : orders[i].status = "stuck"}
      BY <2>2 DEF SweepLists
    <3>2. {i \in Ids : orders[i].status = "stuck"} = {}
      BY DEF PromptBook, Working
    <3>3. terminal' = terminal
      BY <3>1, <3>2
    <3> QED BY <1>2, <3>1, <3>3, ShrinksOne
  <2>3. ~SweepCancelFails(c)
    BY DEF SweepCancelFails
  <2>4. CASE terminal' = terminal
    <3>1. CASE Shrinks
      BY <1>2, <2>4, <3>1
    <3>2. ASSUME NEW g \in Groups, NEW source, NEW side, NEW n, Comes(g, source, side, n)
          PROVE  PromptBook'
      <4>1. \A i \in terminal' : i \in Ids /\ ~Working(i)
        BY <2>4 DEF Typed, PromptBook, TerminalIsOver
      <4>2. \A i \in terminal' : i \in Ids' /\ ~Working(i)'
        BY <3>2, <4>1, WorkingOrCame DEF Comes
      <4>3. ASSUME NEW i \in Ids', Working(i)'
            PROVE  orders'[i].status = "live"
        BY <3>2, <4>3, WorkingOrCame DEF PromptBook
      <4> QED BY <4>2, <4>3 DEF PromptBook, TerminalIsOver
    <3>3. cycle[c].todo \subseteq Groups
      BY DEF Typed, CyclesSound, Locals
    <3> QED BY <1>3, <3>1, <3>2, <3>3, StepBook DEF PlacesInStep
  <2> QED BY <1>3, <2>1, <2>2, <2>3, <2>4
        DEF Step, CycleBegins, SweepEnds, Snapshot, Select, CloseGroup, ClosesDone,
            RecordCloses, ManageGroup, ManageDone, ReduceGroup, ReducesDone, SeedChecks,
            SeedPlaces,
            CycleEnds, CycleThrows
<1> QED BY <1>2, <1>3, OutsideShrinks

LEMMA PromptInit == Init => PromptBook
<1> SUFFICES ASSUME Init PROVE PromptBook
  OBVIOUS
<1>1. CASE orders = <<>>
  BY <1>1 DEF Ids, PromptBook, TerminalIsOver, Init
<1>2. ASSUME NEW g \in Groups, NEW source \in Resting, orders = <<Order(g, source, "buy", 1)>>
      PROVE  PromptBook
  <2> DEFINE o == Order(g, source, "buy", 1)
  <2>1. o.status = "live"
    BY DEF Order
  <2> HIDE DEF o
  <2>2. orders = <<o>>
    BY <1>2 DEF o
  <2> QED BY <2>1, <2>2 DEF Ids, PromptBook, TerminalIsOver, Init
<1> QED BY <1>1, <1>2 DEF Init

LEMMA AlwaysPrompt == ~Flaky => (Spec => []PromptBook)
<1> SUFFICES ASSUME ~Flaky PROVE Spec => []PromptBook
  OBVIOUS
<1>1. Typed /\ PromptBook /\ [Next]_vars => PromptBook'
  BY PromptStep
<1> QED BY <1>1, PromptInit, AlwaysTyped, PTL DEF Spec

-----------------------------------------------------------------------------
(* One reduction.                                                          *)

Reductions == WorkingOf("overnight-reduction")

\* Between the second sweep, which protects the working reductions and notes the
\* symbols they work for, and its own reductions, a cycle knows of every one.
KnowsReductions(c) ==
  /\ cycle[c].pc \in {"sweep2", "select", "close", "record", "manage"} =>
       \A i \in Reductions : SymbolOf(orders[i].group) \in cycle[c].reducing
  /\ cycle[c].pc = "reduce" =>
       \A i \in Reductions : \/ SymbolOf(orders[i].group) \in cycle[c].reducing
                             \/ orders[i].group \notin cycle[c].todo

ReductionInv ==
  /\ \A i, j \in Reductions : orders[i].group = orders[j].group => i = j
  /\ \A c \in Cycles : KnowsReductions(c)

\* The steps that keep the symbols found working, and where they lead.
LEMMA ReducingKept ==
  ASSUME CyclesSound, NEW c \in Cycles, Step(c),
         cycle'[c].pc \in {"sweep2", "select", "close", "record", "manage", "reduce"},
         ~SweepLists(c, "listing2", "sweep2")
  PROVE  /\ cycle'[c].reducing = cycle[c].reducing
         /\ \/ cycle[c].pc \in {"sweep2", "select", "close", "record", "manage"}
            \/ cycle[c].pc = "reduce" /\ cycle'[c].pc = "reduce"
               /\ cycle'[c].todo \subseteq cycle[c].todo
<1> DEFINE l == cycle[c]
<1>0. l \in Locals /\ DOMAIN cycle = Cycles /\ Idle.pc = "idle"
      /\ {"idle", "sweep1", "snapshot", "listing2", "sweep2", "select"} \subseteq Steps
  BY DEF CyclesSound, Idle, Steps
<1>1. \A m : Goes(c, m) => cycle'[c] = m
  BY <1>0 DEF Goes
<1>2. CASE SweepCancels(c) \/ SweepCancelFails(c)
  <2>1. cycle'[c].reducing = l.reducing
    BY <1>0, <1>1, <1>2 DEF SweepCancels, SweepCancelFails, Locals
  <2>2. cycle'[c].pc = l.pc /\ l.pc \in {"sweep1", "sweep2"}
    BY <1>2, StepsLead
  <2> QED BY <2>1, <2>2
<1>3. CASE SweepEnds(c, "sweep2", "select")
  BY <1>0, <1>1, <1>3 DEF SweepEnds, Local, Locals, At
<1>4. CASE Select(c)
  <2> DEFINE T == partitionClosesByInstrumentGuard(l)
  <2>1. PICK buys : Goes(c, [Local(c, "close") EXCEPT !.todo = T, !.buys = buys])
    BY <1>4 DEF Select
  <2>2. l.pc = "select"
    BY <1>4 DEF Select, At
  <2> HIDE DEF T
  <2> QED BY <1>0, <1>1, <2>1, <2>2 DEF Local, Locals
<1>5. CASE \E g \in Groups : CloseGroup(c, g)
  BY <1>0, <1>1, <1>5 DEF CloseGroup, Locals, At
<1>6. CASE \E g \in Groups : ManageGroup(c, g)
  BY <1>0, <1>1, <1>6 DEF ManageGroup, Locals, At
<1>7. CASE \E g \in Groups : ReduceGroup(c, g)
  <2>1. PICK g \in Groups : ReduceGroup(c, g)
    BY <1>7
  <2>2. \/ Goes(c, [l EXCEPT !.todo = @ \ {g}, !.reduced = @ \cup {g}])
        \/ Goes(c, [l EXCEPT !.todo = @ \ {g}])
    BY <2>1 DEF ReduceGroup
  <2>3. l.pc = "reduce"
    BY <2>1 DEF ReduceGroup, At
  <2> QED BY ZenonT(30), <1>0, <1>1, <2>2, <2>3 DEF Locals
<1>8. CASE ClosesDone(c)
  BY <1>0, <1>1, <1>8 DEF ClosesDone, Local, Locals, At
<1>9. CASE RecordCloses(c)
  BY <1>0, <1>1, <1>9 DEF RecordCloses, Local, Locals, At
<1>10. CASE ManageDone(c)
  <2> DEFINE T == IF AccountType = "cash" /\ ~isPastCashCutoff(phase) /\ phase > 1
                  THEN {g \in Groups : l.seen[g] > 0} ELSE {}
  <2>1. Goes(c, [Local(c, "reduce") EXCEPT !.todo = T]) /\ l.pc = "manage"
    BY <1>10 DEF ManageDone, At
  <2> HIDE DEF T
  <2> QED BY <1>0, <1>1, <2>1 DEF Local, Locals
<1>11. CASE \/ SweepLists(c, "idle", "sweep1") \/ SweepEnds(c, "sweep1", "snapshot")
            \/ Snapshot(c)
            \/ (\E g \in Groups : SeedChecks(c, g)) \/ ReducesDone(c) \/ SeedPlaces(c)
            \/ CycleEnds(c) \/ CycleThrows(c)
  <2>1. cycle'[c].pc \in {"idle", "sweep1", "snapshot", "listing2", "seed", "seedPlace"}
    BY <1>0, <1>11, StepsLead DEF At
  <2> QED BY <2>1
<1> QED BY <1>2, <1>3, <1>4, <1>5, <1>6, <1>7, <1>8, <1>9, <1>10, <1>11 DEF Step, CycleBegins

LEMMA ReductionsShrink ==
  ASSUME Typed, Shrinks
  PROVE  \A i \in Reductions' : i \in Reductions /\ orders'[i] = orders[i]
BY WorkingBefore DEF Reductions, WorkingOf

LEMMA ReductionsKept ==
  ASSUME Typed, NEW g \in Groups, NEW source, NEW side, NEW n, Comes(g, source, side, n),
         source # "overnight-reduction"
  PROVE  \A i \in Reductions' : i \in Reductions /\ orders'[i] = orders[i]
BY WorkingOrCame DEF Reductions, WorkingOf

LEMMA ReductionStep ==
  ASSUME Alone, Typed, PromptBook, ReductionInv, [Next]_vars, ~Flaky
  PROVE  ReductionInv'
\* No reduction is placed.
<1>1. ASSUME \A i \in Reductions' : i \in Reductions /\ orders'[i] = orders[i],
             \A c \in Cycles : cycle' = cycle
             \/ (Step(c) /\ ~SweepLists(c, "listing2", "sweep2"))
      PROVE  ReductionInv'
  <2>1. \A i, j \in Reductions' : orders'[i].group = orders'[j].group => i = j
    BY <1>1 DEF ReductionInv
  <2>2. ASSUME NEW c \in Cycles
        PROVE  KnowsReductions(c)'
    <3>1. KnowsReductions(c)
      BY DEF ReductionInv
    <3>2. CASE cycle' = cycle
      BY <1>1, <3>1, <3>2 DEF KnowsReductions
    <3>3. CASE Step(c) /\ ~SweepLists(c, "listing2", "sweep2")
      BY <1>1, <3>1, <3>3, ReducingKept DEF KnowsReductions, Typed
    <3> QED BY <1>1, <3>2, <3>3
  <2> QED BY <2>1, <2>2 DEF ReductionInv
\* The second sweep lists.
<1>2. ASSUME NEW c \in Cycles, SweepLists(c, "listing2", "sweep2")
      PROVE  ReductionInv'
  <2> DEFINE W == {j \in Reductions : orders[j].status = "live" /\ j \notin terminal}
             L == {i \in Ids : Swept(i)}
             R == {SymbolOf(orders[i].group) : i \in W}
  <2>1. orders' = orders
        /\ Goes(c, [Local(c, "sweep2") EXCEPT !.list = L, !.swept = Len(orders),
             !.reducing = R])
    BY <1>2 DEF SweepLists, Reductions
  <2>2. Reductions \subseteq W
    BY DEF PromptBook, TerminalIsOver, Reductions, WorkingOf
  <2> HIDE DEF W
  <2>3. \A i \in Reductions : SymbolOf(orders[i].group) \in R
    BY <2>2
  <2> HIDE DEF L, R
  <2>4. cycle'[c].reducing = R /\ cycle'[c].pc = "sweep2"
    BY <2>1 DEF Goes, Local, Locals, Typed, CyclesSound
  <2>5. Reductions' = Reductions
    BY <2>1 DEF Reductions, WorkingOf, Ids, Working
  <2>6. KnowsReductions(c)'
    BY <2>1, <2>3, <2>4, <2>5 DEF KnowsReductions
  <2> QED BY <2>1, <2>5, <2>6 DEF ReductionInv, Alone
\* A reduction is placed.
<1>3. ASSUME NEW c \in Cycles, NEW g \in cycle[c].todo, NEW n \in Nat,
             ReduceGroup(c, g), Reducible(cycle[c], g),
             Comes(g, "overnight-reduction", "sell", n),
             Goes(c, [cycle[c] EXCEPT !.todo = @ \ {g}, !.reduced = @ \cup {g}])
      PROVE  ReductionInv'
  <2> DEFINE l == cycle[c]
             k == Len(orders) + 1
  <2>0. l \in Locals /\ l.pc = "reduce" /\ g \in Groups
    BY <1>3 DEF Typed, CyclesSound, ReduceGroup, At, Locals
  <2>1. KnowsReductions(c) /\ SymbolOf(g) \notin l.reducing
    BY <1>3 DEF ReductionInv, Reducible
  <2>2. \A i \in Reductions : orders[i].group # g
    BY <1>3, <2>0, <2>1 DEF KnowsReductions
  <2>3. \A i \in Reductions' : \/ i \in Reductions /\ orders'[i] = orders[i]
                               \/ i = k /\ orders'[i].group = g
    BY <1>3, <2>0, WorkingOrCame DEF Reductions, WorkingOf
  <2>4. cycle'[c].pc = "reduce" /\ cycle'[c].reducing = l.reducing
        /\ cycle'[c].todo = l.todo \ {g}
    BY <1>3, <2>0 DEF Goes, Typed, CyclesSound, Locals
  <2> HIDE DEF l, k
  <2>5. \A i, j \in Reductions' : orders'[i].group = orders'[j].group => i = j
    BY <2>2, <2>3 DEF ReductionInv
  <2>6. KnowsReductions(c)'
    BY <2>0, <2>1, <2>3, <2>4 DEF KnowsReductions, l
  <2> QED BY <2>5, <2>6 DEF ReductionInv, Alone
<1>4. ASSUME NEW c \in Cycles, Step(c), ~SweepLists(c, "listing2", "sweep2")
      PROVE  ReductionInv'
  <2>0. \A d \in Cycles : Step(d) /\ ~SweepLists(d, "listing2", "sweep2")
    BY <1>4 DEF Alone
  <2>1. CASE Shrinks
    BY <1>1, <2>0, <2>1, ReductionsShrink
  <2>2. ASSUME NEW g \in Groups, NEW source, NEW side, NEW n, Comes(g, source, side, n),
               source # "overnight-reduction"
        PROVE  ReductionInv'
    BY <1>1, <2>0, <2>2, ReductionsKept
  <2>3. SeedSource # "overnight-reduction" /\ cycle[c].todo \subseteq Groups
    BY DEF SeedSource, Typed, CyclesSound, Locals
  <2>4. CASE PlacesInStep(c)
    BY <1>3, <2>2, <2>3, <2>4 DEF PlacesInStep
  <2> QED BY <1>4, <2>1, <2>4, StepBook
<1>5. CASE ~\E c \in Cycles : Step(c)
  <2>1. Shrinks /\ cycle' = cycle
    BY <1>5, OutsideShrinks
  <2> QED BY <1>1, <2>1, ReductionsShrink
<1> QED BY <1>2, <1>4, <1>5

LEMMA ReductionInit == Init => ReductionInv
<1> SUFFICES ASSUME Init PROVE ReductionInv
  OBVIOUS
<1>1. Reductions = {}
  <2>1. CASE orders = <<>>
    BY <2>1 DEF Reductions, WorkingOf, Ids
  <2>2. ASSUME NEW g \in Groups, NEW source \in Resting, orders = <<Order(g, source, "buy", 1)>>
        PROVE  Reductions = {}
    <3> DEFINE o == Order(g, source, "buy", 1)
    <3>1. o.source # "overnight-reduction"
      BY RestingAssumption DEF Order, CycleSources
    <3> HIDE DEF o
    <3>2. orders = <<o>>
      BY <2>2 DEF o
    <3> QED BY <3>1, <3>2 DEF Reductions, WorkingOf, Ids
  <2> QED BY <2>1, <2>2 DEF Init
<1> QED BY <1>1 DEF ReductionInv, KnowsReductions

LEMMA OneReductionFollows == Typed /\ ReductionInv => OneReduction
<1> SUFFICES ASSUME Typed, ReductionInv, NEW g \in Groups
             PROVE  Cardinality({i \in Reductions : orders[i].group = g}) <= 1
  BY DEF OneReduction, Reductions
<1> DEFINE S == {i \in Reductions : orders[i].group = g}
<1> SUFFICES Cardinality(S) <= 1
  OBVIOUS
<1>1. \A i, j \in S : i = j
  BY DEF ReductionInv
<1>2. CASE S = {}
  BY <1>2, FS_EmptySet
<1>3. CASE S # {}
  <2>1. PICK i : S = {i}
    BY <1>1, <1>3
  <2>2. Cardinality({i}) = 1
    BY FS_Singleton
  <2> HIDE DEF S
  <2> QED BY <2>1, <2>2
<1> QED BY <1>2, <1>3

\* The sweep protects a working reduction, and the cycle that finds it protected
\* places no other: a group has one at most, whatever fills, expires, is cancelled
\* or throws, where one cycle runs at a time and an order can always be cancelled.
THEOREM OneReductionAtATime ==
  ASSUME Alone, ~Flaky
  PROVE  MCSpec => []OneReductionIfAlone
<1> DEFINE Inv == world = "alone" => Typed /\ PromptBook /\ ReductionInv
           all == <<vars, registryVars, world>>
<1>1. MCInit => Inv
  BY InitTyped, PromptInit, ReductionInit DEF MCInit
<1>2. Inv /\ [MCNext]_all => Inv'
  <2> SUFFICES ASSUME Inv, [MCNext]_all, world' = "alone"
               PROVE  Typed' /\ PromptBook' /\ ReductionInv'
    OBVIOUS
  <2>1. world = "alone" /\ [Next]_vars
    BY DEF MCNext
  <2> QED BY <2>1, StepTyped, PromptStep, ReductionStep
<1>3. Inv => OneReductionIfAlone
  BY OneReductionFollows DEF OneReductionIfAlone
<1> QED BY <1>1, <1>2, <1>3, PTL DEF MCSpec

-----------------------------------------------------------------------------
(* The sweep.                                                              *)

\* What the sweep is there to clear.
Sweepable(i) ==
  /\ Working(i) /\ isSweepEligibleSource(orders[i].source)
  /\ orders[i].source \notin ProtectedSources
  /\ orders[i].group \notin DoNotTouch

\* Of the orders the second sweep saw, it still has to cancel those that work,
\* and has cancelled them all when the cycle acts.
SweptInv == \A c \in Cycles :
  /\ At(c, "sweep2") =>
       \A i \in 1 .. cycle[c].swept : Sweepable(i) => i \in cycle[c].list
  /\ Acting(c) => \A i \in 1 .. cycle[c].swept : ~Sweepable(i)

\* What of the orders a cycle has seen can be swept could be before.
LEMMA SweepableBefore ==
  ASSUME Typed, NEW c \in Cycles,
         Shrinks \/ \E g, source, side, n : Comes(g, source, side, n)
  PROVE  \A i \in 1 .. cycle[c].swept : Sweepable(i)' => Sweepable(i)
<1>1. cycle[c].swept \in Nat /\ cycle[c].swept <= Len(orders) /\ Len(orders) \in Nat
  BY BookFacts DEF Typed, CyclesSound, Locals
<1>2. 1 .. cycle[c].swept \subseteq Ids
  BY <1>1 DEF Ids
<1>3. ASSUME NEW i \in Ids, Sweepable(i)'
      PROVE  Sweepable(i)
  <2>1. orders'[i] = orders[i] \/ orders'[i] = Gone
    BY <1>3 DEF Shrinks, Comes
  <2>2. orders'[i] # Gone
    BY <1>3 DEF Sweepable, Working, Gone
  <2> QED BY <1>3, <2>1, <2>2 DEF Sweepable, Working
<1> QED BY <1>2, <1>3

\* The steps under which a cycle acts on, with the orders its sweep saw.
LEMMA SweptKept ==
  ASSUME CyclesSound, NEW c \in Cycles, Step(c), Acting(c)', ~SweepEnds(c, "sweep2", "select")
  PROVE  Acting(c) /\ cycle'[c].swept = cycle[c].swept
<1> DEFINE l == cycle[c]
<1>0. l \in Locals /\ DOMAIN cycle = Cycles /\ Idle.pc = "idle"
      /\ {"idle", "sweep1", "snapshot", "listing2", "sweep2", "select"} \subseteq Steps
  BY DEF CyclesSound, Idle, Steps
<1>1. \A m : Goes(c, m) => cycle'[c] = m
  BY <1>0 DEF Goes
<1>2. CASE \/ SweepLists(c, "idle", "sweep1") \/ SweepLists(c, "listing2", "sweep2")
           \/ SweepCancels(c) \/ SweepCancelFails(c)
           \/ SweepEnds(c, "sweep1", "snapshot") \/ Snapshot(c) \/ CycleEnds(c)
                \/ CycleThrows(c)
  <2>1. cycle'[c].pc \in {"idle", "sweep1", "sweep2", "snapshot", "listing2"}
    BY <1>0, <1>2, StepsLead DEF At
  <2> QED BY <2>1 DEF Acting
<1>3. CASE Select(c)
  <2> DEFINE T == partitionClosesByInstrumentGuard(l)
  <2>1. PICK buys : Goes(c, [Local(c, "close") EXCEPT !.todo = T, !.buys = buys])
    BY <1>3 DEF Select
  <2>2. l.pc = "select"
    BY <1>3 DEF Select, At
  <2> HIDE DEF T
  <2> QED BY <1>0, <1>1, <2>1, <2>2 DEF Local, Locals, Acting
<1>4. CASE \E g \in Groups : CloseGroup(c, g)
  BY <1>0, <1>1, <1>4 DEF CloseGroup, Locals, At, Acting
<1>5. CASE \E g \in Groups : ManageGroup(c, g)
  BY <1>0, <1>1, <1>5 DEF ManageGroup, Locals, At, Acting
<1>6. CASE \E g \in Groups : ReduceGroup(c, g)
  <2>1. PICK g \in Groups : ReduceGroup(c, g)
    BY <1>6
  <2>2. \/ Goes(c, [l EXCEPT !.todo = @ \ {g}, !.reduced = @ \cup {g}])
        \/ Goes(c, [l EXCEPT !.todo = @ \ {g}])
    BY <2>1 DEF ReduceGroup
  <2>3. l.pc = "reduce"
    BY <2>1 DEF ReduceGroup, At
  <2> QED BY <1>0, <1>1, <2>2, <2>3 DEF Locals, Acting
<1>7. CASE \E g \in Groups : SeedChecks(c, g)
  <2>1. PICK g \in Groups : SeedChecks(c, g)
    BY <1>7
  <2>2. \/ Goes(c, [Local(c, "seedPlace") EXCEPT !.todo = @ \ {g}, !.seed = g])
        \/ Goes(c, [l EXCEPT !.todo = @ \ {g}])
    BY <2>1 DEF SeedChecks
  <2>3. l.pc = "seed"
    BY <2>1 DEF SeedChecks, At
  <2> QED BY <1>0, <1>1, <2>2, <2>3 DEF Local, Locals, Acting
<1>8. CASE ClosesDone(c)
  BY <1>0, <1>1, <1>8 DEF ClosesDone, Local, Locals, At, Acting
<1>9. CASE RecordCloses(c)
  BY <1>0, <1>1, <1>9 DEF RecordCloses, Local, Locals, At, Acting
<1>10. CASE ManageDone(c)
  <2> DEFINE T == IF AccountType = "cash" /\ ~isPastCashCutoff(phase) /\ phase > 1
                  THEN {g \in Groups : l.seen[g] > 0} ELSE {}
  <2>1. Goes(c, [Local(c, "reduce") EXCEPT !.todo = T]) /\ l.pc = "manage"
    BY <1>10 DEF ManageDone, At
  <2> HIDE DEF T
  <2> QED BY <1>0, <1>1, <2>1 DEF Local, Locals, Acting
<1>11. CASE ReducesDone(c)
  BY <1>0, <1>1, <1>11 DEF ReducesDone, Local, Locals, At, Acting
<1>12. CASE SeedPlaces(c)
  BY <1>0, <1>1, <1>12 DEF SeedPlaces, Local, Locals, At, Acting
<1> QED BY <1>2, <1>3, <1>4, <1>5, <1>6, <1>7, <1>8, <1>9, <1>10, <1>11, <1>12
  DEF Step, CycleBegins

LEMMA SweptStep ==
  ASSUME Typed, PromptBook, SweptInv, [Next]_vars, ~Flaky
  PROVE  SweptInv'
<1> DEFINE Ok(d) ==
             /\ At(d, "sweep2") =>
                  \A i \in 1 .. cycle[d].swept : Sweepable(i) => i \in cycle[d].list
             /\ Acting(d) => \A i \in 1 .. cycle[d].swept : ~Sweepable(i)
<1>0. \A d \in Cycles : Ok(d)
  BY DEF SweptInv
<1>1. ASSUME Shrinks \/ \E g, source, side, n : Comes(g, source, side, n),
             NEW d \in Cycles, cycle'[d] = cycle[d]
      PROVE  Ok(d)'
  BY <1>0, <1>1, SweepableBefore DEF At, Acting
<1>2. ASSUME NEW c \in Cycles, Step(c)
      PROVE  Ok(c)'
  <2> DEFINE l == cycle[c]
  <2>0. l \in Locals /\ DOMAIN cycle = Cycles /\ {"sweep1", "sweep2", "select"} \subseteq Steps
        /\ cycle' \in [Cycles -> Locals]
    BY StepTyped DEF Typed, CyclesSound, Steps
  <2>1. Shrinks \/ \E g, source, side, n : Comes(g, source, side, n)
    BY <1>2, StepBook DEF PlacesInStep
  <2>2. CASE SweepLists(c, "listing2", "sweep2")
    <3> DEFINE L == {i \in Ids : Swept(i)}
               R == {SymbolOf(orders[i].group) : i \in {j \in WorkingOf("overnight-reduction") :
                       orders[j].status = "live" /\ j \notin terminal}}
    <3>1. orders' = orders
          /\ Goes(c, [Local(c, "sweep2") EXCEPT !.list = L, !.swept = Len(orders),
               !.reducing = R])
      BY <2>2 DEF SweepLists
    <3>2. \A i \in Ids : Sweepable(i) => i \in L
      BY DEF Sweepable, Swept, PromptBook, TerminalIsOver
    <3> HIDE DEF L, R
    <3>3. cycle'[c].list = L /\ cycle'[c].swept = Len(orders) /\ cycle'[c].pc = "sweep2"
      BY <2>0, <3>1 DEF Goes, Local, Locals
    <3>4. \A i : Sweepable(i)' <=> Sweepable(i)
      BY <3>1 DEF Sweepable, Working
    <3> QED BY <3>2, <3>3, <3>4 DEF At, Acting, Ids
  <2>3. CASE SweepCancels(c)
    <3> DEFINE i == Min(l.list)
    <3>1. i \in Ids
      BY <2>3, CancelShrinks
    <3>2. cycle'[c].list = l.list \ {i} /\ cycle'[c].swept = l.swept /\ cycle'[c].pc = l.pc
          /\ l.pc \in {"sweep1", "sweep2"}
      BY <2>0, <2>3 DEF SweepCancels, Goes, Locals
    <3>3. orders' = [orders EXCEPT ![i] = IF @.status = "live" THEN Gone ELSE @]
      BY <2>3 DEF SweepCancels
    <3> HIDE DEF i
    <3>4. orders'[i].status = "gone"
      <4>1. orders'[i] = IF orders[i].status = "live" THEN Gone ELSE orders[i]
        BY <3>1, <3>3 DEF Typed, Ids
      <4>2. orders[i].status = "live" \/ orders[i].status = "gone"
        BY <3>1 DEF PromptBook, Working
      <4> QED BY <4>1, <4>2 DEF Gone
    <3>5. \A j \in 1 .. l.swept : Sweepable(j)' => Sweepable(j)
      BY <2>1, SweepableBefore
    <3>6. \A j : Sweepable(j)' => j # i
      BY <3>4 DEF Sweepable, Working
    <3> QED BY <1>0, <3>2, <3>5, <3>6 DEF At, Acting
  <2>4. CASE SweepEnds(c, "sweep2", "select")
    <3>1. orders' = orders /\ l.list = {} /\ l.pc = "sweep2" /\ cycle'[c].pc = "select"
          /\ cycle'[c].swept = l.swept
      BY <2>0, <2>4 DEF SweepEnds, Goes, Local, Locals, At
    <3>2. \A j \in 1 .. l.swept : Sweepable(j)' => Sweepable(j)
      BY <2>1, SweepableBefore
    <3> QED BY <1>0, <3>1, <3>2 DEF At, Acting
  <2>5. CASE /\ ~SweepLists(c, "listing2", "sweep2") /\ ~SweepCancels(c)
             /\ ~SweepEnds(c, "sweep2", "select")
    <3>1. ~SweepCancelFails(c)
      BY DEF SweepCancelFails
    <3>2. ~At(c, "sweep2")'
      <4>1. Idle.pc = "idle" /\ {"idle", "sweep1", "snapshot"} \subseteq Steps
        BY DEF Idle, Steps
      <4> QED BY <1>2, <2>5, <3>1, <4>1, StepsLead DEF Typed, At, Step, CycleBegins
    <3>3. ASSUME Acting(c)'
          PROVE  \A j \in 1 .. cycle'[c].swept : ~Sweepable(j)'
      <4>1. Acting(c) /\ cycle'[c].swept = l.swept
        BY <1>2, <2>5, <3>3, SweptKept DEF Typed
      <4>2. \A j \in 1 .. l.swept : Sweepable(j)' => Sweepable(j)
        BY <2>1, SweepableBefore
      <4> QED BY <1>0, <4>1, <4>2
    <3> QED BY <3>2, <3>3
  <2> QED BY <2>2, <2>3, <2>4, <2>5
<1>3. ASSUME NEW c \in Cycles, Step(c), NEW d \in Cycles, d # c
      PROVE  Ok(d)'
  <2>1. Shrinks \/ \E g, source, side, n : Comes(g, source, side, n)
    BY <1>3, StepBook DEF PlacesInStep
  <2>2. GoesSound(c) => cycle'[d] = cycle[d]
    BY <1>3 DEF GoesSound, Goes, Typed, CyclesSound
  <2>3. \E m : Goes(c, m)
    BY <1>3 DEF Step, CycleBegins, SweepLists, SweepCancels, SweepCancelFails, SweepEnds,
      Snapshot,
       Select, CloseGroup, ManageGroup, ReduceGroup, SeedChecks, ClosesDone, RecordCloses,
       ManageDone, ReducesDone, SeedPlaces, CycleEnds, CycleThrows
  <2>4. cycle'[d] = cycle[d]
    BY <1>3, <2>3 DEF Goes, Typed, CyclesSound
  <2> QED BY <1>1, <2>1, <2>4
<1>4. CASE ~\E c \in Cycles : Step(c)
  <2>1. Shrinks /\ cycle' = cycle
    BY <1>4, OutsideShrinks
  <2> QED BY <1>1, <2>1 DEF SweptInv
<1>5. CASE \E c \in Cycles : Step(c)
  <2>1. \A d \in Cycles : Ok(d)'
    BY <1>2, <1>3, <1>5
  <2> QED BY <2>1 DEF SweptInv
<1> QED BY <1>4, <1>5

LEMMA SweptInit == Init => SweptInv
BY DEF Init, SweptInv, Idle, At, Acting

\* Once a cycle acts, no buy or close that was in the book when it swept works
\* beside its own, however many cycles overlap: where the broker takes a cancel
\* whenever the order still works.
THEOREM SweepsBeforeItActs ==
  ASSUME ~Flaky
  PROVE  Spec => []SweptBeforeActing
<1>1. Typed /\ PromptBook /\ SweptInv /\ [Next]_vars => SweptInv'
  BY SweptStep
<1>2. SweptInv => SweptBeforeActing
  BY DEF SweptInv, SweptBeforeActing, Sweepable
<1>3. Spec => []PromptBook
  BY AlwaysPrompt
<1> QED BY <1>1, <1>2, <1>3, SweptInit, AlwaysTyped, PTL DEF Spec

\* An order the sweep no longer looks at is over, if the broker never holds one
\* back for a while and never fails a cancel.
THEOREM TerminalOrdersAreOver ==
  ASSUME ~Flaky
  PROVE  Spec => []TerminalIsOver
<1>1. PromptBook => TerminalIsOver
  BY DEF PromptBook
<1>2. Spec => []PromptBook
  BY AlwaysPrompt
<1> QED BY <1>1, <1>2, PTL

-----------------------------------------------------------------------------
(* What is on sale on a margin account.                                    *)

Sells == {i \in Ids : Working(i) /\ orders[i].side = "sell"}

\* A working sell is a close of this account's, for no more than is held, and
\* its group's only one.
SellsAreCovered ==
  /\ \A i \in Sells : /\ orders[i].source = "bot" /\ orders[i].group \in Actionable
                      /\ orders[i].quantity <= held[orders[i].group]
  /\ \A i, j \in Sells : orders[i].group = orders[j].group => i = j

\* None works from the end of the first sweep to the closes, and what the cycle
\* is about to close is still held.
SellsAreCleared(c) ==
  /\ At(c, "sweep1") => Sells \subseteq cycle[c].list
  /\ cycle[c].pc \in {"snapshot", "listing2", "sweep2", "select"} => Sells = {}
  /\ cycle[c].pc \in {"listing2", "sweep2", "select"} =>
       \A g \in Groups : cycle[c].seen[g] <= held[g]
  /\ At(c, "close") =>
       \A g \in cycle[c].todo :
         cycle[c].seen[g] <= held[g] /\ \A i \in Sells : orders[i].group # g

SellInv == SellsAreCovered /\ \A c \in Cycles : SellsAreCleared(c)

LEMMA SellsShrink ==
  ASSUME Typed, Shrinks
  PROVE  \A i \in Sells' : i \in Sells /\ orders'[i] = orders[i]
BY WorkingBefore DEF Sells

LEMMA SellsKept ==
  ASSUME Typed, NEW g \in Groups, NEW source, NEW n, Comes(g, source, "buy", n)
  PROVE  \A i \in Sells' : i \in Sells /\ orders'[i] = orders[i]
BY WorkingOrCame DEF Sells

\* A close takes what is in its way of a sweep.
LEMMA SellsAreSwept ==
  ASSUME PromptBook, SellsAreCovered
  PROVE  \A i \in Sells : Swept(i)
<1>1. isSweepEligibleSource("bot") /\ "bot" \notin ProtectedSources
  BY DEF isSweepEligibleSource, classifyOrderSource, ProtectedSources
<1> QED BY <1>1 DEF Swept, Sells, SellsAreCovered, PromptBook, TerminalIsOver, Actionable

\* A step of the cycle that neither sells nor moves what is held: it is enough to
\* look at where it leads.
LEMMA QuietSells ==
  ASSUME Alone, Typed, SellInv, NEW c \in Cycles, held' = held,
         \A i \in Sells' : i \in Sells /\ orders'[i] = orders[i],
         SellsAreCleared(c)'
  PROVE  SellInv'
<1>1. SellsAreCovered'
  BY DEF SellInv, SellsAreCovered
<1> QED BY <1>1 DEF SellInv, Alone

LEMMA CloseCovered ==
  ASSUME Alone, Typed, SellInv, NEW c \in Cycles, NEW g \in cycle[c].todo,
         CloseGroup(c, g), g \in partitionClosesByInstrumentGuard(cycle[c]),
         Comes(g, "bot", "sell", CloseQuantity(cycle[c], g)),
         CloseQuantity(cycle[c], g) \in 1 .. cycle[c].seen[g],
         Goes(c, [cycle[c] EXCEPT !.todo = @ \ {g}, !.closed = @ \cup {g}])
  PROVE  SellInv'
<1> DEFINE l == cycle[c]
           k == Len(orders) + 1
           n == CloseQuantity(l, g)
<1>0. l \in Locals /\ l.pc = "close" /\ held' = held /\ DOMAIN cycle = Cycles /\ k \notin Ids
  BY DEF Typed, CyclesSound, CloseGroup, At, Comes
<1>1. g \in Actionable /\ g \in Groups
  BY DEF partitionClosesByInstrumentGuard, CloseCandidates, Actionable
<1>2. n <= held[g]
  <2>1. l.seen[g] <= held[g]
    BY <1>0 DEF SellInv, SellsAreCleared, At
  <2>2. l.seen[g] \in Int /\ held[g] \in Int
    BY <1>0, <1>1 DEF Locals, Typed
  <2> HIDE DEF l
  <2>3. n \in 1 .. l.seen[g]
    BY DEF l
  <2> HIDE DEF n
  <2> QED BY <2>1, <2>2, <2>3
<1>3. \A i \in Sells : orders[i].group # g
  BY <1>0 DEF SellInv, SellsAreCleared, At
<1> HIDE DEF n
<1>4. Comes(g, "bot", "sell", n)
  BY DEF n
<1>5. \A i \in Sells' :
        \/ i \in Sells /\ orders'[i] = orders[i]
        \/ i = k /\ orders'[i].group = g /\ orders'[i].source = "bot" /\ orders'[i].quantity = n
  BY <1>1, <1>4, WorkingOrCame DEF Sells
<1> HIDE DEF k
<1>6. SellsAreCovered'
  <2>1. \A i \in Sells' : /\ orders'[i].source = "bot" /\ orders'[i].group \in Actionable
                          /\ orders'[i].quantity <= held[orders'[i].group]
    BY <1>1, <1>2, <1>5 DEF SellInv, SellsAreCovered
  <2>2. \A i, j \in Sells' : orders'[i].group = orders'[j].group => i = j
    BY <1>3, <1>5 DEF SellInv, SellsAreCovered
  <2> QED BY <1>0, <2>1, <2>2 DEF SellsAreCovered, Actionable
<1>7. cycle'[c].pc = "close" /\ cycle'[c].todo = l.todo \ {g} /\ cycle'[c].seen = l.seen
  BY <1>0 DEF Goes, Locals
<1>8. SellsAreCleared(c)'
  <2>1. ASSUME NEW h \in l.todo \ {g}
        PROVE  l.seen[h] <= held[h] /\ \A i \in Sells' : orders'[i].group # h
    BY <1>0, <1>5 DEF SellInv, SellsAreCleared, At
  <2> QED BY <1>0, <1>7, <2>1 DEF SellsAreCleared, At
<1> QED BY <1>6, <1>8 DEF SellInv, Alone

\* A fill of a buy adds to what is held; a fill of a sell takes what its group's
\* only sell offered.
LEMMA FillCovered ==
  ASSUME Typed, SellInv, NEW i \in Ids, OrderFills(i)
  PROVE  SellInv'
<1> DEFINE o == orders[i]
           g == o.group
<1>0. /\ o \in WorkingOrder /\ cycle' = cycle /\ Shrinks
      /\ orders' = [orders EXCEPT ![i] = Gone] /\ i \in 1 .. Len(orders)
  BY BookFacts, ShrinksOne DEF OrderFills
<1>1. g \in Groups /\ o.quantity \in 1 .. MaxHeld /\ held[g] \in 0 .. MaxHeld
      /\ o.side \in {"buy", "sell"}
  BY <1>0 DEF WorkingOrder, Typed
<1>2. i \notin Sells'
  BY <1>0 DEF Sells, Working, Gone, Typed
<1>3. \A j \in Sells' : j \in Sells /\ orders'[j] = orders[j] /\ j # i
  BY <1>0, <1>2, SellsShrink
<1>4. /\ \A h \in Groups : h # g => held'[h] = held[h]
      /\ held'[g] = IF o.side = "buy" THEN Min({MaxHeld, held[g] + o.quantity})
                    ELSE Max({0, held[g] - o.quantity})
  BY <1>1 DEF OrderFills, Typed
<1>5. o.side = "buy" => held'[g] >= held[g]
  BY <1>1, <1>4, MinOfTwo, RunCycleAssumption
<1>6. o.side = "sell" => i \in Sells
  BY DEF Sells, OrderFills
<1>7. \A h \in Groups : held[h] \in Int /\ held'[h] \in Int
  BY StepTyped DEF Typed, Next
<1> HIDE DEF o
<1>8. \A h \in Groups : held'[h] >= held[h] \/ (o.side = "sell" /\ h = g)
  BY <1>1, <1>4, <1>5, <1>7
<1>9. o.side = "sell" => \A j \in Sells' : orders[j].group # g
  BY <1>3, <1>6 DEF SellInv, SellsAreCovered, o
<1>10. SellsAreCovered'
  <2>1. ASSUME NEW j \in Sells'
        PROVE  /\ orders'[j].source = "bot" /\ orders'[j].group \in Actionable
               /\ orders'[j].quantity <= held'[orders'[j].group]
    <3> DEFINE p == orders[j]
    <3>1. p.source = "bot" /\ p.group \in Actionable /\ p.quantity <= held[p.group]
          /\ orders'[j] = p /\ j \in Sells
      BY <1>3 DEF SellInv, SellsAreCovered
    <3>2. p.quantity \in Int /\ p.group \in Groups
      BY <3>1, BookFacts DEF Sells, WorkingOrder
    <3>3. held'[p.group] >= held[p.group]
      BY <1>8, <1>9, <3>2
    <3> HIDE DEF p
    <3> QED BY <1>7, <3>1, <3>2, <3>3
  <2>2. \A j, k \in Sells' : orders'[j].group = orders'[k].group => j = k
    BY <1>3 DEF SellInv, SellsAreCovered
  <2> QED BY <2>1, <2>2 DEF SellsAreCovered, Actionable
<1>11. ASSUME NEW c \in Cycles
       PROVE  SellsAreCleared(c)'
  <2> DEFINE l == cycle[c]
  <2>0. SellsAreCleared(c) /\ l \in Locals /\ cycle'[c] = l
    BY <1>0 DEF SellInv, Typed, CyclesSound
  <2>1. \A h \in Groups : l.seen[h] \in Int
    BY <2>0 DEF Locals
  <2>2. ASSUME l.pc \in {"listing2", "sweep2", "select"}, NEW h \in Groups
        PROVE  l.seen[h] <= held'[h]
    <3>1. held'[h] >= held[h]
      BY <1>6, <1>8, <2>0, <2>2 DEF SellsAreCleared, o
    <3> QED BY <1>7, <2>0, <2>1, <2>2, <3>1 DEF SellsAreCleared
  <2>3. ASSUME l.pc = "close", NEW h \in l.todo
        PROVE  l.seen[h] <= held'[h] /\ \A j \in Sells' : orders'[j].group # h
    <3>1. l.seen[h] <= held[h] /\ (\A j \in Sells : orders[j].group # h) /\ h \in Groups
      BY <2>0, <2>3 DEF SellsAreCleared, At, Locals
    <3>2. held'[h] >= held[h]
      BY <1>6, <1>8, <3>1 DEF o
    <3> QED BY <1>3, <1>7, <2>1, <3>1, <3>2
  <2>4. At(c, "sweep1") => Sells' \subseteq l.list
    BY <1>3, <2>0 DEF SellsAreCleared
  <2>5. l.pc \in {"snapshot", "listing2", "sweep2", "select"} => Sells' = {}
    BY <1>3, <2>0 DEF SellsAreCleared
  <2> HIDE DEF l
  <2> QED BY <2>0, <2>2, <2>3, <2>4, <2>5 DEF SellsAreCleared, At, l
<1> QED BY <1>10, <1>11 DEF SellInv

LEMMA SellStep ==
  ASSUME AccountType = "margin", Alone, ~Flaky, Typed, PromptBook, SellInv, [Next]_vars
  PROVE  SellInv'
<1>0. Typed' /\ {"idle", "sweep1", "sweep2", "snapshot", "select", "listing2"} \subseteq Steps
      /\ Idle.pc = "idle"
  BY StepTyped DEF Steps, Idle
<1>1. ASSUME NEW c \in Cycles, Step(c)
      PROVE  SellInv'
  <2> DEFINE l == cycle[c]
             quiet == \A i \in Sells' : i \in Sells /\ orders'[i] = orders[i]
  <2>0. l \in Locals /\ DOMAIN cycle = Cycles /\ SellsAreCleared(c) /\ Sound(l)
        /\ l.todo \subseteq Groups
    BY DEF Typed, CyclesSound, SellInv, Locals
  <2>1. held' = held
    BY <1>1 DEF Step, CycleBegins, SweepLists, SweepCancels, SweepCancelFails, SweepEnds,
      Snapshot,
       Select, CloseGroup, ManageGroup, ReduceGroup, SeedChecks, ClosesDone, RecordCloses,
       ManageDone, ReducesDone, SeedPlaces, CycleEnds, CycleThrows
  <2>2. ASSUME quiet, cycle'[c].pc \in {"idle", "record", "manage", "reduce", "seed",
               "seedPlace"}
        PROVE  SellInv'
    <3>1. SellsAreCleared(c)'
      BY <2>2 DEF SellsAreCleared, At
    <3> QED BY <2>1, <2>2, <3>1, QuietSells
  <2>3. ASSUME NEW g \in Groups, NEW source, NEW n, Comes(g, source, "buy", n)
        PROVE  quiet
    BY <2>3, SellsKept
  <2>4. CASE Shrinks
    <3>0. quiet
      BY <2>4, SellsShrink
    <3>1. CASE CycleBegins(c)
      <4> DEFINE L == {i \in Ids : Swept(i)}
                 R == {SymbolOf(orders[i].group) :
                      i \in {j \in WorkingOf("overnight-reduction") :
                         orders[j].status = "live" /\ j \notin terminal}}
      <4>1. Goes(c, [Local(c, "sweep1") EXCEPT !.list = L, !.swept = Len(orders),
            !.reducing = R])
        BY <3>1 DEF CycleBegins, SweepLists
      <4>2. \A i \in Sells : i \in L
        BY SellsAreSwept DEF SellInv, Sells
      <4> HIDE DEF L, R
      <4>3. cycle'[c].list = L /\ cycle'[c].pc = "sweep1"
        BY <2>0, <4>1 DEF Goes, Local, Locals
      <4>4. SellsAreCleared(c)'
        BY <3>0, <4>2, <4>3 DEF SellsAreCleared, At
      <4> QED BY <2>1, <3>0, <4>4, QuietSells
    <3>2. CASE SweepCancels(c)
      <4> DEFINE i == Min(l.list)
      <4>1. i \in Ids
        BY <3>2, CancelShrinks
      <4>2. cycle'[c].list = l.list \ {i} /\ cycle'[c].pc = l.pc /\ cycle'[c].seen = l.seen
            /\ l.pc \in {"sweep1", "sweep2"}
        BY <2>0, <3>2 DEF SweepCancels, Goes, Locals
      <4>3. orders' = [orders EXCEPT ![i] = IF @.status = "live" THEN Gone ELSE @]
        BY <3>2 DEF SweepCancels
      <4> HIDE DEF i
      <4>4. orders'[i].status = "gone"
        <5>1. orders'[i] = IF orders[i].status = "live" THEN Gone ELSE orders[i]
          BY <4>1, <4>3 DEF Typed, Ids
        <5>2. orders[i].status = "live" \/ orders[i].status = "gone"
          BY <4>1 DEF PromptBook, Working
        <5> QED BY <5>1, <5>2 DEF Gone
      <4>5. i \notin Sells'
        BY <4>4 DEF Sells, Working
      <4>6. SellsAreCleared(c)'
        BY <2>0, <2>1, <3>0, <4>2, <4>5 DEF SellsAreCleared, At
      <4> QED BY <2>1, <3>0, <4>6, QuietSells
    <3>3. CASE SweepEnds(c, "sweep1", "snapshot")
      <4>1. l.list = {} /\ l.pc = "sweep1" /\ cycle'[c].pc = "snapshot"
        BY <2>0, <3>3 DEF SweepEnds, Goes, Local, Locals, At
      <4>2. SellsAreCleared(c)'
        BY <2>0, <3>0, <4>1 DEF SellsAreCleared, At
      <4> QED BY <2>1, <3>0, <4>2, QuietSells
    <3>4. CASE Snapshot(c)
      <4>1. PICK plan, strong :
              Goes(c, [Local(c, "listing2") EXCEPT
                         !.at = phase, !.seen = held, !.strong = strong, !.reducing = {},
                         !.plan = withOvernightCloseOverrides(plan)])
        BY <3>4 DEF Snapshot
      <4> DEFINE p == withOvernightCloseOverrides(plan)
      <4>2. Goes(c, [Local(c, "listing2") EXCEPT
                       !.at = phase, !.seen = held, !.strong = strong, !.reducing = {},
                       !.plan = p])
        BY <4>1
      <4> HIDE DEF p
      <4>3. cycle'[c].pc = "listing2" /\ cycle'[c].seen = held /\ l.pc = "snapshot"
        BY <2>0, <3>4, <4>2 DEF Goes, Local, Locals, Snapshot, At
      <4>4. \A g \in Groups : held[g] <= held[g]
        BY DEF Typed
      <4>5. SellsAreCleared(c)'
        BY <2>0, <2>1, <3>0, <4>3, <4>4 DEF SellsAreCleared, At
      <4> QED BY <2>1, <3>0, <4>5, QuietSells
    <3>5. CASE SweepLists(c, "listing2", "sweep2")
      <4> DEFINE L == {i \in Ids : Swept(i)}
                 R == {SymbolOf(orders[i].group) :
                      i \in {j \in WorkingOf("overnight-reduction") :
                         orders[j].status = "live" /\ j \notin terminal}}
      <4>1. Goes(c, [Local(c, "sweep2") EXCEPT !.list = L, !.swept = Len(orders),
            !.reducing = R])
            /\ l.pc = "listing2"
        BY <3>5 DEF SweepLists, At
      <4> HIDE DEF L, R
      <4>2. cycle'[c].seen = l.seen /\ cycle'[c].pc = "sweep2"
        BY <2>0, <4>1 DEF Goes, Local, Locals
      <4>3. SellsAreCleared(c)'
        BY <2>0, <2>1, <3>0, <4>1, <4>2 DEF SellsAreCleared, At
      <4> QED BY <2>1, <3>0, <4>3, QuietSells
    <3>6. CASE SweepEnds(c, "sweep2", "select")
      <4>1. l.pc = "sweep2" /\ cycle'[c].pc = "select" /\ cycle'[c].seen = l.seen
        BY <2>0, <3>6 DEF SweepEnds, Goes, Local, Locals, At
      <4>2. SellsAreCleared(c)'
        BY <2>0, <2>1, <3>0, <4>1 DEF SellsAreCleared, At
      <4> QED BY <2>1, <3>0, <4>2, QuietSells
    <3>7. CASE Select(c)
      <4> DEFINE T == partitionClosesByInstrumentGuard(l)
      <4>1. PICK buys : Goes(c, [Local(c, "close") EXCEPT !.todo = T, !.buys = buys])
        BY <3>7 DEF Select
      <4>2. l.pc = "select" /\ T \subseteq Groups
        BY <3>7 DEF Select, At, partitionClosesByInstrumentGuard, CloseCandidates, Actionable
      <4> HIDE DEF T
      <4>3. cycle'[c].pc = "close" /\ cycle'[c].todo = T /\ cycle'[c].seen = l.seen
        BY <2>0, <4>1 DEF Goes, Local, Locals
      <4>4. SellsAreCleared(c)'
        BY <2>0, <2>1, <3>0, <4>2, <4>3 DEF SellsAreCleared, At
      <4> QED BY <2>1, <3>0, <4>4, QuietSells
    <3>8. ASSUME NEW g \in Groups, CloseGroup(c, g)
          PROVE  SellInv'
      <4>1. cycle'[c].pc = "close" /\ cycle'[c].seen = l.seen /\ cycle'[c].todo \subseteq l.todo
            /\ l.pc = "close"
        <5>1. \/ Goes(c, [l EXCEPT !.todo = @ \ {g}, !.closed = @ \cup {g}])
              \/ Goes(c, [l EXCEPT !.todo = @ \ {g}])
          BY <3>8 DEF CloseGroup
        <5>2. l.pc = "close"
          BY <3>8 DEF CloseGroup, At
        <5> HIDE DEF l
        <5>3. CASE Goes(c, [l EXCEPT !.todo = @ \ {g}, !.closed = @ \cup {g}])
          BY <2>0, <5>2, <5>3 DEF Goes, Locals
        <5>4. CASE Goes(c, [l EXCEPT !.todo = @ \ {g}])
          BY <2>0, <5>2, <5>4 DEF Goes, Locals
        <5> QED BY <5>1, <5>3, <5>4
      <4>2. SellsAreCleared(c)'
        BY <2>0, <2>1, <3>0, <4>1 DEF SellsAreCleared, At
      <4> QED BY <2>1, <3>0, <4>2, QuietSells
    <3>9. ~SweepCancelFails(c)
      BY DEF SweepCancelFails
    <3>10. CASE \/ ClosesDone(c) \/ RecordCloses(c) \/ ManageDone(c) \/ ReducesDone(c)
                \/ SeedPlaces(c) \/ CycleEnds(c) \/ CycleThrows(c)
                \/ \E g \in Groups : ManageGroup(c, g) \/ ReduceGroup(c, g) \/ SeedChecks(c, g)
      <4>1. cycle'[c].pc \in {"idle", "record", "manage", "reduce", "seed", "seedPlace"}
        BY <1>0, <3>10, StepsLead DEF Typed, At
      <4> QED BY <2>2, <3>0, <4>1
    <3> QED BY <1>1, <3>1, <3>2, <3>3, <3>4, <3>5, <3>6, <3>7, <3>8, <3>9, <3>10 DEF Step
  <2>5. ASSUME NEW g \in l.todo, CloseGroup(c, g), Comes(g, "bot", "sell", CloseQuantity(l, g)),
               g \in partitionClosesByInstrumentGuard(l),
               Goes(c, [l EXCEPT !.todo = @ \ {g}, !.closed = @ \cup {g}]),
               CloseQuantity(l, g) \in 1 .. l.seen[g]
        PROVE  SellInv'
    BY <2>5, CloseCovered
  <2>6. ASSUME NEW g \in Groups, ManageGroup(c, g), Comes(g, "bot", "buy", 1)
        PROVE  SellInv'
    <3>1. cycle'[c].pc = "manage"
      BY <2>6, StepsLead DEF Typed, At
    <3> QED BY <2>2, <2>3, <2>6, <3>1
  <2>7. ASSUME SeedPlaces(c), NEW g \in Groups, Comes(g, SeedSource, "buy", 1)
        PROVE  SellInv'
    <3>1. cycle'[c].pc = "seed"
      BY <2>7, StepsLead DEF Typed, At
    <3> QED BY <2>2, <2>3, <2>7, <3>1
  <2>8. \A g \in l.todo : ~ReduceGroup(c, g)
    BY <2>0 DEF ReduceGroup, At, Sound, ReductionsAreOvernight
  <2>9. CASE PlacesInStep(c)
    BY <2>5, <2>6, <2>7, <2>8, <2>9 DEF PlacesInStep
  <2> QED BY <1>1, <2>4, <2>9, StepBook
<1>2. CASE ~\E c \in Cycles : Step(c)
  <2>1. Shrinks /\ cycle' = cycle
    BY <1>2, OutsideShrinks
  <2>2. ASSUME held' = held
        PROVE  SellInv'
    <3>1. \A i \in Sells' : i \in Sells /\ orders'[i] = orders[i]
      BY <2>1, SellsShrink
    <3>2. SellsAreCovered'
      BY <2>2, <3>1 DEF SellInv, SellsAreCovered
    <3>3. \A c \in Cycles : SellsAreCleared(c)'
      BY <2>1, <2>2, <3>1 DEF SellInv, SellsAreCleared, At
    <3> QED BY <3>2, <3>3 DEF SellInv
  <2>3. CASE \E i \in Ids : OrderFills(i)
    BY <2>3, FillCovered
  <2>4. CASE ~\E i \in Ids : OrderFills(i)
    <3>1. held' = held
      BY <1>2, <2>4 DEF Next, vars, OrderExpires, OrderStalls, TimePasses
    <3> QED BY <2>2, <3>1
  <2> QED BY <2>3, <2>4
<1> QED BY <1>1, <1>2

LEMMA SellInit == Init => SellInv
<1> SUFFICES ASSUME Init PROVE SellInv
  OBVIOUS
<1>1. Sells = {}
  <2>1. CASE orders = <<>>
    BY <2>1 DEF Sells, Ids
  <2>2. ASSUME NEW g \in Groups, NEW source \in Resting, orders = <<Order(g, source, "buy", 1)>>
        PROVE  Sells = {}
    <3> DEFINE o == Order(g, source, "buy", 1)
    <3>1. o.side = "buy"
      BY DEF Order
    <3> HIDE DEF o
    <3>2. orders = <<o>>
      BY <2>2 DEF o
    <3> QED BY <3>1, <3>2 DEF Sells, Ids
  <2> QED BY <2>1, <2>2 DEF Init
<1>2. \A c \in Cycles : cycle[c].pc = "idle"
  BY DEF Init, Idle
<1> QED BY <1>1, <1>2 DEF SellInv, SellsAreCovered, SellsAreCleared, At

\* What OnSale chooses, and what that is over one order or none.
QuantityOver(h, S) ==
  h = [s \in SUBSET S |->
         IF s = {} THEN 0
         ELSE (LET x == CHOOSE x \in s : TRUE IN orders[x].quantity + h[s \ {x}])]

LEMMA OnSaleOfOne ==
  ASSUME NEW g, NEW i, SellsOf(g) \subseteq {i}, orders[i].quantity \in Nat
  PROVE  OnSale(g) \in {0, orders[i].quantity}
<1> DEFINE S == SellsOf(g)
           P(h) == QuantityOver(h, S)
           k == [s \in SUBSET S |-> IF s = {} THEN 0 ELSE orders[i].quantity]
<1> HIDE DEF S
<1>1. S \subseteq {i}
  BY DEF S
<1>2. \A s \in SUBSET S : s # {} => (CHOOSE x \in s : TRUE) = i /\ s \ {i} = {}
  BY <1>1
<1>3. P(k)
  <2>1. \A s \in SUBSET S : s # {} => k[s] = orders[i].quantity + k[s \ {i}]
    BY <1>2
  <2> QED BY <1>2, <2>1 DEF QuantityOver
<1>4. P(CHOOSE h : P(h))
  <2> HIDE DEF P, k
  <2> QED BY <1>3
<1>5. \A h : P(h) => h[S] \in {0, orders[i].quantity}
  <2> SUFFICES ASSUME NEW h, P(h) PROVE h[S] \in {0, orders[i].quantity}
    OBVIOUS
  <2>1. h[{}] = 0
    BY DEF QuantityOver
  <2>2. S # {} => h[S] = orders[i].quantity + h[{}]
    BY <1>2 DEF QuantityOver
  <2> QED BY <2>1, <2>2
<1>6. (CHOOSE h : P(h))[S] \in {0, orders[i].quantity}
  <2> HIDE DEF P
  <2> QED BY <1>4, <1>5
<1> QED BY <1>6 DEF S, QuantityOver, OnSale, MapThenSumSet, MapThenFoldSet

LEMMA OnSaleOfNone == ASSUME NEW g, SellsOf(g) = {} PROVE OnSale(g) = 0
<1>1. QuantityOver([s \in SUBSET {} |-> 0], {})
  BY DEF QuantityOver
<1>2. QuantityOver(CHOOSE h : QuantityOver(h, {}), {})
  BY <1>1
<1>3. (CHOOSE h : QuantityOver(h, {}))[{}] = 0
  BY <1>2 DEF QuantityOver
<1> QED BY <1>3 DEF QuantityOver, OnSale, MapThenSumSet, MapThenFoldSet

LEMMA CoveredNeverOversells == Typed /\ SellsAreCovered => NeverOversells
<1> SUFFICES ASSUME Typed, SellsAreCovered, NEW g \in Groups
             PROVE  OnSale(g) <= held[g]
  BY DEF NeverOversells
<1>1. held[g] \in Nat
  BY DEF Typed
<1>2. \A i \in SellsOf(g) : i \in Sells /\ orders[i].group = g /\ orders[i] \in WorkingOrder
  BY BookFacts DEF SellsOf, Sells
<1>3. \A i \in SellsOf(g) : orders[i].quantity \in Nat /\ orders[i].quantity <= held[g]
  BY <1>2 DEF SellsAreCovered, WorkingOrder
<1>4. \A i, j \in SellsOf(g) : i = j
  BY <1>2 DEF SellsAreCovered
<1>5. CASE SellsOf(g) = {}
  BY <1>1, <1>5, OnSaleOfNone
<1>6. ASSUME NEW i \in SellsOf(g) PROVE OnSale(g) <= held[g]
  BY <1>1, <1>3, <1>4, OnSaleOfOne
<1> QED BY <1>5, <1>6

\* On a margin account what the working closes of a group offer is held: the first
\* sweep takes every close of an earlier cycle, each group is closed once, for what
\* the snapshot saw, and only its own close can shrink it. (A cash account's
\* protected reductions break this.)
THEOREM MarginNeverOversells ==
  ASSUME AccountType = "margin", Alone, ~Flaky
  PROVE  Spec => []NeverOversells
<1>1. Typed /\ PromptBook /\ SellInv /\ [Next]_vars => SellInv'
  BY SellStep
<1>2. Typed /\ SellInv => NeverOversells
  BY CoveredNeverOversells DEF SellInv
<1>3. Spec => []PromptBook
  BY AlwaysPrompt
<1> QED BY <1>1, <1>2, <1>3, SellInit, AlwaysTyped, PTL DEF Spec

-----------------------------------------------------------------------------
(* The position registry, where nothing but cycles touches it. *)

\* The registry that an operation after all others finds: what the cycle is about
\* to write, or else what is in the file.
Latest == IF write["cycle"] = Quiet!NotWriting THEN Quiet!readRegistry ELSE write["cycle"].data

OpenedToday(data, s) == \A d \in Quiet!OpenDays(data, s) :
Quiet!Day(data[s][d].opened) = Quiet!Day(now)

\* What holds of the file and of what is about to be written alike: a symbol has one
\* open entry at most, of the day its position was opened or its order placed.
TruthfulOf(data, t, broker, ordered) ==
  /\ data \in Quiet!Registry
  /\ \A s \in Tracked : \A d \in Quiet!OpenDays(data, s) :
       /\ data[s][d].opened <= t
       /\ Quiet!OpenDays(data, s) = {d}
       /\ s \in Quiet!Held(broker)
            => Quiet!Day(data[s][d].opened) = Quiet!Day(broker[s].created)
       /\ s \in ordered => Quiet!Day(data[s][d].opened) = Quiet!Day(t)

Truthful(data) == TruthfulOf(data, now, rows, buying)

Writing == [at : {"ready", "open"}, data : Quiet!Registry]

RegistryTypes ==
  /\ now \in Quiet!Ticks
  /\ rows \in [Tracked -> Quiet!Row \cup {NoRow}]
  /\ \A s \in Quiet!Held(rows) : rows[s].created <= now
  /\ file \in Quiet!Registry \cup {Torn}
  /\ buying \subseteq Tracked /\ selling \subseteq Tracked
  /\ seeder = "idle"
  /\ write \in [{"cycle", "seeder"} -> {Quiet!NotWriting} \cup Writing]
  /\ write["seeder"] = Quiet!NotWriting

CopiesInv == Truthful(Quiet!readRegistry) /\ Truthful(Latest)

\* The cycle's orders work only where it no longer relies on what it saw of the broker.
TradesInv ==
  /\ buying # {} => registryCycle.at \in {"idle", "recordOpen"}
  /\ selling # {} => registryCycle.at \in {"recordClose", "seed", "recordOpen", "idle"}
  /\ registryCycle.at = "seed" => selling \subseteq registryCycle.closed
  /\ registryCycle.at = "recordClose" => selling \subseteq {registryCycle.symbol}

\* How far the cycle has come in making the registry true.
StageInv ==
  /\ registryCycle.at \in {"idle", "snapshot", "reconcile", "sync", "overnight", "close",
                   "recordClose", "seed", "recordOpen"}
  /\ registryCycle.at \in {"reconcile", "sync", "overnight"} =>
       registryCycle = [at |-> registryCycle.at, rows |-> rows]
  /\ registryCycle.at = "close" => registryCycle.rows = rows
  /\ registryCycle.at = "recordClose" =>
       /\ registryCycle.rows \in [Tracked -> Quiet!Row \cup {NoRow}]
       /\ registryCycle.symbol \in Quiet!Held(registryCycle.rows)
       /\ Quiet!Held(registryCycle.rows) \subseteq Quiet!Held(rows) \cup {registryCycle.symbol}
  /\ registryCycle.at \in {"sync", "overnight", "close", "recordClose"} =>
       \A s \in Tracked \ Quiet!Held(registryCycle.rows) : OpenedToday(Latest, s)
  /\ registryCycle.at = "overnight" => \A s \in Quiet!Held(registryCycle.rows) :
       Quiet!OpenDays(Latest, s) # {}
  /\ registryCycle.at = "seed" =>
       \A s \in Tracked \ (registryCycle.closed \cup Quiet!Held(rows)) : OpenedToday(Latest, s)
  /\ registryCycle.at = "recordOpen" =>
       /\ registryCycle.symbol \in Tracked
       /\ registryCycle.symbol \in Quiet!Held(rows)
            => Quiet!Day(rows[registryCycle.symbol].created) = Quiet!Day(now)

RegistryInv == RegistryTypes /\ CopiesInv /\ TradesInv /\ StageInv /\ Quiet!OvernightIsTrue

\* What the constants of the quiet world are assumed to be.
LEMMA RegistryConstants ==
  /\ TicksPerDay \in Nat /\ TicksPerDay >= 1 /\ MaxNow \in Nat /\ KeepDays \in Nat
  /\ NoRow \notin Quiet!Row /\ NoEntry \notin Quiet!Entry /\ Torn \notin Quiet!Registry
  /\ 0 \in Quiet!Ticks /\ Quiet!Ticks \subseteq Nat
  /\ \A t \in Quiet!Ticks : Quiet!Day(t) \in Quiet!Days
BY RegistryAssumptions DEF Quiet!RegistryAssumption, Quiet!NullAssumption, Quiet!Ticks,
  Quiet!Days

\* Days follow each other as ticks do.
LEMMA DaysInOrder ==
  ASSUME NEW a \in Quiet!Ticks, NEW b \in Quiet!Ticks, a <= b
  PROVE  Quiet!Day(a) \in Nat /\ Quiet!Day(b) \in Nat /\ Quiet!Day(a) <= Quiet!Day(b)
<1>1. /\ a \in Nat /\ b \in Nat /\ TicksPerDay \in Nat /\ TicksPerDay >= 1
  BY RegistryConstants
<1> DEFINE p == a \div TicksPerDay
           q == b \div TicksPerDay
<1>2. /\ p \in Nat /\ TicksPerDay * p <= a /\ a < TicksPerDay * (p + 1)
      /\ q \in Nat /\ TicksPerDay * q <= b /\ b < TicksPerDay * (q + 1)
  BY <1>1
<1>3. ASSUME q < p
      PROVE  FALSE
  <2>1. q + 1 <= p
    BY <1>2, <1>3
  <2>2. TicksPerDay * (q + 1) <= TicksPerDay * p
    BY <1>1, <1>2, <2>1
  <2> QED BY <1>1, <1>2, <2>2
<1> QED BY <1>2, <1>3 DEF Quiet!Day

\* What an entry and a row look like, and what it is to be open.
LEMMA EntriesAreTyped ==
  ASSUME NEW data \in Quiet!Registry, NEW s \in Tracked
  PROVE  /\ Quiet!OpenDays(data, s) \subseteq Quiet!Days
         /\ \A d \in Quiet!Days : data[s][d] \in Quiet!Entry \cup {NoEntry}
         /\ \A d \in Quiet!OpenDays(data, s) :
              /\ data[s][d] \in Quiet!Entry /\ data[s][d].opened \in Quiet!Ticks
              /\ data[s][d].closed = Quiet!NotClosed
BY DEF Quiet!Registry, Quiet!OpenDays, Quiet!Entry

\* What a row of a held symbol looks like.
LEMMA HeldAreTyped ==
  ASSUME NEW r \in [Tracked -> Quiet!Row \cup {NoRow}], NEW s \in Quiet!Held(r)
  PROVE  s \in Tracked /\ r[s] \in Quiet!Row /\ r[s].created \in Quiet!Ticks /\ r[s].open
BY DEF Quiet!Held, Quiet!Row

\* A registry that only lost open entries is as true as before.
LEMMA FewerOpenEntries ==
  ASSUME NEW data, NEW new \in Quiet!Registry, Truthful(data),
         \A s \in Tracked : \A d \in Quiet!OpenDays(new, s) :
           d \in Quiet!OpenDays(data, s) /\ new[s][d].opened = data[s][d].opened
  PROVE  Truthful(new)
BY DEF Truthful, TruthfulOf

\* pruneOldEntries drops closed entries, and opens none.
LEMMA PrunedIsTrue ==
  ASSUME NEW data, Truthful(data)
  PROVE  Quiet!Pruned(data) \in Quiet!Registry /\ Truthful(Quiet!Pruned(data))
<1>1. Quiet!Pruned(data) \in Quiet!Registry
  BY DEF Truthful, TruthfulOf, Quiet!Pruned, Quiet!Registry
<1>2. \A s \in Tracked : \A d \in Quiet!OpenDays(Quiet!Pruned(data), s) :
        d \in Quiet!OpenDays(data, s) /\ Quiet!Pruned(data)[s][d].opened = data[s][d].opened
  BY DEF Quiet!Pruned, Quiet!OpenDays
<1> QED BY <1>1, <1>2, FewerOpenEntries

\* An entry that is closed is an entry.
LEMMA ClosingAnEntry ==
  ASSUME NEW entry \in Quiet!Entry, now \in Quiet!Ticks
  PROVE  /\ [entry EXCEPT !.closed = now] \in Quiet!Entry
         /\ [entry EXCEPT !.closed = now].closed = now
BY DEF Quiet!Entry

\* reconcileWithBrokerPositions closes entries and opens none; what is left open of a
\* symbol that is not held is in its grace, and so of today.
LEMMA ReconciledIsTrue ==
  ASSUME NEW data, Truthful(data), now \in Quiet!Ticks, NEW holding
  PROVE  /\ Quiet!Reconciled(data, holding) \in Quiet!Registry
            /\ Truthful(Quiet!Reconciled(data, holding))
         /\ \A s \in Tracked \ holding : OpenedToday(Quiet!Reconciled(data, holding), s)
<1> DEFINE new == Quiet!Reconciled(data, holding)
<1>0. data \in Quiet!Registry
  BY DEF Truthful, TruthfulOf
<1>1. \A s \in Tracked : \A d \in Quiet!Days :
        new[s][d] = IF s \notin holding /\ d \in Quiet!OpenDays(data, s)
        /\ ~Quiet!InGrace(data[s][d])
                    THEN [data[s][d] EXCEPT !.closed = now] ELSE data[s][d]
  BY DEF Quiet!Reconciled
<1>2. new \in Quiet!Registry
  <2>1. \A s \in Tracked : \A d \in Quiet!Days : new[s][d] \in Quiet!Entry \cup {NoEntry}
    <3> SUFFICES ASSUME NEW s \in Tracked, NEW d \in Quiet!Days
                 PROVE  new[s][d] \in Quiet!Entry \cup {NoEntry}
      OBVIOUS
    <3>1. CASE s \notin holding /\ d \in Quiet!OpenDays(data, s) /\ ~Quiet!InGrace(data[s][d])
      <4>1. data[s][d] \in Quiet!Entry
        BY <1>0, <3>1, EntriesAreTyped
      <4> QED BY <1>1, <3>1, <4>1, ClosingAnEntry
    <3>2. CASE ~(s \notin holding /\ d \in Quiet!OpenDays(data, s)
               /\ ~Quiet!InGrace(data[s][d]))
      BY <1>0, <1>1, <3>2, EntriesAreTyped
    <3> QED BY <3>1, <3>2
  <2> QED BY <2>1 DEF Quiet!Reconciled, Quiet!Registry
<1>3. Quiet!NotClosed # now
  BY RegistryConstants DEF Quiet!NotClosed, Quiet!Ticks
<1>4. \A s \in Tracked : \A d \in Quiet!OpenDays(new, s) :
        /\ d \in Quiet!OpenDays(data, s) /\ new[s][d] = data[s][d]
        /\ s \notin holding => Quiet!InGrace(data[s][d])
  <2> SUFFICES ASSUME NEW s \in Tracked, NEW d \in Quiet!OpenDays(new, s)
               PROVE  /\ d \in Quiet!OpenDays(data, s) /\ new[s][d] = data[s][d]
                      /\ s \notin holding => Quiet!InGrace(data[s][d])
    OBVIOUS
  <2>1. d \in Quiet!Days /\ new[s][d] # NoEntry /\ new[s][d].closed = Quiet!NotClosed
    BY DEF Quiet!OpenDays
  <2>2. CASE s \notin holding /\ d \in Quiet!OpenDays(data, s) /\ ~Quiet!InGrace(data[s][d])
    <3>1. new[s][d] = [data[s][d] EXCEPT !.closed = now] /\ data[s][d] \in Quiet!Entry
      BY <1>0, <1>1, <2>1, <2>2, EntriesAreTyped
    <3> QED BY <1>3, <2>1, <3>1 DEF Quiet!Entry
  <2>3. CASE ~(s \notin holding /\ d \in Quiet!OpenDays(data, s) /\ ~Quiet!InGrace(data[s][d]))
    BY <1>1, <2>1, <2>3 DEF Quiet!OpenDays
  <2> QED BY <2>2, <2>3
<1>5. Truthful(new)
  <2>1. \A s \in Tracked : \A d \in Quiet!OpenDays(new, s) :
          d \in Quiet!OpenDays(data, s) /\ new[s][d].opened = data[s][d].opened
    BY <1>4
  <2> HIDE DEF new
  <2> QED BY <1>2, <2>1, FewerOpenEntries
<1>6. ASSUME NEW s \in Tracked \ holding, NEW d \in Quiet!OpenDays(new, s)
      PROVE  Quiet!Day(new[s][d].opened) = Quiet!Day(now)
  <2>1. d \in Quiet!OpenDays(data, s) /\ new[s][d] = data[s][d] /\ Quiet!InGrace(data[s][d])
    BY <1>4
  <2>2. data[s][d].opened \in Quiet!Ticks /\ data[s][d].opened <= now
    BY <1>0, <2>1, EntriesAreTyped DEF Truthful, TruthfulOf
  <2>3. data[s][d].opened = now
    BY <2>1, <2>2, RegistryConstants DEF Quiet!InGrace, Quiet!Ticks
  <2> QED BY <2>1, <2>3
<1> QED BY <1>2, <1>5, <1>6 DEF OpenedToday

\* The one day of an open entry is what openEntryForSymbol finds.
LEMMA TheOpenEntry ==
  ASSUME NEW data, Truthful(data), now \in Quiet!Ticks,
         NEW s \in Tracked, NEW d \in Quiet!OpenDays(data, s)
  PROVE  Quiet!openEntryDay(data, s) = d
<1>1. Quiet!OpenDays(data, s) = {d} /\ data[s][d].opened \in Quiet!Ticks
  BY EntriesAreTyped DEF Truthful, TruthfulOf
<1>2. data[s][d].opened <= data[s][d].opened
  BY <1>1, RegistryConstants DEF Quiet!Ticks
<1> QED BY <1>1, <1>2 DEF Quiet!openEntryDay

\* recordPositionClosed leaves other symbols alone and opens nothing.
LEMMA ClosedIsTrue ==
  ASSUME NEW data, Truthful(data), now \in Quiet!Ticks, NEW s \in Tracked,
         NEW created \in Quiet!Ticks
  PROVE  /\ Quiet!Closed(data, s, created) \in Quiet!Registry
            /\ Truthful(Quiet!Closed(data, s, created))
         /\ \A r \in Tracked \ {s} : Quiet!Closed(data, s, created)[r] = data[r]
<1> DEFINE new == Quiet!Closed(data, s, created)
<1>0. data \in Quiet!Registry /\ now # Quiet!NotClosed
  BY RegistryConstants DEF Truthful, TruthfulOf, Quiet!NotClosed, Quiet!Ticks
<1>1. \E d \in Quiet!Days, entry \in Quiet!Entry :
        /\ new = [data EXCEPT ![s][d] = entry]
        /\ entry.closed = now
  <2>1. CASE Quiet!OpenDays(data, s) = {}
    <3>1. Quiet!Day(created) \in Quiet!Days
          /\ [opened |-> created, closed |-> now] \in Quiet!Entry
      BY RegistryConstants DEF Quiet!Entry
    <3> QED BY <2>1, <3>1 DEF Quiet!Closed
  <2>2. ASSUME NEW d \in Quiet!OpenDays(data, s)
        PROVE  \E e \in Quiet!Days, entry \in Quiet!Entry :
                 /\ new = [data EXCEPT ![s][e] = entry]
                 /\ entry.closed = now
    <3>1. Quiet!openEntryDay(data, s) = d /\ d \in Quiet!Days /\ data[s][d] \in Quiet!Entry
      BY <1>0, TheOpenEntry, EntriesAreTyped
    <3>2. /\ [data[s][d] EXCEPT !.closed = now] \in Quiet!Entry
          /\ [data[s][d] EXCEPT !.closed = now].closed = now
      BY <3>1 DEF Quiet!Entry
    <3>3. new = [data EXCEPT ![s][d].closed = now]
      BY <2>2, <3>1 DEF Quiet!Closed
    <3>4. new = [data EXCEPT ![s][d] = [data[s][d] EXCEPT !.closed = now]]
      BY <3>3
    <3> QED BY <3>1, <3>2, <3>4
  <2> QED BY <2>1, <2>2
<1>2. PICK d \in Quiet!Days, entry \in Quiet!Entry :
        /\ new = [data EXCEPT ![s][d] = entry]
        /\ entry.closed = now
  BY <1>1
<1> HIDE DEF new
<1>3. new \in Quiet!Registry /\ \A r \in Tracked \ {s} : new[r] = data[r]
  BY <1>0, <1>2 DEF Quiet!Registry
<1>4. \A r \in Tracked : \A e \in Quiet!OpenDays(new, r) :
        e \in Quiet!OpenDays(data, r) /\ new[r][e].opened = data[r][e].opened
  BY <1>0, <1>2, <1>3 DEF Quiet!OpenDays, Quiet!Registry
<1>5. Truthful(new)
  BY <1>3, <1>4, FewerOpenEntries
<1> QED BY <1>3, <1>5 DEF new

\* A registry that gained one entry is true if the entry is, and its symbol had none.
LEMMA OneMoreOpenEntry ==
  ASSUME NEW data, Truthful(data), NEW new \in Quiet!Registry,
         \A s \in Tracked :
           \/ new[s] = data[s]
           \/ \E opened \in Quiet!Ticks :
                /\ new[s] = [data[s] EXCEPT ![Quiet!Day(opened)] =
                               [opened |-> opened, closed |-> Quiet!NotClosed]]
                /\ Quiet!OpenDays(data, s) = {} /\ opened <= now
                /\ s \in Quiet!Held(rows) => Quiet!Day(opened) = Quiet!Day(rows[s].created)
                /\ s \in buying => Quiet!Day(opened) = Quiet!Day(now)
  PROVE  Truthful(new)
<1> SUFFICES ASSUME NEW s \in Tracked, NEW d \in Quiet!OpenDays(new, s)
             PROVE  /\ new[s][d].opened <= now
                    /\ Quiet!OpenDays(new, s) = {d}
                    /\ s \in Quiet!Held(rows)
                         => Quiet!Day(new[s][d].opened) = Quiet!Day(rows[s].created)
                    /\ s \in buying => Quiet!Day(new[s][d].opened) = Quiet!Day(now)
  BY DEF Truthful, TruthfulOf
<1>1. CASE new[s] = data[s]
  BY <1>1 DEF Truthful, TruthfulOf, Quiet!OpenDays
<1>2. ASSUME NEW opened \in Quiet!Ticks,
             new[s] = [data[s] EXCEPT ![Quiet!Day(opened)] =
                         [opened |-> opened, closed |-> Quiet!NotClosed]],
             Quiet!OpenDays(data, s) = {}, opened <= now,
             s \in Quiet!Held(rows) => Quiet!Day(opened) = Quiet!Day(rows[s].created),
             s \in buying => Quiet!Day(opened) = Quiet!Day(now)
      PROVE  /\ new[s][d].opened <= now
             /\ Quiet!OpenDays(new, s) = {d}
             /\ s \in Quiet!Held(rows)
                  => Quiet!Day(new[s][d].opened) = Quiet!Day(rows[s].created)
             /\ s \in buying => Quiet!Day(new[s][d].opened) = Quiet!Day(now)
  <2>1. data \in Quiet!Registry /\ Quiet!Day(opened) \in Quiet!Days
    BY RegistryConstants DEF Truthful, TruthfulOf
  <2>2. \A e \in Quiet!Days \ {Quiet!Day(opened)} : new[s][e] = data[s][e]
    BY <1>2, <2>1 DEF Quiet!Registry
  <2>3. new[s][Quiet!Day(opened)] = [opened |-> opened, closed |-> Quiet!NotClosed]
    BY <1>2, <2>1 DEF Quiet!Registry
  <2>4. \A e \in Quiet!OpenDays(new, s) : e = Quiet!Day(opened)
    BY <1>2, <2>2 DEF Quiet!OpenDays
  <2>5. d = Quiet!Day(opened) /\ Quiet!OpenDays(new, s) = {d}
    BY <2>4
  <2> QED BY <1>2, <2>3, <2>5
<1> QED BY <1>1, <1>2

\* syncPositionOpens opens the day of the row of every symbol that is held.
LEMMA SyncedIsTrue ==
  ASSUME NEW data, Truthful(data), RegistryTypes, buying = {}
  PROVE  /\ Quiet!Synced(data, rows) \in Quiet!Registry /\ Truthful(Quiet!Synced(data, rows))
         /\ \A s \in Quiet!Held(rows) : Quiet!OpenDays(Quiet!Synced(data, rows), s) # {}
         /\ \A s \in Tracked \ Quiet!Held(rows) : Quiet!Synced(data, rows)[s] = data[s]
<1> DEFINE new == Quiet!Synced(data, rows)
<1>0. data \in Quiet!Registry
  BY DEF Truthful, TruthfulOf
<1>1. \A s \in Tracked :
        new[s] = IF s \in Quiet!Held(rows) /\ Quiet!OpenDays(data, s) = {}
                 THEN [data[s] EXCEPT ![Quiet!Day(rows[s].created)] =
                         [opened |-> rows[s].created, closed |-> Quiet!NotClosed]]
                 ELSE data[s]
  BY DEF Quiet!Synced
<1>2. \A s \in Quiet!Held(rows) :
        /\ s \in Tracked /\ rows[s].created \in Quiet!Ticks /\ rows[s].created <= now
        /\ Quiet!Day(rows[s].created) \in Quiet!Days
        /\ [opened |-> rows[s].created, closed |-> Quiet!NotClosed] \in Quiet!Entry
  BY HeldAreTyped, RegistryConstants DEF RegistryTypes, Quiet!Entry
<1>3. new \in Quiet!Registry
  <2>1. \A s \in Tracked : new[s] \in [Quiet!Days -> Quiet!Entry \cup {NoEntry}]
    BY <1>0, <1>1, <1>2 DEF Quiet!Registry
  <2> QED BY <2>1 DEF Quiet!Synced, Quiet!Registry
<1>4. Truthful(new)
  <2>1. \A s \in Tracked :
          \/ new[s] = data[s]
          \/ \E opened \in Quiet!Ticks :
               /\ new[s] = [data[s] EXCEPT ![Quiet!Day(opened)] =
                              [opened |-> opened, closed |-> Quiet!NotClosed]]
               /\ Quiet!OpenDays(data, s) = {} /\ opened <= now
               /\ s \in Quiet!Held(rows) => Quiet!Day(opened) = Quiet!Day(rows[s].created)
               /\ s \in buying => Quiet!Day(opened) = Quiet!Day(now)
    BY <1>1, <1>2
  <2> HIDE DEF new
  <2> QED BY <1>3, <2>1, OneMoreOpenEntry
<1>5. ASSUME NEW s \in Quiet!Held(rows)
      PROVE  Quiet!OpenDays(new, s) # {}
  <2>1. CASE Quiet!OpenDays(data, s) = {}
    <3>1. new[s][Quiet!Day(rows[s].created)]
            = [opened |-> rows[s].created, closed |-> Quiet!NotClosed]
      BY <1>0, <1>1, <1>2, <2>1 DEF Quiet!Registry
    <3>2. [opened |-> rows[s].created, closed |-> Quiet!NotClosed] # NoEntry
      BY <1>2, RegistryConstants
    <3> QED BY <1>2, <3>1, <3>2 DEF Quiet!OpenDays
  <2>2. CASE Quiet!OpenDays(data, s) # {}
    BY <1>1, <1>2, <2>2 DEF Quiet!OpenDays
  <2> QED BY <2>1, <2>2
<1> QED BY <1>1, <1>3, <1>4, <1>5

\* recordPositionOpened opens today, where it opens at all.
LEMMA OpenedIsTrue ==
  ASSUME NEW data, Truthful(data), RegistryTypes, NEW s \in Tracked,
         s \in Quiet!Held(rows) => Quiet!Day(rows[s].created) = Quiet!Day(now)
  PROVE  Quiet!Opened(data, s) \in Quiet!Registry /\ Truthful(Quiet!Opened(data, s))
<1> DEFINE new == Quiet!Opened(data, s)
<1>0. /\ data \in Quiet!Registry /\ now \in Quiet!Ticks /\ now \in Nat
         /\ Quiet!Day(now) \in Quiet!Days
      /\ [opened |-> now, closed |-> Quiet!NotClosed] \in Quiet!Entry
  BY RegistryConstants DEF Truthful, TruthfulOf, RegistryTypes, Quiet!Entry
<1>1. CASE Quiet!OpenDays(data, s) # {}
  BY <1>0, <1>1 DEF Quiet!Opened
<1>2. CASE Quiet!OpenDays(data, s) = {}
  <2>1. new = [data EXCEPT ![s][Quiet!Day(now)] = [opened |-> now, closed |-> Quiet!NotClosed]]
    BY <1>2 DEF Quiet!Opened
  <2> HIDE DEF new
  <2>2. new \in Quiet!Registry
    BY <1>0, <2>1 DEF Quiet!Registry
  <2>3. /\ \A r \in Tracked \ {s} : new[r] = data[r]
        /\ new[s] = [data[s] EXCEPT ![Quiet!Day(now)] =
                       [opened |-> now, closed |-> Quiet!NotClosed]]
    BY <1>0, <2>1 DEF Quiet!Registry
  <2>4. \A r \in Tracked :
          \/ new[r] = data[r]
          \/ \E opened \in Quiet!Ticks :
               /\ new[r] = [data[r] EXCEPT ![Quiet!Day(opened)] =
                              [opened |-> opened, closed |-> Quiet!NotClosed]]
               /\ Quiet!OpenDays(data, r) = {} /\ opened <= now
               /\ r \in Quiet!Held(rows) => Quiet!Day(opened) = Quiet!Day(rows[r].created)
               /\ r \in buying => Quiet!Day(opened) = Quiet!Day(now)
    BY <1>0, <1>2, <2>3
  <2>5. Truthful(new)
    BY <2>2, <2>4, OneMoreOpenEntry
  <2> QED BY <2>2, <2>5 DEF new
<1> QED BY <1>1, <1>2

\* An edit is what the operations after it find, written or not.
LEMMA Edited ==
  ASSUME RegistryTypes, write["cycle"] = Quiet!NotWriting, NEW new \in Quiet!Registry,
         Quiet!Edit("cycle", new), file' = file
  PROVE  /\ Latest = Quiet!readRegistry /\ Latest' = new
            /\ Quiet!readRegistry' = Quiet!readRegistry
         /\ write' \in [{"cycle", "seeder"} -> {Quiet!NotWriting} \cup Writing]
         /\ write'["seeder"] = Quiet!NotWriting
<1>1. Quiet!NotWriting # [at |-> "ready", data |-> new]
      /\ [at |-> "ready", data |-> new] \in Writing
  <2>1. Quiet!NotWriting.at = "none" /\ [at |-> "ready", data |-> new].at = "ready"
    BY DEF Quiet!NotWriting
  <2> QED BY <2>1 DEF Writing
<1>2. Quiet!readRegistry' = Quiet!readRegistry
  BY DEF Quiet!readRegistry
<1>3. CASE new = Quiet!readRegistry
  BY <1>2, <1>3 DEF Quiet!Edit, Latest, RegistryTypes
<1>4. CASE new # Quiet!readRegistry
  <2>1. write' = [write EXCEPT !["cycle"] = [at |-> "ready", data |-> new]]
    BY <1>4 DEF Quiet!Edit
  <2>2. /\ write'["cycle"] = [at |-> "ready", data |-> new]
        /\ write'["seeder"] = Quiet!NotWriting
        /\ write' \in [{"cycle", "seeder"} -> {Quiet!NotWriting} \cup Writing]
    BY <1>1, <2>1 DEF RegistryTypes
  <2>3. Latest' = new
    BY <1>1, <2>2 DEF Latest
  <2> QED BY <1>2, <2>2, <2>3 DEF Latest
<1> QED BY <1>3, <1>4

\* The file that cannot be parsed claims nothing.
LEMMA EmptyIsTrue ==
  ASSUME NEW t, NEW broker, NEW ordered
  PROVE  Quiet!EmptyRegistry \in Quiet!Registry
         /\ TruthfulOf(Quiet!EmptyRegistry, t, broker, ordered)
<1>1. Quiet!EmptyRegistry \in Quiet!Registry /\ \A s \in Tracked :
      Quiet!OpenDays(Quiet!EmptyRegistry, s) = {}
  BY DEF Quiet!EmptyRegistry, Quiet!Registry, Quiet!OpenDays
<1> QED BY <1>1 DEF TruthfulOf

\* A registry stays true while time passes and positions open, close and are ordered,
\* if what opens was ordered today and what is ordered has no entry of an earlier day.
LEMMA TruthLasts ==
  ASSUME NEW data, NEW t \in Quiet!Ticks, NEW broker, NEW ordered,
         TruthfulOf(data, t, broker, ordered),
         NEW u \in Quiet!Ticks, t <= u, NEW later, NEW then,
         \A s \in Tracked :
           s \in Quiet!Held(later) =>
             \/ s \in Quiet!Held(broker) /\ later[s] = broker[s]
             \/ s \in ordered /\ Quiet!Day(later[s].created) = Quiet!Day(t),
         \A s \in Tracked :
           s \in then =>
             /\ Quiet!Day(u) = Quiet!Day(t)
             /\ s \in ordered \/ \A d \in Quiet!OpenDays(data, s) :
                  Quiet!Day(data[s][d].opened) = Quiet!Day(t)
  PROVE  TruthfulOf(data, u, later, then)
<1>1. data \in Quiet!Registry
  BY DEF TruthfulOf
<1> SUFFICES ASSUME NEW s \in Tracked, NEW d \in Quiet!OpenDays(data, s)
             PROVE  /\ data[s][d].opened <= u
                    /\ Quiet!OpenDays(data, s) = {d}
                    /\ s \in Quiet!Held(later)
                         => Quiet!Day(data[s][d].opened) = Quiet!Day(later[s].created)
                    /\ s \in then => Quiet!Day(data[s][d].opened) = Quiet!Day(u)
  BY <1>1 DEF TruthfulOf
<1>2. /\ data[s][d].opened <= t
      /\ Quiet!OpenDays(data, s) = {d}
      /\ s \in Quiet!Held(broker) => Quiet!Day(data[s][d].opened) = Quiet!Day(broker[s].created)
      /\ s \in ordered => Quiet!Day(data[s][d].opened) = Quiet!Day(t)
  BY DEF TruthfulOf
<1>3. data[s][d].opened \in Nat /\ t \in Nat /\ u \in Nat
  BY <1>1, EntriesAreTyped, RegistryConstants
<1>4. data[s][d].opened <= u
  BY <1>2, <1>3
<1>5. s \in Quiet!Held(later) => Quiet!Day(data[s][d].opened) = Quiet!Day(later[s].created)
  BY <1>2
<1>6. s \in then => Quiet!Day(data[s][d].opened) = Quiet!Day(u)
  BY <1>2
<1> QED BY <1>2, <1>4, <1>5, <1>6

\* The file is read empty while it is written, and holds what was written then.
LEMMA WritingKeepsRegistry ==
  ASSUME RegistryInv, NEW w \in {"cycle", "seeder"}, Quiet!Truncate(w) \/ Quiet!Fill(w)
  PROVE  RegistryInv'
<1> USE DEF RegistryInv
<1>1. w = "cycle" /\ write["cycle"] \in Writing
  <2>1. write[w] \in {Quiet!NotWriting} \cup Writing /\ write[w].at # "none"
    BY DEF RegistryTypes, Quiet!Truncate, Quiet!Fill
  <2> QED BY <2>1 DEF Quiet!NotWriting, RegistryTypes
<1>2. /\ UNCHANGED <<now, rows, buying, selling, registryCycle, seeder>>
      /\ write["cycle"].data \in Quiet!Registry /\ write["cycle"] # Quiet!NotWriting
      /\ Latest = write["cycle"].data
  <2>1. write["cycle"].at \in {"ready", "open"} /\ Quiet!NotWriting.at = "none"
    BY <1>1 DEF Writing, Quiet!NotWriting
  <2> QED BY <1>1, <2>1 DEF Quiet!Truncate, Quiet!Fill, Writing, Latest
<1>3. /\ Latest' = Latest /\ TruthfulOf(Quiet!readRegistry', now, rows, buying)
      /\ file' \in Quiet!Registry \cup {Torn}
      /\ write' \in [{"cycle", "seeder"} -> {Quiet!NotWriting} \cup Writing]
      /\ write'["seeder"] = Quiet!NotWriting
  <2>1. CASE Quiet!Truncate("cycle")
    <3>1. file' = Torn /\ Quiet!readRegistry' = Quiet!EmptyRegistry
      BY <2>1 DEF Quiet!Truncate, Quiet!readRegistry
    <3>2. write' = [write EXCEPT !["cycle"] = [at |-> "open", data |-> write["cycle"].data]]
      <4>1. write' = [write EXCEPT !["cycle"].at = "open"]
        BY <2>1 DEF Quiet!Truncate
      <4>2. write' = [write EXCEPT !["cycle"] = [write["cycle"] EXCEPT !.at = "open"]]
        BY <4>1
      <4>3. [write["cycle"] EXCEPT !.at = "open"]
              = [at |-> "open", data |-> write["cycle"].data]
        BY <1>1 DEF Writing
      <4> QED BY <4>2, <4>3
    <3>3. /\ [at |-> "open", data |-> write["cycle"].data] \in Writing
          /\ [at |-> "open", data |-> write["cycle"].data].at # Quiet!NotWriting.at
      BY <1>2 DEF Writing, Quiet!NotWriting
    <3>4. /\ write' \in [{"cycle", "seeder"} -> {Quiet!NotWriting} \cup Writing]
          /\ write'["seeder"] = Quiet!NotWriting
          /\ write'["cycle"] = [at |-> "open", data |-> write["cycle"].data]
      BY <3>2, <3>3 DEF RegistryTypes
    <3>5. Latest' = write["cycle"].data
      BY <3>3, <3>4 DEF Latest
    <3> QED BY <1>2, <3>1, <3>4, <3>5, EmptyIsTrue
  <2>2. CASE Quiet!Fill("cycle")
    <3>1. write["cycle"].at = "open" /\ file' = write["cycle"].data
      BY <1>1, <2>2 DEF Quiet!Fill, Writing
    <3>2. /\ write' \in [{"cycle", "seeder"} -> {Quiet!NotWriting} \cup Writing]
          /\ write'["seeder"] = Quiet!NotWriting /\ write'["cycle"] = Quiet!NotWriting
      <4>1. write' = [v \in DOMAIN write |->
                        IF v = "cycle" THEN Quiet!NotWriting
                        ELSE IF write[v].at = "open"
                             THEN [write[v] EXCEPT !.at = "overlapped"] ELSE write[v]]
        BY <2>2 DEF Quiet!Fill
      <4>2. write["seeder"].at = "none"
        BY DEF RegistryTypes, Quiet!NotWriting
      <4>3. DOMAIN write = {"cycle", "seeder"}
        BY DEF RegistryTypes
      <4>4. /\ DOMAIN write' = {"cycle", "seeder"} /\ write'["cycle"] = Quiet!NotWriting
            /\ write'["seeder"] = Quiet!NotWriting
            /\ write' = [v \in DOMAIN write' |-> write'[v]]
        BY <4>1, <4>2, <4>3 DEF RegistryTypes
      <4> QED BY <4>4
    <3>3. Quiet!readRegistry' = write["cycle"].data /\ Latest' = write["cycle"].data
      BY <1>2, <3>1, <3>2, RegistryConstants DEF Quiet!readRegistry, Latest
    <3>4. TruthfulOf(write["cycle"].data, now, rows, buying)
      BY <1>2 DEF CopiesInv, Truthful
    <3> QED BY <1>2, <3>1, <3>2, <3>3, <3>4
  <2> QED BY <1>1, <2>1, <2>2
<1>4. RegistryTypes'
  BY <1>2, <1>3 DEF RegistryTypes
<1>5. CopiesInv'
  BY <1>2, <1>3 DEF CopiesInv, Truthful
<1>6. TradesInv' /\ Quiet!OvernightIsTrue'
  BY <1>2 DEF TradesInv, Quiet!OvernightIsTrue
<1>7. StageInv'
  BY <1>2, <1>3 DEF StageInv, OpenedToday
<1> QED BY <1>4, <1>5, <1>6, <1>7

\* What the registry's state is when the cycle reads and edits it: nothing is being
\* written, and the edited copy is what the operations after it find.
LEMMA CycleEdits ==
  ASSUME RegistryInv, write["cycle"] = Quiet!NotWriting,
         NEW new, Truthful(new), Quiet!Edit("cycle", new), file' = file,
         UNCHANGED <<now, rows, seeder>>, buying' \subseteq buying, selling' \subseteq selling
  PROVE  /\ RegistryTypes' /\ CopiesInv'
         /\ Latest = Quiet!readRegistry /\ Latest' = new
<1>1. new \in Quiet!Registry
  BY DEF Truthful, TruthfulOf
<1>2. /\ Latest = Quiet!readRegistry /\ Latest' = new
         /\ Quiet!readRegistry' = Quiet!readRegistry
      /\ write' \in [{"cycle", "seeder"} -> {Quiet!NotWriting} \cup Writing]
      /\ write'["seeder"] = Quiet!NotWriting
  BY <1>1, Edited DEF RegistryInv
<1>3. RegistryTypes'
  BY <1>2 DEF RegistryInv, RegistryTypes
<1>4. TruthfulOf(Quiet!readRegistry, now, rows, buying') /\ TruthfulOf(new, now, rows, buying')
  BY DEF RegistryInv, CopiesInv, Truthful, TruthfulOf
<1>5. CopiesInv'
  BY <1>2, <1>4 DEF CopiesInv, Truthful
<1> QED BY <1>2, <1>3, <1>5

\* The sweep leaves no order, and pruning opens nothing.
LEMMA CycleBeginsKeeps ==
  ASSUME RegistryInv, Quiet!CycleBegins
  PROVE  RegistryInv'
<1>1. /\ write["cycle"] = Quiet!NotWriting /\ registryCycle' = [at |-> "snapshot"]
      /\ buying' = {} /\ selling' = {}
      /\ Quiet!Edit("cycle", Quiet!Pruned(Quiet!readRegistry)) /\ UNCHANGED <<now, rows, file,
           seeder>>
  BY DEF Quiet!CycleBegins, Quiet!At
<1>2. Truthful(Quiet!Pruned(Quiet!readRegistry))
  BY PrunedIsTrue DEF RegistryInv, CopiesInv
<1>3. RegistryTypes' /\ CopiesInv'
  BY <1>1, <1>2, CycleEdits
<1>4. registryCycle'.at = "snapshot"
  BY <1>1
<1>5. TradesInv' /\ StageInv' /\ Quiet!OvernightIsTrue'
  BY <1>1, <1>4 DEF TradesInv, StageInv, Quiet!OvernightIsTrue
<1> QED BY <1>3, <1>5 DEF RegistryInv

\* The snapshot is what the broker shows, and nothing trades before it is used.
LEMMA SnapshotKeeps ==
  ASSUME RegistryInv, Quiet!TakeSnapshot
  PROVE  RegistryInv'
<1>1. /\ registryCycle.at = "snapshot" /\ registryCycle' = [at |-> "reconcile", rows |-> rows]
      /\ UNCHANGED <<now, rows, buying, selling, file, write, seeder>>
  BY DEF Quiet!TakeSnapshot, Quiet!At
<1>2. registryCycle'.at = "reconcile" /\ registryCycle'.rows = rows /\ buying = {}
      /\ selling = {}
  BY <1>1 DEF RegistryInv, TradesInv
<1>3. Latest' = Latest /\ Quiet!readRegistry' = Quiet!readRegistry
  BY <1>1 DEF Latest, Quiet!readRegistry
<1>4. RegistryTypes' /\ CopiesInv'
  BY <1>1, <1>3 DEF RegistryInv, RegistryTypes, CopiesInv, Truthful
<1>5. TradesInv' /\ StageInv' /\ Quiet!OvernightIsTrue'
  BY <1>1, <1>2 DEF TradesInv, StageInv, Quiet!OvernightIsTrue
<1> QED BY <1>4, <1>5 DEF RegistryInv

\* After reconciliation, what is not held has entries of today only.
LEMMA ReconcileKeeps ==
  ASSUME RegistryInv, Quiet!Reconcile
  PROVE  RegistryInv'
<1> DEFINE new == Quiet!Reconciled(Quiet!readRegistry, Quiet!Held(rows))
<1>1. /\ registryCycle.at = "reconcile" /\ write["cycle"] = Quiet!NotWriting
      /\ registryCycle = [at |-> "reconcile", rows |-> rows]
      /\ UNCHANGED <<now, rows, buying, selling, file, seeder>>
      /\ buying = {} /\ selling = {}
  BY DEF Quiet!Reconcile, Quiet!At, RegistryInv, StageInv, TradesInv
<1>2. /\ registryCycle' = [at |-> "sync", rows |-> rows] /\ Quiet!Edit("cycle", new)
      /\ registryCycle'.at = "sync" /\ registryCycle'.rows = rows
  BY <1>1 DEF Quiet!Reconcile
<1>3. Truthful(new) /\ \A s \in Tracked \ Quiet!Held(rows) : OpenedToday(new, s)
  BY ReconciledIsTrue DEF RegistryInv, CopiesInv, RegistryTypes
<1> HIDE DEF new
<1>4. RegistryTypes' /\ CopiesInv' /\ Latest' = new
  BY <1>1, <1>2, <1>3, CycleEdits
<1>5. TradesInv' /\ Quiet!OvernightIsTrue'
  BY <1>1, <1>2 DEF TradesInv, Quiet!OvernightIsTrue
<1>6. StageInv'
  BY <1>1, <1>2, <1>3, <1>4 DEF StageInv, OpenedToday
<1> QED BY <1>4, <1>5, <1>6 DEF RegistryInv

\* After the sync, what is held has an open entry.
LEMMA SyncKeeps ==
  ASSUME RegistryInv, Quiet!Sync
  PROVE  RegistryInv'
<1> DEFINE new == Quiet!Synced(Quiet!readRegistry, rows)
<1>1. /\ registryCycle.at = "sync" /\ write["cycle"] = Quiet!NotWriting
      /\ registryCycle = [at |-> "sync", rows |-> rows]
      /\ UNCHANGED <<now, rows, buying, selling, file, seeder>>
      /\ buying = {} /\ selling = {} /\ Latest = Quiet!readRegistry
  BY DEF Quiet!Sync, Quiet!At, RegistryInv, StageInv, TradesInv, Latest
<1>2. /\ registryCycle' = [at |-> "overnight", rows |-> rows] /\ Quiet!Edit("cycle", new)
      /\ registryCycle'.at = "overnight" /\ registryCycle'.rows = rows
  BY <1>1 DEF Quiet!Sync
<1>3. /\ Truthful(new)
      /\ \A s \in Quiet!Held(rows) : Quiet!OpenDays(new, s) # {}
      /\ \A s \in Tracked \ Quiet!Held(rows) : new[s] = Quiet!readRegistry[s]
  BY <1>1, SyncedIsTrue DEF RegistryInv, CopiesInv
<1>4. \A s \in Tracked \ Quiet!Held(rows) : OpenedToday(new, s)
  BY <1>1, <1>3 DEF RegistryInv, StageInv, OpenedToday, Quiet!OpenDays
<1> HIDE DEF new
<1>5. RegistryTypes' /\ CopiesInv' /\ Latest' = new
  BY <1>1, <1>2, <1>3, CycleEdits
<1>6. TradesInv' /\ Quiet!OvernightIsTrue'
  BY <1>1, <1>2 DEF TradesInv, Quiet!OvernightIsTrue
<1>7. StageInv'
  BY <1>1, <1>2, <1>3, <1>4, <1>5 DEF StageInv, OpenedToday
<1> QED BY <1>5, <1>6, <1>7 DEF RegistryInv

\* The override decides by the day of the one open entry, the day of the position.
LEMMA OvernightKeeps ==
  ASSUME RegistryInv, Quiet!ReadOvernight
  PROVE  RegistryInv'
<1> DEFINE found == {s \in Quiet!Held(rows) : Quiet!isOvernight(Quiet!readRegistry, s)}
<1>1. /\ registryCycle.at = "overnight" /\ write["cycle"] = Quiet!NotWriting
      /\ registryCycle = [at |-> "overnight", rows |-> rows]
      /\ UNCHANGED <<now, rows, buying, selling, file, write, seeder>>
      /\ buying = {} /\ selling = {} /\ Latest = Quiet!readRegistry
  BY DEF Quiet!ReadOvernight, Quiet!At, RegistryInv, StageInv, TradesInv, Latest
<1>2. /\ registryCycle' = [at |-> "close", rows |-> rows, overnight |-> found]
      /\ registryCycle'.at = "close" /\ registryCycle'.rows = rows
           /\ registryCycle'.overnight = found
  BY <1>1 DEF Quiet!ReadOvernight
<1>3. Latest' = Latest /\ Quiet!readRegistry' = Quiet!readRegistry
  BY <1>1 DEF Latest, Quiet!readRegistry
<1>4. RegistryTypes' /\ CopiesInv'
  BY <1>1, <1>3 DEF RegistryInv, RegistryTypes, CopiesInv, Truthful
<1>5. TradesInv'
  BY <1>1, <1>2 DEF TradesInv
<1>6. StageInv'
  BY <1>1, <1>2, <1>3 DEF RegistryInv, StageInv, OpenedToday
<1>7. ASSUME NEW s \in Quiet!Held(rows)
      PROVE  Quiet!isOvernight(Quiet!readRegistry, s)
             <=> Quiet!Day(rows[s].created) < Quiet!Day(now)
  <2>1. s \in Tracked /\ rows[s].created \in Quiet!Ticks /\ rows[s].created <= now
        /\ now \in Quiet!Ticks
    BY HeldAreTyped DEF RegistryInv, RegistryTypes
  <2>2. PICK d \in Quiet!OpenDays(Quiet!readRegistry, s) : TRUE
    BY <1>1 DEF RegistryInv, StageInv
  <2>3. Quiet!Day(Quiet!readRegistry[s][d].opened) = Quiet!Day(rows[s].created)
    BY <2>1, <2>2 DEF RegistryInv, CopiesInv, Truthful, TruthfulOf
  <2>4. Quiet!openEntryDay(Quiet!readRegistry, s) = d
    BY <2>1, <2>2, TheOpenEntry DEF RegistryInv, CopiesInv
  <2>5. Quiet!isOvernight(Quiet!readRegistry, s) <=> Quiet!Day(rows[s].created) # Quiet!Day(now)
    BY <2>2, <2>3, <2>4 DEF Quiet!isOvernight
  <2>6. Quiet!Day(rows[s].created) \in Nat /\ Quiet!Day(now) \in Nat
        /\ Quiet!Day(rows[s].created) <= Quiet!Day(now)
    BY <2>1, DaysInOrder
  <2> QED BY <2>5, <2>6
<1>8. found = {s \in Quiet!Held(rows) : Quiet!Day(rows[s].created) < Quiet!Day(now)}
  BY <1>7
<1> HIDE DEF found
<1>9. Quiet!OvernightIsTrue'
  BY <1>1, <1>2, <1>8 DEF Quiet!OvernightIsTrue
<1> QED BY <1>4, <1>5, <1>6, <1>9 DEF RegistryInv

\* A close is placed for what the cycle saw held.
LEMMA PlaceCloseKeeps ==
  ASSUME RegistryInv, Quiet!PlaceClose
  PROVE  RegistryInv'
<1>1. /\ registryCycle.at = "close" /\ registryCycle.rows = rows
      /\ UNCHANGED <<now, rows, buying, file, write, seeder>>
      /\ buying = {} /\ selling = {}
  BY DEF Quiet!PlaceClose, Quiet!At, RegistryInv, StageInv, TradesInv
<1>2. Latest' = Latest /\ Quiet!readRegistry' = Quiet!readRegistry
  BY <1>1 DEF Latest, Quiet!readRegistry
<1>3. selling' \subseteq Quiet!Held(rows) /\ Quiet!Held(rows) \subseteq Tracked
  BY <1>1 DEF Quiet!PlaceClose, Quiet!Held
<1>4. RegistryTypes' /\ CopiesInv'
  BY <1>1, <1>2, <1>3 DEF RegistryInv, RegistryTypes, CopiesInv, Truthful
<1>5. ASSUME NEW s \in Quiet!Held(rows), selling' = selling \cup (Quiet!Held(rows) \cap {s}),
             registryCycle' = [at |-> "recordClose", rows |-> rows, symbol |-> s]
      PROVE  TradesInv' /\ StageInv' /\ Quiet!OvernightIsTrue'
  <2>1. registryCycle'.at = "recordClose" /\ registryCycle'.rows = rows
        /\ registryCycle'.symbol = s
    BY <1>5
  <2>2. TradesInv' /\ Quiet!OvernightIsTrue'
    BY <1>1, <1>5, <2>1 DEF TradesInv, Quiet!OvernightIsTrue
  <2>3. StageInv'
    BY <1>1, <1>2, <2>1 DEF RegistryInv, RegistryTypes, StageInv, OpenedToday
  <2> QED BY <2>2, <2>3
<1>6. ASSUME selling' = selling, registryCycle' = [at |-> "seed", closed |-> {}]
      PROVE  TradesInv' /\ StageInv' /\ Quiet!OvernightIsTrue'
  <2>1. registryCycle'.at = "seed" /\ registryCycle'.closed = {}
    BY <1>6
  <2>2. TradesInv' /\ Quiet!OvernightIsTrue'
    BY <1>1, <1>6, <2>1 DEF TradesInv, Quiet!OvernightIsTrue
  <2>3. StageInv'
    BY <1>1, <1>2, <2>1 DEF RegistryInv, StageInv, OpenedToday
  <2> QED BY <2>2, <2>3
<1>7. TradesInv' /\ StageInv' /\ Quiet!OvernightIsTrue'
  BY <1>1, <1>5, <1>6 DEF Quiet!PlaceClose
<1> QED BY <1>4, <1>7 DEF RegistryInv

\* A recorded close opens nothing, whether or not the order fills.
LEMMA RecordCloseKeeps ==
  ASSUME RegistryInv, Quiet!RecordClose
  PROVE  RegistryInv'
<1> DEFINE new == Quiet!Closed(Quiet!readRegistry, registryCycle.symbol,
    registryCycle.rows[registryCycle.symbol].created)
<1>1. /\ registryCycle.at = "recordClose" /\ write["cycle"] = Quiet!NotWriting
      /\ UNCHANGED <<now, rows, buying, selling, file, seeder>>
      /\ buying = {} /\ selling \subseteq {registryCycle.symbol} /\ Latest = Quiet!readRegistry
      /\ Quiet!Edit("cycle", new)
           /\ registryCycle' = [at |-> "seed", closed |-> {registryCycle.symbol}]
  BY DEF Quiet!RecordClose, Quiet!At, RegistryInv, TradesInv, Latest
<1>2. registryCycle'.at = "seed" /\ registryCycle'.closed = {registryCycle.symbol}
  BY <1>1
<1>3. /\ registryCycle.symbol \in Tracked
         /\ registryCycle.rows[registryCycle.symbol].created \in Quiet!Ticks
      /\ Quiet!Held(registryCycle.rows) \subseteq Quiet!Held(rows) \cup {registryCycle.symbol}
  BY <1>1, HeldAreTyped DEF RegistryInv, StageInv
<1>4. Truthful(new) /\ \A s \in Tracked \ {registryCycle.symbol} :
      new[s] = Quiet!readRegistry[s]
  BY <1>3, ClosedIsTrue DEF RegistryInv, CopiesInv, RegistryTypes
<1>5. \A s \in Tracked \ (Quiet!Held(rows) \cup {registryCycle.symbol}) : OpenedToday(new, s)
  BY <1>1, <1>3, <1>4 DEF RegistryInv, StageInv, OpenedToday, Quiet!OpenDays
<1> HIDE DEF new
<1>6. RegistryTypes' /\ CopiesInv' /\ Latest' = new
  BY <1>1, <1>4, CycleEdits
<1>7. TradesInv' /\ Quiet!OvernightIsTrue'
  BY <1>1, <1>2 DEF TradesInv, Quiet!OvernightIsTrue
<1>8. StageInv'
  BY <1>1, <1>2, <1>5, <1>6 DEF StageInv, OpenedToday
<1> QED BY <1>6, <1>7, <1>8 DEF RegistryInv

\* What is seeded has no entry of an earlier day: the cycle saw to that before.
LEMMA PlaceSeedKeeps ==
  ASSUME RegistryInv, Quiet!PlaceSeed
  PROVE  RegistryInv'
<1>1. /\ registryCycle.at = "seed" /\ write["cycle"] = Quiet!NotWriting
      /\ UNCHANGED <<now, rows, selling, file, write, seeder>>
      /\ buying = {} /\ Latest = Quiet!readRegistry /\ now \in Quiet!Ticks
      /\ TruthfulOf(Quiet!readRegistry, now, rows, {})
  BY DEF Quiet!PlaceSeed, Quiet!At, RegistryInv, RegistryTypes, TradesInv, Latest, CopiesInv,
    Truthful
<1>2. Latest' = Latest /\ Quiet!readRegistry' = Quiet!readRegistry
  BY <1>1 DEF Latest, Quiet!readRegistry
<1>3. ASSUME NEW s \in Tracked \ (registryCycle.closed \cup Quiet!Held(rows)),
             buying' = buying \cup {s}, registryCycle' = [at |-> "recordOpen", symbol |-> s]
      PROVE  RegistryInv'
  <2>1. registryCycle'.at = "recordOpen" /\ registryCycle'.symbol = s /\ buying' = {s}
    BY <1>1, <1>3
  <2>2. OpenedToday(Quiet!readRegistry, s)
    BY <1>1, <1>3 DEF RegistryInv, StageInv
  <2>3. RegistryTypes'
    BY <1>1, <1>3 DEF RegistryInv, RegistryTypes
  <2>4. TruthfulOf(Quiet!readRegistry, now, rows, {s})
    BY <1>1, <2>2 DEF TruthfulOf, OpenedToday
  <2>5. CopiesInv'
    BY <1>1, <1>2, <2>1, <2>4 DEF CopiesInv, Truthful
  <2>6. TradesInv' /\ Quiet!OvernightIsTrue' /\ StageInv'
    BY <1>1, <1>3, <2>1 DEF TradesInv, Quiet!OvernightIsTrue, StageInv
  <2> QED BY <2>3, <2>5, <2>6 DEF RegistryInv
<1>4. ASSUME buying' = buying, registryCycle' = Quiet!NoCycle
      PROVE  RegistryInv'
  <2>1. registryCycle'.at = "idle" /\ buying' = {}
    BY <1>1, <1>4 DEF Quiet!NoCycle
  <2>2. RegistryTypes' /\ CopiesInv'
    BY <1>1, <1>2, <1>4 DEF RegistryInv, RegistryTypes, CopiesInv, Truthful
  <2>3. TradesInv' /\ Quiet!OvernightIsTrue' /\ StageInv'
    BY <2>1 DEF TradesInv, Quiet!OvernightIsTrue, StageInv
  <2> QED BY <2>2, <2>3 DEF RegistryInv
<1> QED BY <1>3, <1>4 DEF Quiet!PlaceSeed

\* A seed is recorded on the day it was placed.
LEMMA RecordOpenKeeps ==
  ASSUME RegistryInv, Quiet!RecordOpen
  PROVE  RegistryInv'
<1> DEFINE new == Quiet!Opened(Quiet!readRegistry, registryCycle.symbol)
<1>1. /\ registryCycle.at = "recordOpen" /\ write["cycle"] = Quiet!NotWriting
      /\ UNCHANGED <<now, rows, buying, selling, file, seeder>>
      /\ Quiet!Edit("cycle", new) /\ registryCycle' = Quiet!NoCycle
      /\ registryCycle.symbol \in Tracked
      /\ registryCycle.symbol \in Quiet!Held(rows)
           => Quiet!Day(rows[registryCycle.symbol].created) = Quiet!Day(now)
  BY DEF Quiet!RecordOpen, Quiet!At, RegistryInv, StageInv
<1>2. Truthful(new)
  BY <1>1, OpenedIsTrue DEF RegistryInv, CopiesInv
<1> HIDE DEF new
<1>3. RegistryTypes' /\ CopiesInv'
  BY <1>1, <1>2, CycleEdits
<1>4. registryCycle'.at = "idle"
  BY <1>1 DEF Quiet!NoCycle
<1>5. TradesInv' /\ Quiet!OvernightIsTrue' /\ StageInv'
  BY <1>4 DEF TradesInv, Quiet!OvernightIsTrue, StageInv
<1> QED BY <1>3, <1>5 DEF RegistryInv

\* The broker, between two steps of the cycle.
LEMMA TradingKeeps ==
  ASSUME RegistryInv, Quiet!PositionOpens \/ Quiet!PositionCloses \/ Quiet!OrderEnds
  PROVE  RegistryInv'
<1> USE DEF RegistryInv
<1>0. /\ UNCHANGED <<now, file, write, registryCycle, seeder>> /\ now \in Quiet!Ticks
         /\ now <= now
      /\ Latest' = Latest /\ Quiet!readRegistry' = Quiet!readRegistry
      /\ rows \in [Tracked -> Quiet!Row \cup {NoRow}] /\ RegistryTypes
  BY RegistryConstants DEF Quiet!PositionOpens, Quiet!PositionCloses, Quiet!OrderEnds, Latest,
    Quiet!readRegistry,
       RegistryTypes, Quiet!Ticks
<1>1. ASSUME rows' \in [Tracked -> Quiet!Row \cup {NoRow}],
             \A s \in Quiet!Held(rows') : rows'[s].created <= now,
             buying' \subseteq buying, selling' \subseteq selling,
             \A s \in Quiet!Held(rows') :
               \/ s \in Quiet!Held(rows) /\ rows'[s] = rows[s]
               \/ s \in buying /\ rows'[s].created = now
      PROVE  RegistryTypes' /\ CopiesInv' /\ TradesInv' /\ Quiet!OvernightIsTrue'
  <2>1. RegistryTypes' /\ TradesInv' /\ Quiet!OvernightIsTrue'
    BY <1>0, <1>1 DEF RegistryTypes, TradesInv, Quiet!OvernightIsTrue
  <2>2. /\ TruthfulOf(Quiet!readRegistry, now, rows', buying')
        /\ TruthfulOf(Latest, now, rows', buying')
    <3> SUFFICES ASSUME NEW data, TruthfulOf(data, now, rows, buying)
                 PROVE  TruthfulOf(data, now, rows', buying')
      BY DEF CopiesInv, Truthful
    <3>1. /\ \A s \in Tracked : s \in Quiet!Held(rows') =>
               \/ s \in Quiet!Held(rows) /\ rows'[s] = rows[s]
               \/ s \in buying /\ Quiet!Day(rows'[s].created) = Quiet!Day(now)
          /\ \A s \in Tracked : s \in buying' => s \in buying
      BY <1>1
    <3> QED BY <1>0, <3>1, TruthLasts
  <2>3. CopiesInv'
    BY <1>0, <2>2 DEF CopiesInv, Truthful
  <2> QED BY <2>1, <2>3
<1>2. CASE Quiet!PositionOpens
  <2>1. PICK s \in Tracked \ Quiet!Held(rows) :
          /\ s \in buying
          /\ rows' = [rows EXCEPT ![s] = [created |-> now, open |-> TRUE]]
          /\ buying' = buying \ {s} /\ selling' = selling
    BY <1>2 DEF Quiet!PositionOpens
  <2>2. [created |-> now, open |-> TRUE] \in Quiet!Row
    BY <1>0 DEF Quiet!Row
  <2>3. /\ rows' \in [Tracked -> Quiet!Row \cup {NoRow}]
        /\ rows'[s].created = now
        /\ \A r \in Tracked \ {s} : rows'[r] = rows[r]
    BY <1>0, <2>1, <2>2
  <2>4. \A r \in Quiet!Held(rows') : r = s \/ (r \in Quiet!Held(rows) /\ rows'[r] = rows[r])
    BY <2>3 DEF Quiet!Held
  <2>5. \A r \in Quiet!Held(rows') : rows'[r].created <= now
    BY <1>0, <2>3, <2>4 DEF RegistryTypes
  <2>6. RegistryTypes' /\ CopiesInv' /\ TradesInv' /\ Quiet!OvernightIsTrue'
    BY <1>1, <2>1, <2>3, <2>4, <2>5
  <2>7. registryCycle.at \in {"idle", "recordOpen"} /\ registryCycle'.at = registryCycle.at
    BY <1>0, <2>1 DEF TradesInv
  <2>8. registryCycle.at = "recordOpen" =>
          /\ registryCycle'.symbol \in Tracked
          /\ registryCycle'.symbol \in Quiet!Held(rows')
               => Quiet!Day(rows'[registryCycle'.symbol].created) = Quiet!Day(now')
    BY <1>0, <2>3, <2>4 DEF StageInv
  <2>9. StageInv'
    BY <2>7, <2>8 DEF StageInv
  <2> QED BY <2>6, <2>9
<1>3. CASE Quiet!PositionCloses
  <2>1. PICK s \in Quiet!Held(rows) :
          /\ s \in selling
          /\ rows' = [rows EXCEPT ![s].open = FALSE]
          /\ buying' = buying /\ selling' = selling \ {s}
    BY <1>3 DEF Quiet!PositionCloses
  <2>2. s \in Tracked /\ [rows[s] EXCEPT !.open = FALSE] \in Quiet!Row
        /\ ~[rows[s] EXCEPT !.open = FALSE].open
    BY <1>0, HeldAreTyped DEF Quiet!Row
  <2>3. /\ rows' \in [Tracked -> Quiet!Row \cup {NoRow}]
        /\ rows'[s] = [rows[s] EXCEPT !.open = FALSE]
        /\ \A r \in Tracked \ {s} : rows'[r] = rows[r]
    <3>1. rows' = [rows EXCEPT ![s] = [rows[s] EXCEPT !.open = FALSE]]
      BY <2>1
    <3> QED BY <1>0, <2>2, <3>1
  <2>4. Quiet!Held(rows') = Quiet!Held(rows) \ {s} /\ \A r \in Quiet!Held(rows') :
        rows'[r] = rows[r]
    BY <2>2, <2>3 DEF Quiet!Held
  <2>5. \A r \in Quiet!Held(rows') : rows'[r].created <= now
    BY <1>0, <2>4 DEF RegistryTypes
  <2>6. RegistryTypes' /\ CopiesInv' /\ TradesInv' /\ Quiet!OvernightIsTrue'
    BY <1>1, <2>1, <2>3, <2>4, <2>5
  <2>7. /\ registryCycle.at \in {"recordClose", "seed", "recordOpen", "idle"}
           /\ registryCycle' = registryCycle
        /\ registryCycle.at = "recordClose" => s = registryCycle.symbol
        /\ registryCycle.at = "seed" => s \in registryCycle.closed
    BY <1>0, <2>1 DEF TradesInv
  <2>8. StageInv'
    BY <1>0, <2>4, <2>7 DEF StageInv, OpenedToday
  <2> QED BY <2>6, <2>8
<1>4. CASE Quiet!OrderEnds
  <2>1. rows' = rows /\ buying' \subseteq buying /\ selling' \subseteq selling
    BY <1>4 DEF Quiet!OrderEnds
  <2>2. RegistryTypes' /\ CopiesInv' /\ TradesInv' /\ Quiet!OvernightIsTrue'
    BY <1>0, <1>1, <2>1 DEF RegistryTypes
  <2>3. StageInv'
    BY <1>0, <2>1 DEF StageInv, OpenedToday
  <2> QED BY <2>2, <2>3
<1> QED BY <1>2, <1>3, <1>4

\* Over night the cycle is idle; in the day its steps rely on the day alone.
LEMMA TickKeepsRegistry ==
  ASSUME RegistryInv, Quiet!Tick
  PROVE  RegistryInv'
<1> USE DEF RegistryInv
<1>1. /\ now' = now + 1 /\ now \in Quiet!Ticks /\ now' \in Quiet!Ticks /\ now <= now'
      /\ UNCHANGED <<file, write, registryCycle, seeder>> /\ Latest' = Latest
      /\ Quiet!readRegistry' = Quiet!readRegistry
  BY RegistryConstants DEF Quiet!Tick, RegistryTypes, Quiet!Ticks, Latest, Quiet!readRegistry
<1>2. /\ rows' \in [Tracked -> Quiet!Row \cup {NoRow}]
      /\ Quiet!Held(rows') = Quiet!Held(rows) /\ \A s \in Quiet!Held(rows) : rows'[s] = rows[s]
      /\ selling' \subseteq selling /\ buying' \subseteq buying
      /\ Quiet!Day(now') = Quiet!Day(now) => UNCHANGED <<rows, buying, selling>>
      /\ Quiet!Day(now') # Quiet!Day(now) => buying' = {} /\ registryCycle = Quiet!NoCycle
  <2>1. CASE Quiet!Day(now + 1) = Quiet!Day(now)
    BY <1>1, <2>1 DEF Quiet!Tick, RegistryTypes
  <2>2. CASE Quiet!Day(now + 1) # Quiet!Day(now)
    <3>1. /\ registryCycle = Quiet!NoCycle /\ buying' = {} /\ selling' = {}
          /\ rows' = [s \in Tracked |-> IF s \in Quiet!Held(rows) THEN rows[s] ELSE NoRow]
      BY <2>2 DEF Quiet!Tick
    <3>2. /\ rows' \in [Tracked -> Quiet!Row \cup {NoRow}]
          /\ \A s \in Quiet!Held(rows) : rows'[s] = rows[s]
          /\ \A s \in Tracked \ Quiet!Held(rows) : rows'[s] = NoRow
      BY <3>1 DEF RegistryTypes, Quiet!Held
    <3>3. Quiet!Held(rows') = Quiet!Held(rows)
      BY <3>2 DEF Quiet!Held
    <3> QED BY <1>1, <2>2, <3>1, <3>2, <3>3
  <2> QED BY <2>1, <2>2
<1>3. RegistryTypes'
  <2>1. \A s \in Quiet!Held(rows) : rows[s].created \in Nat /\ rows[s].created <= now
        /\ now \in Nat
    BY <1>1, HeldAreTyped, RegistryConstants DEF RegistryTypes
  <2>2. \A s \in Quiet!Held(rows') : rows'[s].created <= now'
    BY <1>1, <1>2, <2>1
  <2> QED BY <1>1, <1>2, <2>2 DEF RegistryTypes
<1>4. CopiesInv'
  <2>1. /\ TruthfulOf(Quiet!readRegistry, now', rows', buying')
        /\ TruthfulOf(Latest, now', rows', buying')
    <3> SUFFICES ASSUME NEW data, TruthfulOf(data, now, rows, buying)
                 PROVE  TruthfulOf(data, now', rows', buying')
      BY DEF CopiesInv, Truthful
    <3>1. /\ \A s \in Tracked : s \in Quiet!Held(rows') =>
               \/ s \in Quiet!Held(rows) /\ rows'[s] = rows[s]
               \/ s \in buying /\ Quiet!Day(rows'[s].created) = Quiet!Day(now)
          /\ \A s \in Tracked : s \in buying' =>
               Quiet!Day(now') = Quiet!Day(now) /\ s \in buying
      BY <1>2
    <3> QED BY <1>1, <3>1, TruthLasts
  <2> QED BY <1>1, <2>1 DEF CopiesInv, Truthful
<1>5. CASE Quiet!Day(now') = Quiet!Day(now)
  <2>1. TradesInv' /\ Quiet!OvernightIsTrue'
    BY <1>1, <1>2, <1>5 DEF TradesInv, Quiet!OvernightIsTrue
  <2>2. StageInv'
    BY <1>1, <1>2, <1>5 DEF StageInv, OpenedToday
  <2> QED BY <1>3, <1>4, <2>1, <2>2
<1>6. CASE Quiet!Day(now') # Quiet!Day(now)
  <2>1. registryCycle'.at = "idle"
    BY <1>1, <1>2, <1>6 DEF Quiet!NoCycle
  <2>2. TradesInv' /\ Quiet!OvernightIsTrue' /\ StageInv'
    BY <2>1 DEF TradesInv, Quiet!OvernightIsTrue, StageInv
  <2> QED BY <1>3, <1>4, <2>2
<1> QED BY <1>5, <1>6

\* What a crash leaves in the file is no less true than what was to be written.
LEMMA CrashKeepsRegistry ==
  ASSUME RegistryInv, Quiet!Crash
  PROVE  RegistryInv'
<1> USE DEF RegistryInv
<1>1. /\ UNCHANGED <<now, rows, buying, selling, file>> /\ registryCycle' = Quiet!NoCycle
         /\ seeder' = "idle"
      /\ write' = [w \in {"cycle", "seeder"} |-> Quiet!NotWriting]
  BY DEF Quiet!Crash
<1>2. RegistryTypes'
  BY <1>1 DEF RegistryTypes
<1>3. Quiet!readRegistry' = Quiet!readRegistry /\ Latest' = Quiet!readRegistry
  BY <1>1 DEF Quiet!readRegistry, Latest
<1>4. CopiesInv'
  BY <1>1, <1>3 DEF CopiesInv, Truthful
<1>5. registryCycle'.at = "idle"
  BY <1>1 DEF Quiet!NoCycle
<1>6. TradesInv' /\ Quiet!OvernightIsTrue' /\ StageInv'
  BY <1>5 DEF TradesInv, Quiet!OvernightIsTrue, StageInv
<1> QED BY <1>2, <1>4, <1>6

\* In the beginning the registry is empty and the cycle idle.
LEMMA RegistryStarts == Quiet!Init => RegistryInv
<1> SUFFICES ASSUME Quiet!Init
             PROVE  RegistryInv
  OBVIOUS
<1>1. /\ now = 0 /\ rows = [s \in Tracked |-> NoRow] /\ buying = {} /\ selling = {}
      /\ file = Quiet!EmptyRegistry /\ registryCycle = Quiet!NoCycle /\ seeder = "idle"
      /\ write = [w \in {"cycle", "seeder"} |-> Quiet!NotWriting]
  BY DEF Quiet!Init
<1>2. Quiet!EmptyRegistry \in Quiet!Registry
      /\ TruthfulOf(Quiet!EmptyRegistry, now, rows, buying)
  BY EmptyIsTrue
<1>3. RegistryTypes
  BY <1>1, <1>2, RegistryConstants DEF RegistryTypes, Quiet!Held
<1>4. Quiet!readRegistry = Quiet!EmptyRegistry /\ Latest = Quiet!EmptyRegistry
  BY <1>1, <1>2, RegistryConstants DEF Quiet!readRegistry, Latest
<1>5. CopiesInv
  BY <1>2, <1>4 DEF CopiesInv, Truthful
<1>6. registryCycle.at = "idle"
  BY <1>1 DEF Quiet!NoCycle
<1>7. TradesInv /\ Quiet!OvernightIsTrue /\ StageInv
  BY <1>6 DEF TradesInv, Quiet!OvernightIsTrue, StageInv
<1> QED BY <1>3, <1>5, <1>7 DEF RegistryInv

\* Every step keeps the registry true; the seeder takes none.
LEMMA RegistryKept ==
  ASSUME RegistryInv, Quiet!Next \/ UNCHANGED registryVars
  PROVE  RegistryInv'
<1>1. CASE UNCHANGED registryVars
  <2>1. /\ UNCHANGED <<now, rows, buying, selling, file, write, registryCycle, seeder>>
        /\ Latest' = Latest /\ Quiet!readRegistry' = Quiet!readRegistry
    BY <1>1 DEF registryVars, Latest, Quiet!readRegistry
  <2>2. RegistryTypes' /\ CopiesInv' /\ TradesInv' /\ Quiet!OvernightIsTrue'
    BY <2>1 DEF RegistryInv, RegistryTypes, CopiesInv, Truthful, TradesInv,
      Quiet!OvernightIsTrue
  <2>3. StageInv'
    BY <2>1 DEF RegistryInv, StageInv, OpenedToday
  <2> QED BY <2>2, <2>3 DEF RegistryInv
<1>2. ~(Quiet!SeederPlaces \/ Quiet!SeederRecords)
  BY DEF Quiet!SeederPlaces, Quiet!SeederRecords, RegistryInv, RegistryTypes
<1> QED
  BY <1>1, <1>2, WritingKeepsRegistry, CycleBeginsKeeps, SnapshotKeeps, ReconcileKeeps,
     SyncKeeps, OvernightKeeps, PlaceCloseKeeps, RecordCloseKeeps, PlaceSeedKeeps,
     RecordOpenKeeps, TradingKeeps, TickKeepsRegistry, CrashKeepsRegistry
     DEF Quiet!Next, Quiet!CycleSteps

\* For any symbols, days and number of crashes: where nobody but cycles trades and the
\* sweep leaves no order, withOvernightCloseOverrides closes exactly what the broker
\* opened on an earlier day (run-cycle.ts, position-registry.ts).
THEOREM OvernightOverrideIsTrue == MCSpec => []OvernightIsTrueIfQuiet
<1> DEFINE Inv == world = "quiet" => RegistryInv
           all == <<vars, registryVars, world>>
<1>1. MCInit => Inv
  BY RegistryStarts DEF MCInit
<1>2. Inv /\ [MCNext]_all => Inv'
  <2> SUFFICES ASSUME Inv, [MCNext]_all, world' = "quiet"
               PROVE  RegistryInv'
    OBVIOUS
  <2>1. world = "quiet" /\ (Quiet!Next \/ UNCHANGED registryVars)
    BY DEF MCNext
  <2> QED BY <2>1, RegistryKept
<1>3. Inv => OvernightIsTrueIfQuiet
  BY DEF RegistryInv, OvernightIsTrueIfQuiet
<1> HIDE DEF Inv
<1> QED BY <1>1, <1>2, <1>3, PTL DEF MCSpec
=============================================================================
