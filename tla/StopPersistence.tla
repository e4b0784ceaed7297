-------------------------- MODULE StopPersistence --------------------------
(***************************************************************************)
(* The stop-loss persistence gate: a stop fires only after its trigger     *)
(* held in Required consecutive cycles.  Every evaluation of a position    *)
(* group (bot/evaluate-position.ts) reads the streak stored for the group  *)
(* (bot/actions/stop-persistence-store.ts), decides                        *)
(* (strategy/stop-persistence.ts) and writes the streak back.  A cycle     *)
(* evaluates a group several times, concurrently with other groups; all    *)
(* streaks live in one file that is read and rewritten whole.              *)
(*                                                                         *)
(* Time is kept as ages, so that behaviours are infinite in a finite state *)
(* space: a row's age counts from its atMs, an evaluation's lag from the   *)
(* moment it captured currentTime.  The collapse bypass, which fires       *)
(* without any streak by design, is left out.                              *)
(***************************************************************************)
EXTENDS Integers, Sequences, FiniteSets

CONSTANTS
  Groups,             \* account and UNDERLYING::side
  Evaluators,         \* evaluations in flight at a time
  Required,           \* STRATEGY_STOP_LOSS_PERSIST_CYCLES
  Interval,           \* BOT_RUN_INTERVAL_MS, in ticks
  CallsPerCycle,      \* bound: evaluations of one group in one cycle
  CycleSpan,          \* ticks a cycle may take to evaluate its groups
  MaxGap,             \* bound: ticks from the begin of a cycle to the next one's
  SameGroupOverlap,   \* a group's evaluations may overlap each other
  OutsideEvaluations, \* a caller other than the run cycle evaluates groups too
  StoreErrors,        \* a write of the file may fail
  TornReads,          \* a read outside the chain may meet a half-written file
  NearBasis,          \* a group may be re-entered near its old cost basis
  NoRow, NoFile

ASSUME StopAssumption ==
  /\ {Required, Interval, MaxGap, CallsPerCycle} \subseteq Nat \ {0} /\ CycleSpan \in Nat
  /\ Interval % 2 = 0 /\ Interval <= MaxGap
  /\ {SameGroupOverlap, OutsideEvaluations, StoreErrors, TornReads, NearBasis} \subseteq BOOLEAN

VARIABLES
  file,       \* stop-persistence-state.json
  trigger,    \* the market: does the group's quote hold the stop trigger?
  basis,      \* cost basis of the group's position; equal = within 5%
  stopped,    \* the gate let the stop fire on this position
  eval,       \* the evaluations in flight
  chain,      \* writeChain: evaluators in the order their recordings run
  inCycle, cycleAge, calls,  \* the run cycle; its evaluations of each group so far
  sighted,    \* history: cycles in a row that saw the position's trigger hold,
  counted     \* and whether the running cycle is among them

vars == <<file, trigger, basis, stopped, eval, chain, inCycle, cycleAge, calls,
          sighted, counted>>

StreakWindow == (5 * Interval) \div 2       \* getStreakWindowMs
StreakAdvanceMin == Interval \div 2         \* getStreakAdvanceMinMs
MaxAge == StreakWindow + 1                  \* ages above the window are alike
MaxLag == MaxGap
Bases == 0..2

Row == [streak : 1..Required, age : -MaxLag..MaxAge, waf : Bases]
File == [Groups -> Row \cup {NoRow}]
Idle == [at |-> "idle"]
Evaluation ==
  [at : {"observe", "decide", "queued", "write"}, group : Groups, held : BOOLEAN,
   waf : Bases, lag : 0..MaxLag, observed : 1..(Required + 1), data : File \cup {NoFile}]

Least(m, n) == IF m < n THEN m ELSE n

-----------------------------------------------------------------------------
(* The store's predicates; lag turns the evaluation's currentTime into "now". *)

isSameCycleAsRow(row, lag) == row.age - lag < StreakAdvanceMin

\* Mutant: the window is too tight.
usableInOneInterval(row, waf, lag) ==
  /\ row # NoRow
  /\ row.age - lag < Interval
  /\ row.waf = waf

isUsableRow(row, waf, lag) ==
  /\ row # NoRow
  /\ row.age - lag <= StreakWindow
  /\ row.waf = waf

\* getObservedStopCycles: the count includes the cycle being evaluated.
ObservedCycles(row, waf, lag) ==
  IF ~isUsableRow(row, waf, lag) THEN 1
  ELSE IF isSameCycleAsRow(row, lag) THEN row.streak ELSE row.streak + 1

\* The streak saturates at Required: beyond it nothing distinguishes counts.
nextRow(prior, waf, lag) ==
  IF prior # NoRow /\ isSameCycleAsRow(prior, lag)
  THEN [prior EXCEPT !.waf = waf]
  ELSE [streak |-> IF prior = NoRow THEN 1 ELSE Least(Required, prior.streak + 1),
        age |-> lag, waf |-> waf]

pruneExpired(data, lag) ==
  [g \in Groups |-> IF data[g] # NoRow /\ data[g].age - lag > StreakWindow
                    THEN NoRow ELSE data[g]]

\* The file applyStopTrigger leaves, from the data it read: with no streak to
\* drop it writes nothing.
applyStopTrigger(data, e) ==
  LET prior == IF isUsableRow(data[e.group], e.waf, e.lag) THEN data[e.group] ELSE NoRow
      row == IF e.held THEN nextRow(prior, e.waf, e.lag) ELSE NoRow
  IN  IF ~e.held /\ data[e.group] = NoRow THEN data
      ELSE pruneExpired([data EXCEPT ![e.group] = row], e.lag)

-----------------------------------------------------------------------------
(* evaluatePositionGroup. *)

InFlight == {e \in Evaluators : eval[e].at # "idle"}

\* The clock and the quote are read; each call captures its own new Date().
BeginEvaluation(e, g) ==
  /\ (inCycle /\ calls[g] < CallsPerCycle) \/ (~inCycle /\ OutsideEvaluations)
  /\ eval[e].at = "idle"
  /\ SameGroupOverlap \/ \A f \in InFlight : eval[f].group # g
  /\ eval' = [eval EXCEPT ![e] =
       [at |-> "observe", group |-> g, held |-> trigger[g], waf |-> basis[g],
        lag |-> 0, observed |-> 1, data |-> NoFile]]
  /\ calls' = [calls EXCEPT ![g] = IF inCycle THEN @ + 1 ELSE @]
  /\ UNCHANGED <<file, trigger, basis, stopped, chain, inCycle, cycleAge, sighted,
                 counted>>

\* getObservedStopCycles reads the file without waiting for the chain.
Observe(e) ==
  /\ eval[e].at = "observe"
  /\ \E n \in {ObservedCycles(file[eval[e].group], eval[e].waf, eval[e].lag)}
              \cup (IF TornReads THEN {1} ELSE {}) :
       eval' = [eval EXCEPT ![e].at = "decide", ![e].observed = n]
  /\ UNCHANGED <<file, trigger, basis, stopped, chain, inCycle, cycleAge, calls,
                 sighted, counted>>

deferOneLess(observed) == observed + 1 < Required    \* off by one

defer(observed) == observed < Required      \* resolveStopPersistence

\* The strategy runs and the recording joins the chain, with no await between.
Decide(e) ==
  LET v == eval[e] IN
  /\ v.at = "decide"
  /\ stopped' = [stopped EXCEPT ![v.group] = @ \/ (v.held /\ ~defer(v.observed))]
  /\ eval' = [eval EXCEPT ![e].at = "queued"]
  /\ chain' = Append(chain, e)
  /\ IF v.held
       THEN /\ sighted' = [sighted EXCEPT ![v.group] =
                 IF inCycle /\ ~counted[v.group] THEN Least(Required, @ + 1) ELSE @]
            /\ counted' = [counted EXCEPT ![v.group] = @ \/ inCycle]
       ELSE /\ sighted' = [sighted EXCEPT ![v.group] = 0]
            /\ counted' = [counted EXCEPT ![v.group] = FALSE]
  /\ UNCHANGED <<file, trigger, basis, inCycle, cycleAge, calls>>

-----------------------------------------------------------------------------
(* recordStopTrigger, under withStoreLock. *)

MyTurn(e) == chain # << >> /\ Head(chain) = e

RecordReads(e) ==
  /\ eval[e].at = "queued" /\ MyTurn(e)
  /\ eval' = [eval EXCEPT ![e].at = "write", ![e].data = file]
  /\ UNCHANGED <<file, trigger, basis, stopped, chain, inCycle, cycleAge, calls,
                 sighted, counted>>

\* A failed write leaves the file as it was; the error is swallowed.
RecordWrites(e) ==
  /\ eval[e].at = "write"
  /\ \/ file' = applyStopTrigger(eval[e].data, eval[e])
     \/ StoreErrors /\ UNCHANGED file
  /\ eval' = [eval EXCEPT ![e] = Idle]
  /\ chain' = Tail(chain)
  /\ UNCHANGED <<trigger, basis, stopped, inCycle, cycleAge, calls, sighted, counted>>

-----------------------------------------------------------------------------
(* The run cycle, the market and the clock. *)

CycleBegins ==
  /\ ~inCycle /\ cycleAge >= Interval
  /\ inCycle' = TRUE /\ cycleAge' = 0
  /\ calls' = [g \in Groups |-> 0]
  /\ counted' = [g \in Groups |-> FALSE]
  /\ UNCHANGED <<file, trigger, basis, stopped, eval, chain, sighted>>

CycleEnds ==
  /\ inCycle /\ InFlight = {} /\ \A g \in Groups : calls[g] > 0
  /\ inCycle' = FALSE
  /\ UNCHANGED <<file, trigger, basis, stopped, eval, chain, cycleAge, calls,
                 sighted, counted>>

MarketMoves(g) ==
  /\ trigger' = [trigger EXCEPT ![g] = ~@]
  /\ UNCHANGED <<file, basis, stopped, eval, chain, inCycle, cycleAge, calls,
                 sighted, counted>>

\* The position is closed and the group entered again, between evaluations of it.
\* Nothing clears the streak: clearStopStreak has no caller outside the tests.
Reenter(g) ==
  /\ \A e \in InFlight : eval[e].group # g
  /\ \E b \in Bases :
       /\ \/ NearBasis
          \/ b # basis[g] /\ (file[g] # NoRow => b # file[g].waf)
       /\ basis' = [basis EXCEPT ![g] = b]
  /\ stopped' = [stopped EXCEPT ![g] = FALSE]
  /\ sighted' = [sighted EXCEPT ![g] = 0]
  /\ counted' = [counted EXCEPT ![g] = FALSE]
  /\ UNCHANGED <<file, trigger, eval, chain, inCycle, cycleAge, calls>>

Older(row) == IF row = NoRow THEN NoRow ELSE [row EXCEPT !.age = Least(MaxAge, @ + 1)]

\* File access takes no time on this clock: none passes between read and write.
TimePasses ==
  /\ \A e \in Evaluators : eval[e].at # "write"
  /\ cycleAge < (IF inCycle THEN CycleSpan ELSE MaxGap)
  /\ cycleAge' = cycleAge + 1
  /\ file' = [g \in Groups |-> Older(file[g])]
  /\ eval' = [e \in Evaluators |->
       IF eval[e].at = "idle" THEN Idle ELSE [eval[e] EXCEPT !.lag = Least(MaxLag, @ + 1)]]
  /\ UNCHANGED <<trigger, basis, stopped, chain, inCycle, calls, sighted, counted>>

-----------------------------------------------------------------------------
Init ==
  /\ file = [g \in Groups |-> NoRow]
  /\ trigger \in [Groups -> BOOLEAN]
  /\ basis = [g \in Groups |-> 0]
  /\ stopped = [g \in Groups |-> FALSE]
  /\ eval = [e \in Evaluators |-> Idle]
  /\ chain = << >>
  /\ inCycle = FALSE /\ cycleAge = Interval /\ calls = [g \in Groups |-> 0]
  /\ sighted = [g \in Groups |-> 0]
  /\ counted = [g \in Groups |-> FALSE]

Evaluates(e) ==
  \/ \E g \in Groups : BeginEvaluation(e, g)
  \/ Observe(e) \/ Decide(e) \/ RecordReads(e) \/ RecordWrites(e)

Next ==
  \/ \E e \in Evaluators : Evaluates(e)
  \/ CycleBegins \/ CycleEnds \/ TimePasses
  \/ \E g \in Groups : MarketMoves(g) \/ Reenter(g)

Spec == Init /\ [][Next]_vars

\* Promises resolve, a cycle evaluates every group and ends, the scheduler begins
\* the next one.  The market owes nothing.
GoesOn(e) == Observe(e) \/ Decide(e) \/ RecordReads(e) \/ RecordWrites(e)
IsEvaluated(e, g) == calls[g] = 0 /\ BeginEvaluation(e, g)
TimeForNextCycle == ~inCycle /\ cycleAge < Interval /\ TimePasses

Fairness ==
  /\ \A e \in Evaluators : WF_vars(GoesOn(e))
  /\ \A e \in Evaluators, g \in Groups : WF_vars(IsEvaluated(e, g))
  /\ WF_vars(CycleBegins) /\ WF_vars(CycleEnds)
  /\ WF_vars(TimeForNextCycle)

FairSpec == Spec /\ Fairness

-----------------------------------------------------------------------------
(* Properties. *)

\* The state is well formed; a recording waits in the chain exactly while its
\* evaluation waits for it.
TypeOK ==
  /\ file \in File
  /\ trigger \in [Groups -> BOOLEAN] /\ basis \in [Groups -> Bases]
  /\ stopped \in [Groups -> BOOLEAN]
  /\ \A e \in Evaluators : eval[e] = Idle \/ eval[e] \in Evaluation
  /\ chain \in Seq(Evaluators)
  /\ \A e \in Evaluators :
       Cardinality({i \in DOMAIN chain : chain[i] = e})
         = IF eval[e].at \in {"queued", "write"} THEN 1 ELSE 0
  /\ inCycle \in BOOLEAN /\ cycleAge \in 0..MaxGap /\ calls \in [Groups -> 0..CallsPerCycle]
  /\ sighted \in [Groups -> 0..Required] /\ counted \in [Groups -> BOOLEAN]

\* "Cycles, not evaluations": a stop fires on a position only when Required
\* distinct cycles in a row saw that position's trigger hold, however often each
\* evaluated it and whatever the other groups recorded meanwhile.
FiresOnDistinctCycles ==
  [][\A g \in Groups : stopped'[g] /\ ~stopped[g] => sighted'[g] >= Required]_vars

\* The streak that would let a stop fire next is never longer than the run of
\* cycles that earned it: the file never claims a history the position lacks.
StreakIsEarned ==
  \A g \in Groups :
    (file[g] # NoRow /\ file[g].waf = basis[g] /\ \A e \in InFlight : eval[e].group # g)
      => file[g].streak <= sighted[g]

\* The gate delays, it does not lose: a trigger that stays on a position that
\* stays open is eventually allowed to fire.
PersistentTriggerFires ==
  \A g \in Groups :
    <>[](trigger[g]) /\ <>[][~Reenter(g)]_vars => <>[](stopped[g])

=============================================================================
