------------------------- MODULE MCStopPersistence -------------------------
(***************************************************************************)
(* Instances of StopPersistence for TLC: two groups that share the file;   *)
(* cycles that take time and repeat an evaluation; a group whose           *)
(* evaluations overlap, with failing writes and a caller outside the       *)
(* cycle; and the same overlap where the writes succeed, for liveness.     *)
(***************************************************************************)
EXTENDS StopPersistence

CONSTANT g1   \* one of Groups

VARIABLE world

\* Two groups that share the file, each evaluated once in a cycle that takes no time.
Apart ==
  /\ cycleAge' <= IF inCycle' THEN 0 ELSE Interval
  /\ \A g \in Groups : calls'[g] <= 1

\* A group evaluated repeatedly, beside one whose trigger never holds.
Still(g) == ~trigger'[g] /\ basis'[g] = basis[g] /\ calls'[g] <= 1
Repeatedly == \A g \in Groups \ {g1} : Still(g)

Overlapping == INSTANCE StopPersistence WITH
  Groups <- {g1}, Interval <- 2, CallsPerCycle <- 1, CycleSpan <- 0,
  MaxGap <- 2, TornReads <- FALSE, SameGroupOverlap <- TRUE, OutsideEvaluations <- TRUE,
  StoreErrors <- TRUE

Lasting == INSTANCE StopPersistence WITH
  Groups <- {g1}, MaxGap <- 5, TornReads <- FALSE, SameGroupOverlap <- TRUE

MCInit ==
  \/ world = "shared" /\ Init
  \/ world = "slow" /\ Init /\ \A g \in Groups \ {g1} : ~trigger[g]
  \/ world = "overlapping" /\ Overlapping!Init
  \/ world = "lasting" /\ Lasting!Init

MCNext ==
  /\ \/ world = "shared" /\ Next /\ Apart
     \/ world = "slow" /\ Next /\ Repeatedly
     \/ world = "overlapping" /\ Overlapping!Next
     \/ world = "lasting" /\ Lasting!Next
  /\ UNCHANGED world

MCFairness ==
  /\ \A e \in Evaluators :
       /\ WF_vars(world = "lasting" /\ Lasting!GoesOn(e))
       /\ WF_vars(world = "lasting" /\ Lasting!IsEvaluated(e, g1))
  /\ WF_vars(world = "lasting" /\ Lasting!CycleBegins)
  /\ WF_vars(world = "lasting" /\ Lasting!CycleEnds)
  /\ WF_vars(world = "lasting" /\ Lasting!TimeForNextCycle)

MCSpec == MCInit /\ [][MCNext]_<<vars, world>> /\ MCFairness

\* FiresOnDistinctCycles, for groups that share the file but are each evaluated
\* one evaluation at a time, also when a cycle repeats an evaluation.
FiresOnDistinctCyclesInTurn ==
  [][world = "shared" \/ world = "slow" =>
       \A g \in Groups : stopped'[g] /\ ~stopped[g] => sighted'[g] >= Required]_vars

\* PersistentTriggerFires, even if the group's evaluations overlap.
PersistentTriggerFiresInTheEnd ==
  world = "lasting" /\ <>[](trigger[g1]) /\ <>[][~Lasting!Reenter(g1)]_vars
    => <>[](stopped[g1])
=============================================================================
