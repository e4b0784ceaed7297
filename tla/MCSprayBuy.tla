----------------------------- MODULE MCSprayBuy -----------------------------
(***************************************************************************)
(* Instances of SprayBuy for TLC.  One run checks the executor in five     *)
(* worlds, which differ in what may go wrong; the world is chosen in the   *)
(* initial state and never changes.  The constants of the .cfg are those   *)
(* of the sequential world, which is the module itself.                    *)
(***************************************************************************)
EXTENDS SprayBuy

VARIABLE world

\* The default front-load of 0.6 for Total = 3 and Window = 2: one contract at
\* once, floor(3 * 0.5 ^ 0.55) = 2 from half the window on.
MCRamp == [e \in 0 .. Window - 1 |-> IF e = 0 THEN 1 ELSE 2]

\* A start runs beside a cycle; cancels are not final, status calls fail.
Overlapping == INSTANCE SprayBuy WITH
  AbortAfter <- 1, MaxOrders <- 2, Overlap <- TRUE, CancelIsFinal <- FALSE

\* One activity at a time; everything fails that may, and the process dies.
Failing == INSTANCE SprayBuy WITH
  AbortAfter <- 1, MaxOrders <- 2, MaxCrashes <- 1, AbortCalls <- TRUE,
  LostReplies <- TRUE, StoreErrors <- TRUE, CancelIsFinal <- FALSE

\* The sequential world is the module itself: one activity at a time, and status
\* calls fail.  In this one nothing fails but quotes, cancels and placements.
Reliable == INSTANCE SprayBuy WITH StatusErrors <- FALSE

\* The store can be written; status calls fail and the process dies.
Writable == INSTANCE SprayBuy WITH
  AbortAfter <- 1, MaxOrders <- 2, MaxCrashes <- 1

MCInit ==
  /\ Init
  /\ world \in {"overlapping", "failing", "sequential", "reliable", "writable"}

MCNext ==
  /\ \/ world = "overlapping" /\ Overlapping!Next
     \/ world = "failing" /\ Failing!Next
     \/ world = "sequential" /\ Next
     \/ world = "reliable" /\ Reliable!Next
     \/ world = "writable" /\ Writable!Next
  /\ UNCHANGED world

\* The fairness of the writable world, the only one a liveness property is
\* stated about.
MCFairness ==
  /\ WF_vars(world = "writable" /\ Writable!CycleSteps)
  /\ \A a \in Activities : WF_vars(world = "writable" /\ Writable!AdvanceSteps(a))
  /\ WF_vars(world = "writable" /\ Writable!Tick)

MCSpec == MCInit /\ [][MCNext]_<<vars, world>> /\ MCFairness

\* SingleLiveOrder, in the worlds without overlap, crash, lost reply or late
\* cancel: at most one order of a spray works.
SingleLiveOrderInOrder ==
  world \in {"sequential", "reliable"} => SingleLiveOrder

\* ImplementsPurchase, as long as the broker answers every status call.
ImplementsPurchaseIfAnswered ==
  Promise!Init /\ [][world = "reliable" => Promise!Next]_(Promise!vars)

\* SprayResolved, as long as the store can be written.
SprayResolvedIfWritable == world = "writable" => SprayResolved
=============================================================================
