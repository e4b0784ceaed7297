---------------------------- MODULE MCAllocation ----------------------------
(***************************************************************************)
(* Instances of Allocation for TLC: a margin account that serves two       *)
(* groups right before the guard's deadline, a cash account that serves    *)
(* three, and a margin account whose broker fills after the last poll and   *)
(* may leave the id out of an answer.                                      *)
(***************************************************************************)
EXTENDS Allocation

VARIABLE world

\* A group that passes every gate, quoted with a spread that is chased.
Plain ==
  [targets |-> TRUE, openable |-> TRUE,
   exposure |-> 80, maxExposure |-> 100, boost |-> 0, surplus |-> 0,
   weight |-> [r \in Route |-> CASE r = "bid" -> 20 [] r = "mid" -> 30 [] r = "ask" -> 50],
   held |-> 1, value |-> 400, average |-> 120, ageGive |-> 0,
   heldDTE |-> 5, heldQuote |-> [bid |-> 100, ask |-> 110], heldLiquid |-> TRUE,
   healthy |-> TRUE, chain |-> TRUE, ivGate |-> FALSE,
   itmEligible |-> FALSE, itm |-> FALSE, dte |-> 7,
   quote |-> [bid |-> 200, ask |-> 240], holdsCandidate |-> FALSE]

EvenWeights == [r \in Route |-> 33]
NoBidWeight == [Plain.weight EXCEPT !["bid"] = 0]
NoAskWeight == [Plain.weight EXCEPT !["ask"] = 0]

Served ==
  {Plain,
   [Plain EXCEPT !.weight = EvenWeights, !.quote = [bid |-> 295, ask |-> 305]],
   [Plain EXCEPT !.quote = [bid |-> 310, ask |-> 410], !.held = 2, !.boost = 25, !.maxExposure = 75],
   [Plain EXCEPT !.weight = NoBidWeight, !.quote = [bid |-> 100, ask |-> 110], !.value = 2000, !.exposure = 24],
   [Plain EXCEPT !.quote = [bid |-> 0, ask |-> 150], !.surplus = 5],
   [Plain EXCEPT !.quote = [bid |-> 880, ask |-> 900], !.value = 600],
   [Plain EXCEPT !.quote = [bid |-> 1280, ask |-> 1300], !.heldQuote.ask = 122, !.ageGive = 1],
   [Plain EXCEPT !.quote = [bid |-> 1280, ask |-> 1300], !.heldQuote.ask = 122, !.ageGive = 2],
   [Plain EXCEPT !.quote = [bid |-> 1280, ask |-> 1300], !.heldDTE = 1],
   [Plain EXCEPT !.quote = [bid |-> 0, ask |-> 0]],
   [Plain EXCEPT !.weight = NoAskWeight],
   [Plain EXCEPT !.chain = FALSE, !.itmEligible = TRUE, !.itm = TRUE],
   [Plain EXCEPT !.chain = FALSE, !.heldDTE = 3, !.weight = EvenWeights]}

Expiring == {[Plain EXCEPT !.quote = [bid |-> 1280, ask |-> 1300], !.heldDTE = 1]}

Refused ==
  {[Plain EXCEPT !.targets = FALSE], [Plain EXCEPT !.openable = FALSE],
   [Plain EXCEPT !.exposure = 10], [Plain EXCEPT !.held = 6], [Plain EXCEPT !.value = 2500],
   [Plain EXCEPT !.healthy = FALSE], [Plain EXCEPT !.dte = 1],
   [Plain EXCEPT !.chain = FALSE, !.ivGate = TRUE]}

AllInputs == Served \cup Refused

Cash == INSTANCE Allocation WITH
  Account <- "cash", Groups <- 3, BuyPct <- 10, Evaluated <- 100

\* The guard's deadline has passed: nothing may be bought.
Evening == INSTANCE Allocation WITH Evaluated <- 700

Rough == INSTANCE Allocation WITH Groups <- 1, LateFills <- TRUE, AnswersLackId <- TRUE

MCInit ==
  \/ world = "margin" /\ Init
  \/ world = "cash" /\ Cash!Init
  \/ world = "evening" /\ Evening!Init
  \/ world = "rough" /\ Rough!Init

MCNext ==
  /\ \/ world = "margin" /\ Next
     \/ world = "cash" /\ Cash!Next
     \/ world = "evening" /\ Evening!Next
     \/ world = "rough" /\ Rough!Next
  /\ UNCHANGED world

MCSpec == MCInit /\ [][MCNext]_<<vars, world>>

\* GroupWithinCap, where a poll follows every fill and answers are whole.
GroupWithinCapIfSeen == world # "rough" => GroupWithinCap

\* BuysBeforeCutoff, where no closes go before and two groups are served: each
\* chase takes up to one run interval.
BuysBeforeCutoffIfFew == world \in {"margin", "evening"} => BuysBeforeCutoff
=============================================================================
