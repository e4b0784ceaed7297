---------------------------- MODULE MCCloseChase ----------------------------
(***************************************************************************)
(* Instances for TLC of the two halves of a close.  CloseChase, the order: *)
(* a patient close that stops at the midpoint, with the failures the code  *)
(* promises to survive; and, for a run of its own, an urgent one whose     *)
(* broker is slower and whose replies get lost.  ExitRules, the decision:  *)
(* a scaling cash position, a margin position and a cash group of two      *)
(* contracts; and, for a run of their own, options that expire today.      *)
(***************************************************************************)
EXTENDS CloseChase

CONSTANTS Positions, Interval, CycleMinutes   \* of ExitRules

Quote == [bid : Int, ask : Int]

ASSUME PositionsAssumption ==
  /\ \A p \in Positions :
       /\ p.accountType \in {"cash", "margin"}
       /\ p.legs \in Nat \ {0} /\ p.lots \in Nat \ {0}
       /\ {p.scalesOut, p.expiresToday, p.isOvernight} \subseteq BOOLEAN
       /\ \A q \in p.quotes : q \in Quote /\ q.bid >= -100 /\ q.ask >= -100
       /\ p.minutes \subseteq Nat
  /\ Interval \in Nat \ {0} /\ CycleMinutes \in Nat

VARIABLES
  world,
  position, clock, lastAction, held, scaled, streak, cycle, under

exitVars == <<position, clock, lastAction, held, scaled, streak, cycle, under>>

\* The larger leg last, so that what the first one took leaves less of it to sell,
\* or the other way round.
LargerLast == <<1, 3>>
LargerFirst == <<2, 1>>

Exit == INSTANCE ExitRules

\* Quotes on both sides of every threshold: worthless, one-sided, collapsed with
\* and without the midpoint, under the floor alike, near the floor of the end of
\* the day, at breakeven, and profits the bid or only the midpoint reaches.
Quoted(b, a) == [bid |-> b, ask |-> a]
Thresholds ==
  {Quoted(-100, -100), Quoted(-100, -50), Quoted(-50, -46), Quoted(-50, 0),
   Quoted(-32, -16), Quoted(-30, -12), Quoted(-12, -4), Quoted(0, 0), Quoted(0, 120),
   Quoted(-12, 80), Quoted(10, 16), Quoted(60, 64)}
Apart ==
  {Quoted(-50, -46), Quoted(-32, -16), Quoted(-12, 80), Quoted(10, 16), Quoted(60, 64)}

\* After the open, across the cutoff of margin accounts, and to the end of the day.
Stretch(first, last) == {m \in first .. last : m % 4 = 0}

Scaling ==
  [accountType |-> "cash", legs |-> 1, lots |-> 2, scalesOut |-> TRUE,
   expiresToday |-> FALSE, isOvernight |-> FALSE,
   quotes |-> Thresholds, minutes |-> Stretch(396, 424) \cup Stretch(756, 784)]

MCPositions ==
  {Scaling,
   [Scaling EXCEPT !.accountType = "margin", !.lots = 1, !.isOvernight = TRUE,
      !.minutes = Stretch(736, 776)],
   [Scaling EXCEPT !.legs = 2, !.lots = 1, !.scalesOut = FALSE,
      !.quotes = Apart, !.minutes = Stretch(560, 568) \cup Stretch(776, 784)]}

Expiring ==
  {[Scaling EXCEPT !.lots = 1, !.scalesOut = FALSE, !.expiresToday = TRUE,
      !.minutes = Stretch(716, 732)]}

NoPosition ==
  /\ position = [legs |-> 0] /\ clock = 0 /\ lastAction = 0 /\ held = << >>
  /\ scaled = FALSE /\ streak = 0 /\ cycle = << >> /\ under = 0

MCInit ==
  \/ world = "order" /\ Init /\ NoPosition
  \/ world = "decision" /\ Init /\ Exit!Init

MCNext ==
  /\ \/ world = "order" /\ Next /\ UNCHANGED exitVars
     \/ world = "decision" /\ Exit!Next /\ UNCHANGED vars
  /\ UNCHANGED world

MCSpec == MCInit /\ [][MCNext]_<<vars, exitVars, world>>

\* ProfitBooksNoLoss, on a group of one contract and of two held alike on cash: on
\* margin the forced close may fall between the two re-checks.
ProfitBooksNoLossInWorld == world = "decision" => Exit!ProfitBooksNoLoss

\* RiskCloseIsCarriedOut, where the group is one contract: of two the re-check may
\* keep one.
RiskCloseIsCarriedOutIfOne ==
  world = "decision" /\ position.legs = 1 => Exit!RiskCloseIsCarriedOut

\* SlideIsCutShort, on every position.
SlideIsCutShortInWorld == world = "decision" => Exit!SlideIsCutShort

\* ZeroDteIsClosed, of options that expire today.
ZeroDteIsClosed == world = "decision" => Exit!ZeroDteIsClosed
=============================================================================
