-------------------------------- MODULE Sale --------------------------------
(***************************************************************************)
(* What selling out of a position promises, whatever it takes: of each     *)
(* item one quantity at a time is offered; the offer sells or is           *)
(* withdrawn, and what was withdrawn may be offered anew, what sold may    *)
(* not.  No item is offered beyond its stock, and all together sell and    *)
(* offer within the allowance.  How prices move, which requests fail and   *)
(* who ends an offer is left to the implementation, CloseChase.            *)
(***************************************************************************)
EXTENDS Integers, FiniteSetsExt

CONSTANTS
  Items,      \* what is for sale
  Stock,      \* how much there is of each item
  Allowance   \* how much may be sold of all together

VARIABLES
  offered,    \* the quantity of each item now on offer
  sold        \* the quantity of each item that sold

vars == <<offered, sold>>

\* Sold already, or going to be if the offer is taken; and that over all items.
Commitment(i) == offered[i] + sold[i]
Committed == MapThenSumSet(Commitment, Items)

Init ==
  /\ offered = [i \in Items |-> 0]
  /\ sold = [i \in Items |-> 0]

Offer(i) ==
  /\ offered[i] = 0 /\ sold[i] = 0
  /\ \E q \in 1 .. Stock[i] :
       /\ Committed + q <= Allowance
       /\ offered' = [offered EXCEPT ![i] = q]
  /\ UNCHANGED sold

Sell(i) ==
  /\ offered[i] > 0
  /\ sold' = [sold EXCEPT ![i] = offered[i]]
  /\ offered' = [offered EXCEPT ![i] = 0]

Withdraw(i) ==
  /\ offered[i] > 0
  /\ offered' = [offered EXCEPT ![i] = 0]
  /\ UNCHANGED sold

Next == \E i \in Items : Offer(i) \/ Sell(i) \/ Withdraw(i)

Spec == Init /\ [][Next]_vars
=============================================================================
