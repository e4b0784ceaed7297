------------------------------- MODULE Purchase -------------------------------
(***************************************************************************)
(* What buying in instalments promises, whatever it takes.  Each item has  *)
(* an allowance that only grows, and one order at a time: placed for no    *)
(* more than the allowance leaves, filled bit by bit and what is left of   *)
(* it taken from the book at once.  What an order filled is bought for     *)
(* good, and counts when the next order is sized.  When orders are placed  *)
(* and withdrawn is left to the implementation, SprayBuy.                  *)
(***************************************************************************)
EXTENDS Integers

CONSTANTS
  Items,      \* what is bought
  Ids         \* the names of orders

VARIABLES
  allowance,  \* how much of each item may be bought by now
  open,       \* the open orders of each item, each with what it may still fill
  bought      \* the quantity bought of each item

vars == <<allowance, open, bought>>

Init ==
  /\ allowance \in [Items -> Nat]
  /\ open = [i \in Items |-> {}]
  /\ bought = [i \in Items |-> 0]

Unlock ==
  /\ allowance' \in [Items -> Nat]
  /\ \A i \in Items : allowance[i] <= allowance'[i]
  /\ UNCHANGED <<open, bought>>

Order(i) ==
  /\ open[i] = {}
  /\ \E id \in Ids, q \in 1 .. allowance[i] - bought[i] :
       open' = [open EXCEPT ![i] = {[id |-> id, rest |-> q]}]
  /\ UNCHANGED <<allowance, bought>>

Fill(i) ==
  /\ \E o \in open[i] :
       \E n \in 1 .. o.rest :
         /\ bought' = [bought EXCEPT ![i] = @ + n]
         /\ open' = [open EXCEPT ![i] =
              IF n = o.rest THEN {} ELSE {[id |-> o.id, rest |-> o.rest - n]}]
  /\ UNCHANGED allowance

Withdraw(i) ==
  /\ open[i] # {}
  /\ open' = [open EXCEPT ![i] = {}]
  /\ UNCHANGED <<allowance, bought>>

Next == Unlock \/ \E i \in Items : Order(i) \/ Fill(i) \/ Withdraw(i)

Spec == Init /\ [][Next]_vars
=============================================================================
