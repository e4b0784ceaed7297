----------------------------- MODULE MCAutoSeed -----------------------------
(***************************************************************************)
(* Instances for TLC of AutoSeed and of what one of its attempts does, in  *)
(* Seeding.  AutoSeed: a world in which orders are gone within their       *)
(* cooldown and every reply arrives, which is the module itself with the   *)
(* constants of the .cfg, and one in which neither holds.  Seeding: one    *)
(* attempt at a time, begun when no order works, and two at once.  And the *)
(* feed's socket, SecretSocket.                                            *)
(***************************************************************************)
EXTENDS AutoSeed

CONSTANTS  \* of Seeding
  Attempts, Dtes, Prices, Liquid, CapPct, DayCaps, Elsewhere, MaxOrders,
  RaceDtes, RacePrices  \* what is on offer to two attempts at once

CONSTANT LossyHandlers  \* of AutoSeed in the lossy world

CONSTANTS MaxPending, MaxAge, MaxLogs, MaxTime  \* of SecretSocket

ASSUME SeedingAssumption ==
  /\ Prices \subseteq Nat \ {0} /\ Dtes \subseteq Nat
  /\ Liquid \in [{"cash", "margin"} -> Nat] /\ DayCaps \subseteq Nat
  /\ CapPct \in [{"model", "underlying", "combined", "margin"} -> Nat]
  /\ Elsewhere \in Nat /\ MaxOrders \in Nat
  /\ RaceDtes \subseteq Dtes /\ RacePrices \subseteq Prices

ASSUME SocketAssumption == MaxPending \in Nat \ {0} /\ MaxAge \in Nat

VARIABLES
  world,
  step, task, pass, account, dte, price, power, qty, placed,
  position, book, funds, restricted, benched

seedingVars == <<step, task, pass, account, dte, price, power, qty, placed,
                 position, book, funds, restricted, benched>>

VARIABLES
  up, connected, authed, asked, pending, said, sent, now, since,
  feedCache, regime, disk

socketVars == <<up, connected, authed, asked, pending, said, sent, now, since,
                feedCache, regime, disk>>

\* The defaults are 3 min for a retry, 10 min for what was placed, 45 min for no
\* candidate and 3 h for no chain: the first is the shortest here, the others alike.
MCCooldown == [kind \in Kinds |->
  CASE kind = "retry" -> 1 [] kind = "placed" -> 2
    [] kind = "no-candidate" -> 2 [] kind = "no-chain" -> 2]

Lossy == INSTANCE AutoSeed WITH
  Handlers <- LossyHandlers, MaxLive <- 1, PromptOrders <- FALSE, LostReplies <- TRUE

\* A contract of each kind: too short for anything, margin's with days to
\* spare, in the cash window, in the wider one and beyond both.
MCDtes == {3, 5, 20, 45, 90}
MCLiquid == [a \in {"cash", "margin"} |-> IF a = "cash" THEN 4 ELSE 6]
MCCapPct == [model |-> 50, underlying |-> 75, combined |-> 75, margin |-> 100]

Seeds == INSTANCE Seeding WITH pc <- step

\* Attempts and positions come one after the other: what an attempt reads holds
\* until it ends, and no order works when the next begins.
Settled ==
  LET atRest == \A t \in Attempts : step[t] = "idle"
  IN  \/ atRest /\ book = {}
      \/ /\ \A t \in Attempts : step[t] = "idle" => step'[t] = "idle"
         /\ atRest \/ position' = position

\* Less is on offer to two attempts at once.
Racing == INSTANCE Seeding WITH pc <- step, Dtes <- RaceDtes, Prices <- RacePrices

Socket == INSTANCE SecretSocket WITH cached <- feedCache, HasKey <- TRUE

MCInit ==
  /\ Socket!Init /\ Seeds!Init
  /\ \/ world \in {"prompt", "alone", "racing", "feed"} /\ Init
     \/ world = "lossy" /\ Lossy!Init

MCNext ==
  /\ \/ world = "prompt" /\ Next /\ UNCHANGED <<seedingVars, socketVars>>
     \/ world = "lossy" /\ Lossy!Next /\ UNCHANGED <<seedingVars, socketVars>>
     \/ world = "alone" /\ Seeds!Next /\ Settled /\ UNCHANGED <<vars, socketVars>>
     \/ world = "racing" /\ Racing!Next /\ ~restricted' /\ UNCHANGED <<vars, socketVars>>
     \/ world = "feed" /\ Socket!Next /\ UNCHANGED <<vars, seedingVars>>
  /\ UNCHANGED world

MCFairness ==
  /\ \A h \in LossyHandlers : WF_vars(world = "lossy" /\ Lossy!Handle(h))
  /\ \A k \in Keys : WF_vars(world = "lossy" /\ Lossy!Book(k))
  /\ WF_vars(world = "lossy" /\ Lossy!TimePasses)

MCSpec == MCInit /\ [][MCNext]_<<vars, seedingVars, socketVars, world>> /\ MCFairness

\* OneStake with two handlers at once, where an order leaves the book within the
\* placed cooldown and no reply is lost.
OneStakeUnlessRaced == world = "prompt" => OneStake

\* TriedAgain, whatever becomes of orders and replies.
TriedAgainIfFair == world = "lossy" => Lossy!TriedAgain

\* OneOrderPerAttempt, with attempts one at a time or two at once.
OneOrderPerAttemptInWorld == Seeds!OneOrderPerAttempt

\* SeedIsSuitable, with attempts one at a time or two at once.
SeedIsSuitableInWorld == Seeds!SeedIsSuitable

\* WithinCaps, where an attempt begins only when no other one is under way and
\* no order works: positions are what the caps see.
WithinCapsIfAlone == world = "alone" => Seeds!WithinCaps

\* LogsGoOut, with a key configured.
LogsGoOut == Socket!LogsGoOut

\* CacheAgeIsTrue, across restarts and failing writes.
CacheAgeIsTrue == Socket!CacheAgeIsTrue
=============================================================================
