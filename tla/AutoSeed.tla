------------------------------ MODULE AutoSeed ------------------------------
(***************************************************************************)
(* Seeding from the signal feed (strategy/secret/secret-auto-seed.ts).     *)
(*                                                                         *)
(* Each feed update starts an asynchronous handler that nothing waits for. *)
(* It walks the update's symbols; for each it checks the four cooldowns,   *)
(* awaits seedSymbol and stamps the cooldown of the outcome.  Handlers of  *)
(* successive updates overlap, share the cooldown maps, and see the broker *)
(* only through seedSymbol's question whether a position is open.          *)
(*                                                                         *)
(* What makes a symbol eligible (scores, thesis, crash regime, plateau) is *)
(* the set an update asks for.  Ages of stamps replace absolute times: they *)
(* saturate at the longest cooldown, when they no longer matter.           *)
(***************************************************************************)
EXTENDS Integers, FiniteSets, FiniteSetsExt

CONSTANTS
  Handlers,     \* feed updates that may be under way at once
  Accounts,     \* the cash and the margin account
  Symbols,
  Cooldown,     \* length of each cooldown, in clock ticks
  MaxLive,      \* bound: live seed orders per account and symbol
  PromptOrders, \* is an order gone before its cooldown ends?
  Throws,       \* may seedSymbol throw?
  LostReplies   \* may it throw after its order was accepted?

Kinds == {"placed", "no-chain", "no-candidate", "retry"}

ASSUME CooldownAssumption ==
  /\ Cooldown \in [Kinds -> Nat \ {0}]
  /\ \A kind \in Kinds : Cooldown[kind] <= Cooldown["no-chain"]
  /\ MaxLive \in Nat /\ PromptOrders \in BOOLEAN
  /\ Throws \in BOOLEAN /\ LostReplies \in BOOLEAN

ASSUME KeysAssumption == Accounts # {} /\ Symbols # {}

accountSymbolKey(account, symbol) == <<account, symbol>>
Keys == {accountSymbolKey(a, s) : a \in Accounts, s \in Symbols}
Longest == Cooldown["no-chain"]
Ages == 0 .. Longest
Later(age) == IF age < Longest THEN age + 1 ELSE age

VARIABLES
  stamp,   \* age of each cooldown's last stamp, by kind and key
  pc, todo, key, age,  \* of each handler: its point, what it has still to
                       \* try, the key in hand and the age of its `now`
  live,    \* working seed orders of each key
  liveAge, \* at most the age of any of them, from the start of its attempt
  held,    \* keys with an open position
  tried,   \* history: age of the last attempt at each key
  raced    \* history: keys at which an attempt began beside another one, until
           \* one begins that is alone and meets no order of theirs

handlerVars == <<pc, todo, key, age>>
brokerVars == <<live, liveAge, held>>
history == <<tried, raced>>
vars == <<stamp, handlerVars, brokerVars, history>>

TypeOK ==
  /\ stamp \in [Kinds -> [Keys -> Ages]]
  /\ pc \in [Handlers -> {"idle", "loop", "checking", "placing"}]
  /\ todo \in [Handlers -> SUBSET Keys]
  /\ key \in [Handlers -> Keys]
  /\ age \in [Handlers -> Ages]
  /\ live \in [Keys -> 0 .. MaxLive]
  /\ liveAge \in [Keys -> Ages]
  /\ held \subseteq Keys
  /\ tried \in [Keys -> Ages]
  /\ raced \subseteq Keys

AnyKey == CHOOSE k \in Keys : TRUE

Init ==
  /\ stamp = [kind \in Kinds |-> [k \in Keys |-> Longest]]
  /\ pc = [h \in Handlers |-> "idle"]
  /\ todo = [h \in Handlers |-> {}]
  /\ key = [h \in Handlers |-> AnyKey]
  /\ age = [h \in Handlers |-> 0]
  /\ live = [k \in Keys |-> 0]
  /\ liveAge = [k \in Keys |-> 0]
  /\ held = {}
  /\ tried = [k \in Keys |-> Longest]
  /\ raced = {}

\* The cooldowns that bench a key now (getActiveAutoSeedCooldownKind names the
\* first of them).
activeCooldown(k) == {kind \in Kinds : stamp[kind][k] < Cooldown[kind]}

\* An update arrives: maybeAutoSeedFromSecretPositions for both accounts, or
\* maybeAutoSeedFromTickerRecs for the cash account alone.
FeedUpdate(h) ==
  /\ pc[h] = "idle"
  /\ \E wanted \in SUBSET Keys \ {{}} :
       todo' = [todo EXCEPT ![h] = wanted]
  /\ pc' = [pc EXCEPT ![h] = "loop"]
  /\ UNCHANGED <<stamp, key, age, brokerVars, history>>

HandlerEnds(h) ==
  /\ pc[h] = "loop" /\ todo[h] = {}
  /\ pc' = [pc EXCEPT ![h] = "idle"]
  /\ UNCHANGED <<stamp, todo, key, age, brokerVars, history>>

\* maybeAutoSeedSymbol while a cooldown is active.
SuppressAttempt(h, k) ==
  /\ pc[h] = "loop" /\ k \in todo[h]
  /\ activeCooldown(k) # {}
  /\ todo' = [todo EXCEPT ![h] = @ \ {k}]
  /\ UNCHANGED <<stamp, pc, key, age, brokerVars, history>>

\* The handler is within an attempt at the key.
IsAt(h, k) == pc[h] \in {"checking", "placing"} /\ key[h] = k

\* The cooldowns are checked and seedSymbol is called: the clock read here is
\* the one the outcome will be stamped with.
BeginAttempt(h, k) ==
  /\ pc[h] = "loop" /\ k \in todo[h]
  /\ activeCooldown(k) = {}
  /\ todo' = [todo EXCEPT ![h] = @ \ {k}]
  /\ key' = [key EXCEPT ![h] = k]
  /\ age' = [age EXCEPT ![h] = 0]
  /\ pc' = [pc EXCEPT ![h] = "checking"]
  /\ tried' = [tried EXCEPT ![k] = 0]
  /\ raced' = IF \E g \in Handlers : IsAt(g, k) THEN raced \cup {k}
              ELSE IF live[k] = 0 THEN raced \ {k} ELSE raced
  /\ UNCHANGED <<stamp, brokerVars>>

recordSeedOutcomeCooldown(h, kind) ==
  stamp' = [stamp EXCEPT ![kind][key[h]] = age[h]]

\* The handler is done with its key: a fresh `now` at the next one.
NextKey(h) ==
  /\ pc' = [pc EXCEPT ![h] = "loop"]
  /\ key' = [key EXCEPT ![h] = AnyKey]
  /\ age' = [age EXCEPT ![h] = 0]
  /\ todo' = todo

\* hasOpenUnderlyingPosition: the broker lists positions, not working orders.
PositionIsOpen(h) ==
  /\ pc[h] = "checking" /\ key[h] \in held
  /\ recordSeedOutcomeCooldown(h, "retry")
  /\ NextKey(h)
  /\ UNCHANGED <<brokerVars, history>>

\* The symbol has no chain or no candidate, or a gate refuses the order.
SeedSkipped(h) ==
  /\ pc[h] = "checking" /\ key[h] \notin held
  /\ \E kind \in Kinds \ {"placed"} : recordSeedOutcomeCooldown(h, kind)
  /\ NextKey(h)
  /\ UNCHANGED <<brokerVars, history>>

\* Mutant: the open position is not asked for.
CheckedBlindly(h) ==
  /\ pc[h] = "checking"
  /\ pc' = [pc EXCEPT ![h] = "placing"]
  /\ UNCHANGED <<stamp, todo, key, age, brokerVars, history>>

SeedChecked(h) ==
  /\ pc[h] = "checking" /\ key[h] \notin held
  /\ pc' = [pc EXCEPT ![h] = "placing"]
  /\ UNCHANGED <<stamp, todo, key, age, brokerVars, history>>

OrderAccepted(h) ==
  LET k == key[h]
  IN  /\ pc[h] = "placing"
      /\ live[k] < MaxLive
      /\ live' = [live EXCEPT ![k] = @ + 1]
      /\ liveAge' = [liveAge EXCEPT ![k] = IF live[k] = 0 THEN age[h]
                                           ELSE Min({liveAge[k], age[h]})]
      /\ NextKey(h)
      /\ UNCHANGED <<held, history>>

SeedPlaces(h) ==
  /\ OrderAccepted(h)
  /\ recordSeedOutcomeCooldown(h, "placed")

\* The order is in the book and createOrder throws: nothing is stamped.
ReplyLost(h) ==
  /\ LostReplies
  /\ OrderAccepted(h)
  /\ stamp' = stamp

\* Mutant: the exception leaves the loop over the update's symbols.
ThrowsOutOfLoop(h) ==
  /\ Throws
  /\ pc[h] \in {"checking", "placing"}
  /\ pc' = [pc EXCEPT ![h] = "loop"]
  /\ todo' = [todo EXCEPT ![h] = {}]
  /\ key' = [key EXCEPT ![h] = AnyKey]
  /\ age' = [age EXCEPT ![h] = 0]
  /\ UNCHANGED <<stamp, brokerVars, history>>

SeedThrows(h) ==
  /\ Throws
  /\ pc[h] \in {"checking", "placing"}
  /\ NextKey(h)
  /\ UNCHANGED <<stamp, brokerVars, history>>

OrderFills(k) ==
  /\ live[k] > 0
  /\ live' = [live EXCEPT ![k] = @ - 1]
  /\ liveAge' = [liveAge EXCEPT ![k] = IF live[k] = 1 THEN 0 ELSE @]
  /\ held' = held \cup {k}
  /\ UNCHANGED <<stamp, handlerVars, history>>

OrderDies(k) ==
  /\ live[k] > 0
  /\ live' = [live EXCEPT ![k] = @ - 1]
  /\ liveAge' = [liveAge EXCEPT ![k] = IF live[k] = 1 THEN 0 ELSE @]
  /\ UNCHANGED <<stamp, handlerVars, held, history>>

PositionCloses(k) ==
  /\ k \in held
  /\ held' = held \ {k}
  /\ UNCHANGED <<stamp, handlerVars, live, liveAge, history>>

\* With PromptOrders, an attempt and its order are over before the cooldown
\* that starts with the attempt.
TimePasses ==
  /\ PromptOrders =>
       /\ \A k \in Keys : live[k] > 0 => liveAge[k] + 1 < Cooldown["placed"]
       /\ \A h \in Handlers : pc[h] \in {"checking", "placing"}
                                => age[h] + 1 < Cooldown["placed"]
  /\ stamp' = [kind \in Kinds |-> [k \in Keys |-> Later(stamp[kind][k])]]
  /\ age' = [h \in Handlers |-> IF pc[h] \in {"checking", "placing"}
                                THEN Later(age[h]) ELSE age[h]]
  /\ liveAge' = [k \in Keys |-> IF live[k] > 0 THEN Later(liveAge[k])
                                ELSE liveAge[k]]
  /\ tried' = [k \in Keys |-> Later(tried[k])]
  /\ UNCHANGED <<pc, todo, key, live, held, raced>>

Handle(h) ==
  \/ HandlerEnds(h)
  \/ \E k \in Keys : SuppressAttempt(h, k) \/ BeginAttempt(h, k)
  \/ PositionIsOpen(h) \/ SeedSkipped(h) \/ SeedChecked(h)
  \/ SeedPlaces(h) \/ ReplyLost(h) \/ SeedThrows(h)

Book(k) == OrderFills(k) \/ OrderDies(k)

Next ==
  \/ \E h \in Handlers : FeedUpdate(h) \/ Handle(h)
  \/ \E k \in Keys : Book(k) \/ PositionCloses(k)
  \/ TimePasses

Spec == Init /\ [][Next]_vars

\* Handlers go on, orders leave the book in the end and time passes.
Fairness ==
  /\ \A h \in Handlers : WF_vars(Handle(h))
  /\ \A k \in Keys : WF_vars(Book(k))
  /\ WF_vars(TimePasses)

FairSpec == Spec /\ Fairness

-----------------------------------------------------------------------------

\* Auto-seeding holds one stake per account and symbol: a working order or the
\* position it became, never a second one (secret-auto-seed.ts: the placed
\* cooldown "is the only duplicate-order guard").  The handlers of updates are
\* started without being waited for (secret-socket-state.ts), and the cooldown is
\* checked before the attempt's awaits and stamped behind them: attempts at a key
\* that overlap each place their order.  That is the only way to a second stake:
\* handlers that overlap at other keys, and attempts that follow each other, make
\* none.
OneStake ==
  \A k \in Keys \ raced : live[k] + (IF k \in held THEN 1 ELSE 0) <= 1

\* A key is benched only by an attempt of its own account at that symbol: the
\* miss of one account never suppresses the other.
BenchedByOwnAttempt ==
  [][\A h \in Handlers, k \in Keys :
       SuppressAttempt(h, k) => tried[k] < Longest]_vars

\* What the comment on getNoCandidateCooldownMs says instead: the no-candidate
\* bench is "account-independent (keyed by symbol)".
NoCandidateBenchesBoth ==
  [][\A h \in Handlers, k \in Keys :
       BeginAttempt(h, k) =>
         \A a \in Accounts :
           stamp["no-candidate"][accountSymbolKey(a, k[2])]
             >= Cooldown["no-candidate"]]_vars

Wanted(k) == \E h \in Handlers : pc[h] = "loop" /\ k \in todo[h]

\* No outcome benches a key for good: one that updates keep asking for is tried
\* again and again.
TriedAgain ==
  \A k \in Keys : []<>Wanted(k) => []<>(tried[k] = 0)
=============================================================================
