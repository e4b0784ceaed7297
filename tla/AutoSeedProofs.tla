--------------------------- MODULE AutoSeedProofs ---------------------------
(***************************************************************************)
(* What the worlds of MCAutoSeed promise, for every value of the           *)
(* constants: the cooldowns of AutoSeed, the orders and caps of Seeding,   *)
(* and the lines and the cache of SecretSocket.                            *)
(***************************************************************************)
EXTENDS MCAutoSeed, Sequences, SequenceTheorems, FiniteSetTheorems, TLAPS

-----------------------------------------------------------------------------
(* Cooldowns and stakes.                                                   *)

\* Keys, ages and the key in no hand.
LEMMA KeyFacts ==
  /\ AnyKey \in Keys
  /\ Longest \in Nat \ {0} /\ \A kind \in Kinds : Cooldown[kind] \in Nat \ {0}
  /\ \A kind \in Kinds : Cooldown[kind] <= Longest
  /\ "placed" \in Kinds
<1>1. \E k \in Keys : TRUE
  <2>1. PICK a \in Accounts, s \in Symbols : TRUE
    BY KeysAssumption
  <2> QED BY <2>1 DEF Keys
<1>2. AnyKey \in Keys
  BY <1>1 DEF AnyKey
<1> QED BY <1>2, CooldownAssumption DEF Longest, Kinds

\* Time makes an age grow, in order, up to the longest cooldown.
LEMMA LaterFacts ==
  ASSUME NEW m \in Ages, NEW n \in Ages
  PROVE  /\ Later(m) \in Ages /\ (m <= n => Later(m) <= Later(n))
         /\ (m < Longest => Later(m) = m + 1)
<1>1. Longest \in Nat /\ m \in 0 .. Longest /\ n \in 0 .. Longest
  BY KeyFacts DEF Ages
<1> QED BY <1>1 DEF Ages, Later

LEMMA TypeInit == Init => TypeOK
BY KeyFacts, CooldownAssumption DEF Init, TypeOK, Ages

\* What an outcome leaves in the stamps.
LEMMA StampFacts ==
  ASSUME TypeOK, NEW h \in Handlers, NEW kind \in Kinds, recordSeedOutcomeCooldown(h, kind)
  PROVE  /\ stamp' \in [Kinds -> [Keys -> Ages]]
         /\ \A c \in Kinds, k \in Keys :
              stamp'[c][k] = IF c = kind /\ k = key[h] THEN age[h] ELSE stamp[c][k]
BY DEF TypeOK, recordSeedOutcomeCooldown

\* A handler that takes up its next key.
LEMMA NextKeyFacts ==
  ASSUME TypeOK, NEW h \in Handlers, NextKey(h)
  PROVE  /\ pc' \in [Handlers -> {"idle", "loop", "checking", "placing"}]
         /\ key' \in [Handlers -> Keys] /\ age' \in [Handlers -> Ages] /\ todo' = todo
         /\ pc'[h] = "loop"
         /\ \A g \in Handlers \ {h} : pc'[g] = pc[g] /\ key'[g] = key[g] /\ age'[g] = age[g]
BY KeyFacts DEF TypeOK, NextKey, Ages

\* An order that joins those of its key.
LEMMA AcceptedFacts ==
  ASSUME TypeOK, NEW h \in Handlers, OrderAccepted(h)
  PROVE  /\ pc[h] = "placing" /\ NextKey(h) /\ UNCHANGED <<held, tried, raced>>
         /\ live' = [live EXCEPT ![key[h]] = @ + 1] /\ live' \in [Keys -> 0 .. MaxLive]
         /\ liveAge' \in [Keys -> Ages]
         /\ \A k \in Keys \ {key[h]} : live'[k] = live[k] /\ liveAge'[k] = liveAge[k]
         /\ live[key[h]] = 0 => live'[key[h]] = 1 /\ liveAge'[key[h]] = age[h]
<1> DEFINE k == key[h]
           n == IF live[k] = 0 THEN age[h] ELSE Min({liveAge[k], age[h]})
<1>1. /\ pc[h] = "placing" /\ NextKey(h) /\ UNCHANGED <<held, tried, raced>> /\ live[k] < MaxLive
      /\ live' = [live EXCEPT ![k] = @ + 1] /\ liveAge' = [liveAge EXCEPT ![k] = n]
  BY DEF OrderAccepted, history
<1>2. k \in Keys /\ live[k] \in 0 .. MaxLive /\ liveAge[k] \in Ages /\ age[h] \in Ages
  BY DEF TypeOK
<1>3. Min({liveAge[k], age[h]}) \in {liveAge[k], age[h]}
  <2>1. \E m \in {liveAge[k], age[h]} : \A z \in {liveAge[k], age[h]} : m <= z
    BY <1>2 DEF Ages
  <2> QED BY <2>1 DEF Min
<1>4. n \in Ages
  BY <1>2, <1>3
<1>5. live[k] + 1 \in 0 .. MaxLive
  BY <1>1, <1>2, CooldownAssumption
<1> HIDE DEF n
<1>6. live[k] = 0 => n = age[h]
  BY DEF n
<1> QED BY <1>1, <1>2, <1>4, <1>5, <1>6 DEF TypeOK

LEMMA TypeStep ==
  ASSUME TypeOK, [Next]_vars
  PROVE  TypeOK'
<1>1. ASSUME NEW h \in Handlers, FeedUpdate(h) \/ HandlerEnds(h)
      PROVE  TypeOK'
  BY SMTT(30), <1>1 DEF FeedUpdate, HandlerEnds, TypeOK, brokerVars, history
<1>2. ASSUME NEW h \in Handlers, NEW k \in Keys, SuppressAttempt(h, k) \/ BeginAttempt(h, k)
      PROVE  TypeOK'
  <2>1. 0 \in Ages
    BY KeyFacts DEF Ages
  <2>2. CASE SuppressAttempt(h, k)
    BY <2>2 DEF SuppressAttempt, TypeOK, brokerVars, history
  <2>3. CASE BeginAttempt(h, k)
    BY <2>1, <2>3 DEF BeginAttempt, TypeOK, brokerVars
  <2> QED BY <1>2, <2>2, <2>3
<1>3. ASSUME NEW h \in Handlers, PositionIsOpen(h) \/ SeedSkipped(h)
      PROVE  TypeOK'
  <2>1. PICK kind \in Kinds : recordSeedOutcomeCooldown(h, kind)
    BY <1>3 DEF PositionIsOpen, SeedSkipped, Kinds
  <2>2. NextKey(h) /\ UNCHANGED <<brokerVars, tried, raced>>
    BY <1>3 DEF PositionIsOpen, SeedSkipped, history
  <2> QED BY <2>1, <2>2, StampFacts, NextKeyFacts DEF TypeOK, brokerVars
<1>4. ASSUME NEW h \in Handlers, SeedChecked(h)
      PROVE  TypeOK'
  BY <1>4 DEF SeedChecked, TypeOK, brokerVars, history
<1>5. ASSUME NEW h \in Handlers, SeedPlaces(h) \/ ReplyLost(h)
      PROVE  TypeOK'
  <2>1. OrderAccepted(h)
    BY <1>5 DEF SeedPlaces, ReplyLost
  <2>2. stamp' \in [Kinds -> [Keys -> Ages]]
    BY <1>5, KeyFacts, StampFacts DEF SeedPlaces, ReplyLost, TypeOK
  <2> QED BY <2>1, <2>2, AcceptedFacts, NextKeyFacts DEF TypeOK
<1>6. ASSUME NEW h \in Handlers, SeedThrows(h)
      PROVE  TypeOK'
  BY <1>6, NextKeyFacts DEF SeedThrows, TypeOK, brokerVars, history
<1>7. ASSUME NEW k \in Keys, OrderFills(k) \/ OrderDies(k) \/ PositionCloses(k)
      PROVE  TypeOK'
  <2>1. CASE PositionCloses(k)
    BY <2>1 DEF PositionCloses, TypeOK, handlerVars, history
  <2>2. CASE OrderFills(k) \/ OrderDies(k)
    <3>1. /\ live[k] > 0 /\ live' = [live EXCEPT ![k] = @ - 1]
          /\ liveAge' = [liveAge EXCEPT ![k] = IF live[k] = 1 THEN 0 ELSE @]
          /\ held' \in {held, held \cup {k}} /\ UNCHANGED <<stamp, handlerVars, tried, raced>>
      BY <2>2 DEF OrderFills, OrderDies, history
    <3>2. 0 \in Ages
      BY KeyFacts DEF Ages
    <3>3. live[k] \in 0 .. MaxLive /\ MaxLive \in Nat
      BY CooldownAssumption DEF TypeOK
    <3>4. live[k] - 1 \in 0 .. MaxLive
      BY <3>1, <3>3
    <3>5. live' \in [Keys -> 0 .. MaxLive] /\ liveAge' \in [Keys -> Ages]
      BY <3>1, <3>2, <3>4 DEF TypeOK
    <3> QED BY <3>1, <3>5 DEF TypeOK, handlerVars
  <2> QED BY <1>7, <2>1, <2>2
<1>8. CASE TimePasses
  <2>1. /\ stamp' = [kind \in Kinds |-> [k \in Keys |-> Later(stamp[kind][k])]]
        /\ age' = [h \in Handlers |-> IF pc[h] \in {"checking", "placing"}
                                      THEN Later(age[h]) ELSE age[h]]
        /\ liveAge' = [k \in Keys |-> IF live[k] > 0 THEN Later(liveAge[k]) ELSE liveAge[k]]
        /\ tried' = [k \in Keys |-> Later(tried[k])]
        /\ UNCHANGED <<pc, todo, key, live, held, raced>>
    BY <1>8 DEF TimePasses
  <2>2. \A m \in Ages : Later(m) \in Ages
    BY LaterFacts
  <2> HIDE DEF Later
  <2>3. stamp' \in [Kinds -> [Keys -> Ages]] /\ tried' \in [Keys -> Ages]
    BY <2>1, <2>2 DEF TypeOK
  <2>4. age' \in [Handlers -> Ages] /\ liveAge' \in [Keys -> Ages]
    BY <2>1, <2>2 DEF TypeOK
  <2> QED BY <2>1, <2>3, <2>4 DEF TypeOK
<1>9. CASE UNCHANGED vars
  BY <1>9 DEF vars, handlerVars, brokerVars, history, TypeOK
<1> QED
  BY <1>1, <1>2, <1>3, <1>4, <1>5, <1>6, <1>7, <1>8, <1>9 DEF Next, Handle, Book

\* Whatever the handlers, the broker and the clock do, stamps and ages stay within
\* the longest cooldown and an attempt is at one of its awaits.
THEOREM TypeCorrect == Spec => []TypeOK
BY TypeInit, TypeStep, PTL DEF Spec

\* An order is gone before its cooldown ends, and what was placed is known to be.
Orderly == PromptOrders /\ ~LostReplies

\* What holds of a key at which no attempts overlap: at most one is under way, and
\* none beside an order, which its cooldown outlives.
StakeAt(k) ==
  /\ live[k] + (IF k \in held THEN 1 ELSE 0) <= 1
  /\ live[k] > 0 => stamp["placed"][k] <= liveAge[k] /\ liveAge[k] < Cooldown["placed"]
  /\ \A h \in Handlers : IsAt(h, k) =>
       /\ live[k] = 0 /\ age[h] < Cooldown["placed"]
       /\ pc[h] = "placing" => k \notin held
       /\ \A g \in Handlers : IsAt(g, k) => g = h

StakeInv == TypeOK /\ \A k \in Keys \ raced : StakeAt(k)

LEMMA StakeInit == Init => StakeInv
<1> SUFFICES ASSUME Init PROVE StakeInv
  OBVIOUS
<1>1. TypeOK
  BY TypeInit
<1> QED BY <1>1 DEF Init, StakeInv, StakeAt, IsAt

\* Where no order comes, no attempt begins and nothing is stamped as placed, a
\* stake stays what it is.
LEMMA StakeSame ==
  ASSUME NEW k \in Keys, TypeOK, StakeAt(k),
         live'[k] = live[k], liveAge'[k] = liveAge[k], k \in held' => k \in held,
         stamp'["placed"][k] = stamp["placed"][k],
         \A h \in Handlers : IsAt(h, k)' =>
           /\ IsAt(h, k) /\ age'[h] = age[h]
           /\ pc'[h] = "placing" => pc[h] = "placing" \/ k \notin held
  PROVE  StakeAt(k)'
<1>1. live[k] \in Nat
  BY CooldownAssumption DEF TypeOK
<1> QED BY <1>1 DEF StakeAt

\* An attempt that begins at a key where another one is under way takes the key
\* out of the count; alone, it meets no order.
LEMMA StakeBegins ==
  ASSUME StakeInv, NEW h \in Handlers, NEW k \in Keys, BeginAttempt(h, k),
         NEW j \in Keys \ raced'
  PROVE  StakeAt(j)'
<1>1. TypeOK
  BY DEF StakeInv
<1>2. /\ pc' = [pc EXCEPT ![h] = "checking"] /\ key' = [key EXCEPT ![h] = k]
      /\ age' = [age EXCEPT ![h] = 0] /\ pc[h] = "loop"
      /\ UNCHANGED <<stamp, live, liveAge, held>>
      /\ raced' = IF \E g \in Handlers : IsAt(g, k) THEN raced \cup {k}
                  ELSE IF live[k] = 0 THEN raced \ {k} ELSE raced
  BY <1>1 DEF BeginAttempt, brokerVars
<1>3. \A g \in Handlers \ {h} : pc'[g] = pc[g] /\ key'[g] = key[g] /\ age'[g] = age[g]
  BY <1>1, <1>2 DEF TypeOK
<1>4. pc'[h] = "checking" /\ key'[h] = k /\ age'[h] = 0
  BY <1>1, <1>2 DEF TypeOK
<1>5. CASE j # k
  <2>1. StakeAt(j)
    BY <1>2, <1>5 DEF StakeInv
  <2>2. \A g \in Handlers : IsAt(g, j)' =>
          IsAt(g, j) /\ age'[g] = age[g] /\ (pc'[g] = "placing" => pc[g] = "placing")
    BY <1>3, <1>4, <1>5 DEF IsAt
  <2> QED BY <1>1, <1>2, <2>1, <2>2, StakeSame
<1>6. CASE j = k
  <2>1. ~(\E g \in Handlers : IsAt(g, k))
    BY <1>2, <1>6
  <2>2. live[k] \in Nat /\ stamp["placed"][k] \in Int /\ liveAge[k] \in Int
        /\ Cooldown["placed"] \in Int /\ 0 < Cooldown["placed"]
    BY <1>1, KeyFacts, CooldownAssumption DEF TypeOK, Ages
  <2>3. ~(stamp["placed"][k] < Cooldown["placed"])
    BY KeyFacts DEF BeginAttempt, activeCooldown
  <2>4. live[k] = 0
    <3>1. CASE k \in raced
      BY <1>2, <1>6, <2>1, <3>1
    <3>2. CASE k \notin raced
      <4>1. StakeAt(k)
        BY <3>2 DEF StakeInv
      <4> QED BY <2>2, <2>3, <4>1 DEF StakeAt
    <3> QED BY <3>1, <3>2
  <2>5. \A g \in Handlers : IsAt(g, k)' => g = h
    BY <1>3, <2>1 DEF IsAt
  <2> QED BY <1>2, <1>4, <1>6, <2>2, <2>4, <2>5 DEF StakeAt
<1> QED BY <1>5, <1>6

\* The order an attempt places is the only stake of its key.
LEMMA StakePlaced ==
  ASSUME Orderly, StakeInv, NEW h \in Handlers, SeedPlaces(h) \/ ReplyLost(h),
         NEW j \in Keys \ raced'
  PROVE  StakeAt(j)'
<1> DEFINE k == key[h]
<1>1. TypeOK
  BY DEF StakeInv
<1>2. OrderAccepted(h) /\ recordSeedOutcomeCooldown(h, "placed")
  BY DEF SeedPlaces, ReplyLost, Orderly
<1>3. pc[h] = "placing" /\ UNCHANGED <<held, raced>> /\ NextKey(h)
  BY <1>1, <1>2, AcceptedFacts
<1>4. StakeAt(j)
  BY <1>3 DEF StakeInv
<1>5. /\ pc'[h] = "loop"
      /\ \A g \in Handlers \ {h} : pc'[g] = pc[g] /\ key'[g] = key[g] /\ age'[g] = age[g]
  BY <1>1, <1>3, NextKeyFacts
<1>6. CASE j # k
  <2>1. /\ live'[j] = live[j] /\ liveAge'[j] = liveAge[j]
        /\ stamp'["placed"][j] = stamp["placed"][j]
    BY <1>1, <1>2, <1>6, AcceptedFacts, StampFacts, KeyFacts
  <2>2. \A g \in Handlers : IsAt(g, j)' =>
          IsAt(g, j) /\ age'[g] = age[g] /\ (pc'[g] = "placing" => pc[g] = "placing")
    BY <1>5 DEF IsAt
  <2> QED BY <1>1, <1>3, <1>4, <2>1, <2>2, StakeSame
<1>7. CASE j = k
  <2>1. IsAt(h, j)
    BY <1>3, <1>7 DEF IsAt
  <2>2. /\ live[j] = 0 /\ j \notin held /\ age[h] < Cooldown["placed"]
        /\ \A g \in Handlers : IsAt(g, j) => g = h
    BY <1>3, <1>4, <2>1 DEF StakeAt
  <2>3. live'[j] = 1 /\ liveAge'[j] = age[h] /\ stamp'["placed"][j] = age[h]
    BY <1>1, <1>2, <1>7, <2>2, AcceptedFacts, StampFacts, KeyFacts
  <2>4. age[h] <= age[h] /\ j \notin held'
    BY <1>1, <1>3, <2>2 DEF TypeOK, Ages
  <2>5. \A g \in Handlers : ~IsAt(g, j)'
    BY <1>5, <2>2 DEF IsAt
  <2> HIDE DEF k
  <2> QED BY <2>2, <2>3, <2>4, <2>5 DEF StakeAt
<1> QED BY <1>6, <1>7

\* Time passes: with orders gone in time, a cooldown still outlives its order.
LEMMA StakeAges ==
  ASSUME Orderly, StakeInv, TimePasses, NEW k \in Keys \ raced'
  PROVE  StakeAt(k)'
<1>1. TypeOK /\ StakeAt(k)
  BY DEF StakeInv, TimePasses
<1>2. /\ live[k] > 0 => liveAge[k] + 1 < Cooldown["placed"]
      /\ \A h \in Handlers : IsAt(h, k) => age[h] + 1 < Cooldown["placed"]
      /\ stamp'["placed"][k] = Later(stamp["placed"][k])
      /\ live[k] > 0 => liveAge'[k] = Later(liveAge[k])
      /\ \A h \in Handlers : IsAt(h, k) => age'[h] = Later(age[h])
      /\ UNCHANGED <<pc, key, live, held>>
  BY <1>1, KeyFacts DEF TimePasses, TypeOK, Orderly, IsAt
<1>3. \A m \in Ages : Later(m) \in {m, m + 1} /\ m \in Int
  BY KeyFacts DEF Ages, Later
<1>4. /\ stamp["placed"][k] \in Ages /\ liveAge[k] \in Ages /\ Cooldown["placed"] \in Int
      /\ \A h \in Handlers : age[h] \in Ages
  BY <1>1, KeyFacts DEF TypeOK
<1>5. ASSUME live[k] > 0
      PROVE  stamp'["placed"][k] <= liveAge'[k] /\ liveAge'[k] < Cooldown["placed"]
  <2>1. stamp["placed"][k] <= liveAge[k]
    BY <1>1, <1>5 DEF StakeAt
  <2>2. Later(stamp["placed"][k]) <= Later(liveAge[k])
    BY <1>4, <2>1, LaterFacts
  <2> HIDE DEF Later
  <2>3. Later(liveAge[k]) < Cooldown["placed"]
    BY <1>2, <1>3, <1>4, <1>5
  <2> QED BY <1>2, <1>5, <2>2, <2>3
<1>6. \A h \in Handlers : IsAt(h, k) => age'[h] < Cooldown["placed"]
  <2> HIDE DEF Later
  <2> QED BY <1>2, <1>3, <1>4
<1> QED BY <1>1, <1>2, <1>5, <1>6 DEF StakeAt, IsAt

LEMMA StakeStep ==
  ASSUME Orderly, StakeInv, [Next]_vars
  PROVE  StakeInv'
<1>1. TypeOK /\ TypeOK'
  BY TypeStep DEF StakeInv
<1>2. ASSUME NEW h \in Handlers,
             FeedUpdate(h) \/ HandlerEnds(h) \/ (\E k \in Keys : SuppressAttempt(h, k))
                \/ SeedChecked(h),
             NEW k \in Keys \ raced'
      PROVE  StakeAt(k)'
  <2>1. /\ UNCHANGED <<stamp, key, age, live, liveAge, held, raced>>
        /\ \A g \in Handlers : pc'[g] \in {"checking", "placing"} =>
             /\ pc[g] \in {"checking", "placing"}
             /\ pc'[g] = "placing" => pc[g] = "placing" \/ key[g] \notin held
    BY <1>1, <1>2
       DEF FeedUpdate, HandlerEnds, SuppressAttempt, SeedChecked, brokerVars, history, TypeOK
  <2> QED BY <1>1, <1>2, <2>1, StakeSame DEF IsAt, StakeInv
<1>3. ASSUME NEW h \in Handlers, PositionIsOpen(h) \/ SeedSkipped(h) \/ SeedThrows(h),
             NEW k \in Keys \ raced'
      PROVE  StakeAt(k)'
  <2>1. NextKey(h) /\ UNCHANGED <<live, liveAge, held, raced>>
    BY <1>3 DEF PositionIsOpen, SeedSkipped, SeedThrows, brokerVars, history
  <2>2. stamp'["placed"][k] = stamp["placed"][k]
    <3>1. CASE SeedThrows(h)
      BY <3>1 DEF SeedThrows
    <3>2. CASE PositionIsOpen(h) \/ SeedSkipped(h)
      <4>1. PICK kind \in Kinds \ {"placed"} : recordSeedOutcomeCooldown(h, kind)
        BY <3>2 DEF PositionIsOpen, SeedSkipped, Kinds
      <4> QED BY <1>1, <4>1, StampFacts, KeyFacts
    <3> QED BY <1>3, <3>1, <3>2
  <2>3. \A g \in Handlers : pc'[g] # "loop" =>
          pc'[g] = pc[g] /\ key'[g] = key[g] /\ age'[g] = age[g]
    BY <1>1, <2>1, NextKeyFacts
  <2> QED BY <1>1, <1>3, <2>1, <2>2, <2>3, StakeSame DEF IsAt, StakeInv
<1>4. ASSUME NEW j \in Keys, OrderFills(j) \/ OrderDies(j) \/ PositionCloses(j),
             NEW k \in Keys \ raced'
      PROVE  StakeAt(k)'
  <2>1. UNCHANGED <<stamp, pc, key, age, raced>> /\ StakeAt(k)
    BY <1>4 DEF OrderFills, OrderDies, PositionCloses, handlerVars, history, StakeInv
  <2>2. live[k] \in Nat
    BY <1>1, CooldownAssumption DEF TypeOK
  <2>3. CASE PositionCloses(j) \/ j # k
    <3>1. live'[k] = live[k] /\ liveAge'[k] = liveAge[k] /\ (k \in held' => k \in held)
      BY <1>1, <1>4, <2>3 DEF OrderFills, OrderDies, PositionCloses, TypeOK
    <3>2. \A h \in Handlers : IsAt(h, k)' => IsAt(h, k)
      BY <2>1 DEF IsAt
    <3> QED BY <1>1, <2>1, <3>1, <3>2, StakeSame
  <2>4. CASE (OrderFills(j) \/ OrderDies(j)) /\ j = k
    <3>1. live[k] > 0 /\ live'[k] = live[k] - 1 /\ held' \in {held, held \cup {k}}
      BY <1>1, <2>4 DEF OrderFills, OrderDies, TypeOK
    <3>2. live[k] = 1 /\ k \notin held /\ live'[k] = 0
      BY <2>1, <2>2, <3>1 DEF StakeAt
    <3>3. \A h \in Handlers : ~IsAt(h, k)'
      BY <2>1, <3>2 DEF StakeAt, IsAt
    <3> QED BY <3>2, <3>3 DEF StakeAt
  <2> QED BY <1>4, <2>3, <2>4
<1>5. CASE UNCHANGED vars
  BY <1>1, <1>5 DEF vars, handlerVars, brokerVars, history, StakeInv, StakeAt, IsAt
<1>6. CASE \E h \in Handlers, k \in Keys : BeginAttempt(h, k)
  BY <1>1, <1>6, StakeBegins DEF StakeInv
<1>7. CASE \E h \in Handlers : SeedPlaces(h) \/ ReplyLost(h)
  BY <1>1, <1>7, StakePlaced DEF StakeInv
<1>8. CASE TimePasses
  BY <1>1, <1>8, StakeAges DEF StakeInv
<1>9. ASSUME \A k \in Keys \ raced' : StakeAt(k)'
      PROVE  StakeInv'
  BY <1>1, <1>9 DEF StakeInv
<1> QED
  BY <1>2, <1>3, <1>4, <1>5, <1>6, <1>7, <1>8, <1>9 DEF Next, Handle, Book

LEMMA StakeSuffices == StakeInv => OneStake
BY DEF StakeInv, StakeAt, OneStake

\* However many updates are handled at once: where an order is gone before its
\* cooldown ends and every reply arrives, an account comes to a second stake in a
\* symbol only by two attempts at that very key under way at once.  Handlers that
\* overlap at other keys and attempts that follow each other are kept apart by the
\* cooldown and the position check (recordSeedOutcome, hasOpenUnderlyingPosition).
THEOREM OneStakeWhereOrderly ==
  ASSUME Orderly
  PROVE  Spec => []OneStake
BY StakeInit, StakeStep, StakeSuffices, PTL DEF Spec

\* The same of the world the run checks.
THEOREM OneStakeInPromptWorld ==
  ASSUME Orderly
  PROVE  MCSpec => []OneStakeUnlessRaced
<1> DEFINE Inv == world = "prompt" => StakeInv
<1>1. MCInit => Inv
  BY StakeInit DEF MCInit
<1>2. Inv /\ [MCNext]_<<vars, seedingVars, socketVars, world>> => Inv'
  <2> SUFFICES ASSUME Inv, [MCNext]_<<vars, seedingVars, socketVars, world>>, world' = "prompt"
               PROVE  StakeInv'
    OBVIOUS
  <2>1. StakeInv /\ [Next]_vars
    BY DEF MCNext
  <2> QED BY <2>1, StakeStep
<1>3. Inv => OneStakeUnlessRaced
  BY StakeSuffices DEF OneStakeUnlessRaced
<1> QED BY <1>1, <1>2, <1>3, PTL DEF MCSpec

-----------------------------------------------------------------------------

\* A stamp is no younger than the last attempt at its key, nor is a handler's
\* reading of the clock.
BenchInv ==
  /\ TypeOK
  /\ \A kind \in Kinds, k \in Keys : tried[k] <= stamp[kind][k]
  /\ \A h \in Handlers : pc[h] \in {"checking", "placing"} => tried[key[h]] <= age[h]

LEMMA BenchInit == Init => BenchInv
<1> SUFFICES ASSUME Init PROVE BenchInv
  OBVIOUS
<1>1. TypeOK /\ Longest \in Nat
  BY TypeInit, KeyFacts
<1> QED BY <1>1 DEF Init, BenchInv

LEMMA BenchStep ==
  ASSUME BenchInv, [Next]_vars
  PROVE  BenchInv'
<1>1. TypeOK /\ TypeOK'
  BY TypeStep DEF BenchInv
<1>2. ASSUME NEW h \in Handlers,
             FeedUpdate(h) \/ HandlerEnds(h) \/ (\E k \in Keys : SuppressAttempt(h, k))
                \/ SeedChecked(h) \/ SeedThrows(h)
      PROVE  BenchInv'
  <2>1. /\ stamp' = stamp /\ tried' = tried
        /\ \A g \in Handlers : pc'[g] \in {"checking", "placing"} =>
             pc[g] \in {"checking", "placing"} /\ key'[g] = key[g] /\ age'[g] = age[g]
    BY <1>1, <1>2, NextKeyFacts
       DEF FeedUpdate, HandlerEnds, SuppressAttempt, SeedChecked, SeedThrows, history, TypeOK
  <2> QED BY <1>1, <2>1 DEF BenchInv
<1>3. ASSUME NEW h \in Handlers, NEW k \in Keys, BeginAttempt(h, k)
      PROVE  BenchInv'
  <2>1. /\ stamp' = stamp /\ key'[h] = k /\ age'[h] = 0 /\ tried'[k] = 0
        /\ \A j \in Keys \ {k} : tried'[j] = tried[j]
        /\ \A g \in Handlers \ {h} : pc'[g] = pc[g] /\ key'[g] = key[g] /\ age'[g] = age[g]
    BY <1>1, <1>3 DEF BeginAttempt, TypeOK
  <2>2. \A n \in Ages : 0 <= n
    BY DEF Ages
  <2>3. \A kind \in Kinds : stamp[kind][k] \in Ages
    BY <1>1 DEF TypeOK
  <2>4. \A g \in Handlers : key[g] \in Keys /\ age[g] \in Ages
    BY <1>1 DEF TypeOK
  <2> QED BY <1>1, <2>1, <2>2, <2>3, <2>4 DEF BenchInv
<1>4. ASSUME NEW h \in Handlers, NEW kind \in Kinds,
             pc[h] \in {"checking", "placing"}, NextKey(h), tried' = tried,
             recordSeedOutcomeCooldown(h, kind) \/ stamp' = stamp
      PROVE  BenchInv'
  <2>1. \A c \in Kinds, k \in Keys :
          stamp'[c][k] = stamp[c][k] \/ (k = key[h] /\ stamp'[c][k] = age[h])
    <3>1. CASE recordSeedOutcomeCooldown(h, kind)
      BY <1>1, <3>1, StampFacts
    <3> QED BY <1>4, <3>1
  <2>2. \A g \in Handlers : pc'[g] \in {"checking", "placing"} =>
          pc'[g] = pc[g] /\ key'[g] = key[g] /\ age'[g] = age[g]
    BY <1>1, <1>4, NextKeyFacts
  <2> QED BY <1>1, <1>4, <2>1, <2>2 DEF BenchInv
<1>5. ASSUME NEW h \in Handlers,
             PositionIsOpen(h) \/ SeedSkipped(h) \/ SeedPlaces(h) \/ ReplyLost(h)
      PROVE  BenchInv'
  <2>1. /\ pc[h] \in {"checking", "placing"} /\ NextKey(h) /\ tried' = tried
        /\ \E kind \in Kinds : recordSeedOutcomeCooldown(h, kind) \/ stamp' = stamp
    BY <1>1, <1>5, AcceptedFacts, KeyFacts
       DEF PositionIsOpen, SeedSkipped, SeedPlaces, ReplyLost, Kinds, history
  <2> QED BY <1>4, <2>1
<1>6. ASSUME NEW k \in Keys, OrderFills(k) \/ OrderDies(k) \/ PositionCloses(k)
      PROVE  BenchInv'
  BY <1>1, <1>6 DEF OrderFills, OrderDies, PositionCloses, handlerVars, history, BenchInv
<1>7. CASE TimePasses
  <2>1. /\ \A kind \in Kinds, k \in Keys : stamp'[kind][k] = Later(stamp[kind][k])
        /\ \A k \in Keys : tried'[k] = Later(tried[k])
        /\ \A h \in Handlers : pc[h] \in {"checking", "placing"} => age'[h] = Later(age[h])
        /\ UNCHANGED <<pc, key>>
    BY <1>7 DEF TimePasses
  <2>2. /\ \A kind \in Kinds, k \in Keys : stamp[kind][k] \in Ages
        /\ \A k \in Keys : tried[k] \in Ages
        /\ \A h \in Handlers : key[h] \in Keys /\ age[h] \in Ages
    BY <1>1 DEF TypeOK
  <2>3. \A kind \in Kinds, k \in Keys : tried'[k] <= stamp'[kind][k]
    BY <2>1, <2>2, LaterFacts DEF BenchInv
  <2>4. \A h \in Handlers : pc'[h] \in {"checking", "placing"} => tried'[key'[h]] <= age'[h]
    BY <2>1, <2>2, LaterFacts DEF BenchInv
  <2> QED BY <1>1, <2>3, <2>4 DEF BenchInv
<1>8. CASE UNCHANGED vars
  BY <1>1, <1>8 DEF vars, handlerVars, history, BenchInv
<1> QED
  BY <1>2, <1>3, <1>5, <1>6, <1>7, <1>8 DEF Next, Handle, Book

\* However updates, replies and orders interleave, what suppresses an attempt is
\* an attempt of the same account at the same symbol
\* (getActiveAutoSeedCooldownKind): the miss of one account never benches the
\* other.
THEOREM OnlyOwnAttemptsBench == Spec => BenchedByOwnAttempt
<1>1. ASSUME BenchInv, NEW h \in Handlers, NEW k \in Keys, SuppressAttempt(h, k)
      PROVE  tried[k] < Longest
  <2>1. PICK kind \in Kinds : stamp[kind][k] < Cooldown[kind]
    BY <1>1 DEF SuppressAttempt, activeCooldown
  <2>2. tried[k] <= stamp[kind][k] /\ tried[k] \in Ages /\ stamp[kind][k] \in Ages
    BY <1>1 DEF BenchInv, TypeOK
  <2>3. Cooldown[kind] \in Nat /\ Longest \in Nat /\ Cooldown[kind] <= Longest
    BY KeyFacts
  <2> QED BY <2>1, <2>2, <2>3 DEF Ages
<1>2. BenchInv /\ [Next]_vars =>
        [\A h \in Handlers, k \in Keys : SuppressAttempt(h, k) => tried[k] < Longest]_vars
  BY <1>1
<1> QED BY <1>2, BenchInit, BenchStep, PTL DEF Spec, BenchedByOwnAttempt

-----------------------------------------------------------------------------
(* Attempts.                                                               *)

Points == {"idle", "resolving", "starting", "checking", "selecting", "quoting",
           "budgeting", "sizing", "dry-run", "placing"}

\* Where an attempt has its contract, its limit price and its quantity.
Picked == {"quoting", "budgeting", "sizing", "dry-run", "placing"}
Priced == {"budgeting", "sizing", "dry-run", "placing"}
Sized == {"dry-run", "placing"}

AttemptTypes ==
  /\ step \in [Attempts -> Points]
  /\ task \in [Attempts -> [maxLimitPrice : Int, heldDte : Int]]
  /\ pass \in [Attempts -> {"first", "retry", "held"}]
  /\ account \in [Attempts -> Seeds!AccountTypes]
  /\ dte \in [Attempts -> Int]
  /\ price \in [Attempts -> Nat] /\ qty \in [Attempts -> Nat]

\* What an attempt carries from one await to the next.
AttemptOK(t) ==
  /\ placed[t] <= 1 /\ (step[t] # "idle" => placed[t] = 0)
  /\ step[t] = "selecting" => pass[t] # "held"
  /\ pass[t] = "held" => dte[t] >= Seeds!HeldFallbackMinDte
  /\ step[t] \in Picked /\ account[t] = "cash" =>
       dte[t] \in Seeds!FallbackWindow \/ pass[t] = "held"
  /\ step[t] \in Priced =>
       price[t] > 0 /\ (task[t].maxLimitPrice # Seeds!None => price[t] <= task[t].maxLimitPrice)
  /\ step[t] \in Sized => qty[t] > 0

AttemptStays(u) ==
  /\ step'[u] = step[u] /\ task'[u] = task[u] /\ pass'[u] = pass[u] /\ account'[u] = account[u]
  /\ dte'[u] = dte[u] /\ price'[u] = price[u] /\ qty'[u] = qty[u]

OrderOK(o) ==
  /\ o.account \in Seeds!AccountTypes /\ o.qty \in Nat \ {0} /\ o.price \in Nat \ {0}
       /\ o.dte \in Int
  /\ o.account = "cash" =>
       o.dte \in Seeds!FallbackWindow \/ (o.explicit /\ o.dte >= Seeds!HeldFallbackMinDte)
  /\ o.maxLimitPrice # Seeds!None => o.price <= o.maxLimitPrice

PositionOK(p) ==
  /\ p.qty \in Nat /\ p.value \in Nat /\ p.dte \in Int
  /\ p.value > 0 => p.qty > 0

SeedInv ==
  /\ AttemptTypes /\ placed \in [Attempts -> Nat]
  /\ position \in [Seeds!AccountTypes -> [qty : Nat, value : Nat, dte : Int]]
  /\ \A t \in Attempts : AttemptOK(t)
  /\ \A o \in book : OrderOK(o)
  /\ \A a \in Seeds!AccountTypes : PositionOK(position[a])

LEMMA SeedInit == Seeds!Init => SeedInv
<1> SUFFICES ASSUME Seeds!Init PROVE SeedInv
  OBVIOUS
<1>1. AttemptTypes /\ placed \in [Attempts -> Nat]
  BY DEF Seeds!Init, AttemptTypes, Points, Seeds!AccountTypes, Seeds!NoTask, Seeds!None
<1>2. \A t \in Attempts : AttemptOK(t)
  BY DEF Seeds!Init, AttemptOK, Picked, Priced, Sized
<1> QED BY <1>1, <1>2 DEF Seeds!Init, SeedInv, PositionOK, Seeds!NoPosition

\* The end of a pass: the attempt is over or a next pass starts.
LEMMA IdleFacts ==
  ASSUME AttemptTypes, NEW t \in Attempts, Seeds!Idle(t)
  PROVE  /\ AttemptTypes' /\ \A u \in Attempts \ {t} : AttemptStays(u)
         /\ step'[t] = "idle" /\ pass'[t] = "first"
BY DEF AttemptTypes, Seeds!Idle, AttemptStays, Points, Seeds!AccountTypes, Seeds!NoTask,
  Seeds!None

LEMMA StartsPassFacts ==
  ASSUME AttemptTypes, NEW t \in Attempts, NEW next \in {"retry", "held"}, NEW d \in Int,
         Seeds!StartsPass(t, next, d)
  PROVE  /\ AttemptTypes' /\ \A u \in Attempts \ {t} : AttemptStays(u)
         /\ step'[t] = "starting" /\ pass'[t] = next /\ dte'[t] = d
BY DEF AttemptTypes, Seeds!StartsPass, AttemptStays, Points

LEMMA SkipFacts ==
  ASSUME AttemptTypes, NEW t \in Attempts, NEW reason, Seeds!Skip(t, reason)
  PROVE  /\ AttemptTypes' /\ \A u \in Attempts \ {t} : AttemptStays(u)
         /\ step'[t] \in {"idle", "starting"}
         /\ pass'[t] = "held" => dte'[t] >= Seeds!HeldFallbackMinDte
<1> DEFINE d == task[t].heldDte
<1>1. CASE Seeds!Idle(t)
  BY <1>1, IdleFacts
<1>2. CASE Seeds!StartsPass(t, "held", d) /\ d >= Seeds!HeldFallbackMinDte
  <2>1. d \in Int
    BY DEF AttemptTypes
  <2> HIDE DEF d
  <2> QED BY <1>2, <2>1, StartsPassFacts
<1> QED BY <1>1, <1>2 DEF Seeds!Skip

\* Whatever an attempt does, the others are as they were.
LEMMA OthersStay ==
  ASSUME SeedInv, NEW t \in Attempts, placed' \in [Attempts -> Nat],
         \A u \in Attempts \ {t} : AttemptStays(u) /\ placed'[u] = placed[u]
  PROVE  \A u \in Attempts \ {t} : AttemptOK(u)'
BY DEF SeedInv, AttemptOK, AttemptStays

LEMMA AttemptKeeps ==
  ASSUME SeedInv, NEW t \in Attempts, AttemptTypes', placed' \in [Attempts -> Nat],
         \A u \in Attempts \ {t} : AttemptStays(u) /\ placed'[u] = placed[u],
         AttemptOK(t)', position' = position, \A o \in book' : OrderOK(o)
  PROVE  SeedInv'
<1>1. \A u \in Attempts : AttemptOK(u)'
  BY OthersStay
<1> QED BY <1>1 DEF SeedInv

\* A pass that ends without an order.
LEMMA SkipKeeps ==
  ASSUME SeedInv, NEW t \in Attempts, step[t] # "idle", NEW reason, Seeds!Skip(t, reason),
         UNCHANGED <<placed, position, book>>
  PROVE  SeedInv'
<1>1. /\ AttemptTypes' /\ \A u \in Attempts \ {t} : AttemptStays(u)
      /\ step'[t] \in {"idle", "starting"}
      /\ pass'[t] = "held" => dte'[t] >= Seeds!HeldFallbackMinDte
  BY SkipFacts DEF SeedInv
<1>2. AttemptOK(t)'
  BY <1>1 DEF SeedInv, AttemptOK, Picked, Priced, Sized
<1> QED BY <1>1, <1>2, AttemptKeeps DEF SeedInv

\* The end of an attempt, its order taken or not.
LEMMA EndKeeps ==
  ASSUME SeedInv, NEW t \in Attempts, step[t] # "idle", Seeds!Idle(t),
         \/ UNCHANGED <<placed, Seeds!brokerVars, benched>>
         \/ step[t] = "placing" /\ Seeds!BrokerTakes(t)
  PROVE  SeedInv'
<1>1. /\ AttemptTypes' /\ \A u \in Attempts \ {t} : AttemptStays(u)
      /\ step'[t] = "idle" /\ pass'[t] = "first"
  BY IdleFacts DEF SeedInv
<1>2. CASE UNCHANGED <<placed, Seeds!brokerVars, benched>>
  <2>1. AttemptOK(t)'
    BY <1>1, <1>2 DEF SeedInv, AttemptOK, Picked, Priced, Sized
  <2> QED BY <1>1, <1>2, <2>1, AttemptKeeps DEF SeedInv, Seeds!brokerVars
<1>3. CASE step[t] = "placing" /\ Seeds!BrokerTakes(t)
  <2>1. /\ placed' = [placed EXCEPT ![t] = placed[t] + 1] /\ position' = position
        /\ book' = book \cup {Seeds!Taken(t)}
    BY <1>3 DEF Seeds!BrokerTakes
  <2>2. placed[t] = 0 /\ placed \in [Attempts -> Nat]
    BY <1>3 DEF SeedInv, AttemptOK
  <2>3. placed' \in [Attempts -> Nat] /\ \A u \in Attempts \ {t} : placed'[u] = placed[u]
    BY <2>1, <2>2
  <2>4. AttemptOK(t)'
    BY <1>1, <2>1, <2>2 DEF AttemptOK, Picked, Priced, Sized
  <2>5. OrderOK(Seeds!Taken(t))
    <3>1. /\ account[t] \in Seeds!AccountTypes /\ qty[t] \in Nat \ {0} /\ price[t] \in Nat \ {0}
          /\ dte[t] \in Int
      BY <1>3 DEF SeedInv, AttemptTypes, AttemptOK, Sized, Priced
    <3>2. account[t] = "cash" => dte[t] \in Seeds!FallbackWindow \/ pass[t] = "held"
      BY <1>3 DEF SeedInv, AttemptOK, Picked
    <3>3. pass[t] = "held" => dte[t] >= Seeds!HeldFallbackMinDte
      BY DEF SeedInv, AttemptOK
    <3>4. task[t].maxLimitPrice # Seeds!None => price[t] <= task[t].maxLimitPrice
      BY <1>3 DEF SeedInv, AttemptOK, Priced
    <3> QED BY <3>1, <3>2, <3>3, <3>4 DEF OrderOK, Seeds!Taken
  <2>6. \A o \in book' : OrderOK(o)
    BY <2>1, <2>5 DEF SeedInv
  <2> QED BY <1>1, <2>1, <2>3, <2>4, <2>6, AttemptKeeps
<1> QED BY <1>2, <1>3

LEMMA BeginKeeps ==
  ASSUME SeedInv, NEW t \in Attempts, NEW a \in Seeds!AccountTypes, NEW limit \in Int,
         NEW days \in Int, NEW next \in {"starting", "resolving"},
         Seeds!BeginSeed(t, a, limit, days, next)
  PROVE  SeedInv'
<1>1. /\ AttemptTypes' /\ \A u \in Attempts \ {t} : AttemptStays(u)
      /\ step'[t] = next /\ pass'[t] = pass[t] /\ dte'[t] = dte[t]
      /\ placed' = [placed EXCEPT ![t] = 0] /\ UNCHANGED Seeds!brokerVars
  BY DEF Seeds!BeginSeed, SeedInv, AttemptTypes, AttemptStays, Points
<1>2. placed' \in [Attempts -> Nat] /\ placed'[t] = 0 /\ \A u \in Attempts \ {t} :
      placed'[u] = placed[u]
  BY <1>1 DEF SeedInv
<1>3. AttemptOK(t)'
  BY <1>1, <1>2 DEF SeedInv, AttemptOK, Picked, Priced, Sized
<1> QED BY <1>1, <1>2, <1>3, AttemptKeeps DEF SeedInv, Seeds!brokerVars

\* What is left of a chain after the retries suits the account.
LEMMA SelectionFacts ==
  ASSUME NEW a \in Seeds!AccountTypes,
         NEW first \in Seeds!getTopOptionCandidateForSymbol,
         NEW second \in Seeds!getTopOptionCandidateForSymbol,
         Seeds!SelectionSkip(a, first, Seeds!FinalCandidate(a, first, second)) = "none"
  PROVE  LET d == Seeds!FinalCandidate(a, first, second).dte
         IN  d \in Int /\ (a = "cash" => d \in Seeds!FallbackWindow)
<1> DEFINE final == Seeds!FinalCandidate(a, first, second)
<1>1. final \in {first, second}
  BY DEF Seeds!FinalCandidate
<1>2. \A c \in Seeds!getTopOptionCandidateForSymbol : c.dte \in Int
  BY SeedingAssumption
     DEF Seeds!getTopOptionCandidateForSymbol, Seeds!EmptyAnswers, Seeds!ContractAnswers,
       Seeds!Candidate, Seeds!None
<1>3. final.dte \in Int
  BY <1>1, <1>2
<1>4. a = "cash" => final.dte \in Seeds!FallbackWindow
  <2> HIDE DEF final
  <2> QED BY <1>3 DEF Seeds!SelectionSkip, Seeds!UsedCashFallback, Seeds!CashWindow,
    Seeds!FallbackWindow, final
<1> QED BY <1>3, <1>4

-----------------------------------------------------------------------------
(* Sizing.                                                                 *)

LEMMA Quotient ==
  ASSUME NEW m \in Nat, NEW n \in Nat, n > 0
  PROVE  m \div n \in Nat /\ (m \div n) * n <= m
OBVIOUS

LEMMA CapFacts ==
  ASSUME NEW a \in Seeds!AccountTypes,
         NEW rail \in {"model", "underlying", "combined", "margin"}
  PROVE  Seeds!CapOf(a, rail) \in Nat
<1>1. Liquid[a] \in Nat /\ CapPct[rail] \in Nat
  BY SeedingAssumption DEF Seeds!AccountTypes
<1>2. \A m, n \in Nat : m * n \in Nat
  OBVIOUS
<1>3. Liquid[a] * CapPct[rail] \in Nat
  BY <1>1, <1>2
<1> QED BY <1>3, Quotient DEF Seeds!CapOf

\* Contracts within a headroom cost no more than it.
LEMMA ContractFacts ==
  ASSUME NEW headroom \in Int, NEW p \in Nat \ {0}
  PROVE  /\ Seeds!Contracts(headroom, p) \in Nat
         /\ Seeds!Contracts(headroom, p) >= 1 => Seeds!Contracts(headroom, p) * p <= headroom
<1>1. CASE headroom > 0
  <2>1. headroom \in Nat /\ p \in Nat /\ p > 0
    BY <1>1
  <2> QED BY <1>1, <2>1, Quotient DEF Seeds!Contracts
<1>2. CASE ~(headroom > 0)
  BY <1>2 DEF Seeds!Contracts
<1> QED BY <1>1, <1>2

\* The least of a model and of up to three rails.
LEMMA LeastFacts ==
  ASSUME NEW S, NEW k \in Int, NEW l \in Int, NEW m \in Int, NEW n \in Int, S = {k, l, m, n}
  PROVE  Seeds!Min(S) \in S /\ \A x \in S : Seeds!Min(S) <= x
<1>1. \E x \in S : \A y \in S : x <= y
  OBVIOUS
<1> QED BY <1>1 DEF Seeds!Min

\* The quantity is within every rail, whether it is the least of them or the
\* lift of a model below one contract.
LEMMA QuantityFacts ==
  ASSUME SeedInv, NEW a \in Seeds!AccountTypes, NEW p \in Nat \ {0},
         NEW model \in Seeds!modelContracts(a, p),
         Seeds!resolveSeedQuantity(model, Seeds!HardRails(a, p)) >= 1
  PROVE  /\ Seeds!resolveSeedQuantity(model, Seeds!HardRails(a, p)) \in Nat \ {0}
         /\ \A rail \in Seeds!HardRails(a, p) :
              Seeds!resolveSeedQuantity(model, Seeds!HardRails(a, p)) <= rail
<1> DEFINE quantity == Seeds!resolveSeedQuantity(model, Seeds!HardRails(a, p))
<1>1. model \in Nat
  <2>1. PICK x \in 0 .. Seeds!CapOf(a, "model") : model = Seeds!Contracts(x, p)
    BY DEF Seeds!modelContracts
  <2>2. x \in Int
    BY <2>1
  <2> QED BY <2>1, <2>2, ContractFacts
<1>2. PICK l \in Nat, m \in Nat, n \in Nat : Seeds!HardRails(a, p) = {l, m, n}
  <2> DEFINE l == Seeds!Contracts(Seeds!CapOf(a, "underlying") - Seeds!Exposure(a), p)
             m == Seeds!Contracts(Seeds!CapOf(a,
                  "combined") - Seeds!Exposure(a) - Seeds!Exposure(Seeds!Other(a)), p)
             n == Seeds!Contracts(Seeds!CapOf(a, "margin") - Elsewhere - Seeds!Exposure(a), p)
  <2>1. /\ Seeds!Exposure(a) \in Int /\ Seeds!Exposure(Seeds!Other(a)) \in Int
           /\ Elsewhere \in Int
        /\ Seeds!CapOf(a, "underlying") \in Int /\ Seeds!CapOf(a, "combined") \in Int
        /\ Seeds!CapOf(a, "margin") \in Int
    BY CapFacts, SeedingAssumption DEF SeedInv, PositionOK, Seeds!Exposure, Seeds!Other,
      Seeds!AccountTypes
  <2>2. l \in Nat /\ m \in Nat /\ n \in Nat
    <3>1. /\ Seeds!CapOf(a, "underlying") - Seeds!Exposure(a) \in Int
          /\ Seeds!CapOf(a, "combined") - Seeds!Exposure(a) - Seeds!Exposure(Seeds!Other(a)) \in Int
          /\ Seeds!CapOf(a, "margin") - Elsewhere - Seeds!Exposure(a) \in Int
      BY <2>1
    <3> QED BY <3>1, ContractFacts, Zenon
  <2>3. Seeds!HardRails(a, p) = {l, m} \/ Seeds!HardRails(a, p) = {l, m, n}
    BY DEF Seeds!HardRails, Seeds!evaluateConcentrationCaps, Seeds!marginUtilizationContractsFor
  <2>4. {l, m} = {l, m, m}
    OBVIOUS
  <2> HIDE DEF l, m, n
  <2> QED BY <2>2, <2>3, <2>4
<1> DEFINE S == Seeds!HardRails(a, p) \cup {model}
<1>3. S = {l, m, n, model}
  BY <1>2
<1>4. /\ Seeds!Min(S) \in S /\ S \subseteq Nat
      /\ \A rail \in Seeds!HardRails(a, p) : Seeds!Min(S) <= rail
  <2> HIDE DEF S
  <2>1. l \in Int /\ m \in Int /\ n \in Int /\ model \in Int
    BY <1>1, <1>2
  <2>2. Seeds!Min(S) \in S /\ \A x \in S : Seeds!Min(S) <= x
    BY <1>3, <2>1, LeastFacts
  <2> QED BY <1>1, <1>2, <1>3, <2>2 DEF S
<1>5. quantity \in {Seeds!Min(S), 1}
      /\ (quantity # Seeds!Min(S) => \A rail \in Seeds!HardRails(a, p) : rail >= 1)
  BY DEF Seeds!resolveSeedQuantity
<1> HIDE DEF S
<1> HIDE DEF quantity
<1>6. quantity \in Nat \ {0} /\ \A rail \in Seeds!HardRails(a, p) : quantity <= rail
  <2>1. quantity >= 1
    BY DEF quantity
  <2>2. Seeds!Min(S) \in Nat
    BY <1>4
  <2>3. \A rail \in Seeds!HardRails(a, p) : rail \in Nat
    BY <1>2
  <2> QED BY <1>4, <1>5, <2>1, <2>2, <2>3
<1> QED BY <1>6 DEF quantity

\* An await that only moves the attempt on, with what it brought.
LEMMA MovesOn ==
  ASSUME SeedInv, NEW t \in Attempts, step[t] # "idle", AttemptTypes',
         \A u \in Attempts \ {t} : AttemptStays(u),
         UNCHANGED <<placed, position, book>>,
         step'[t] = "selecting" => pass'[t] # "held",
         pass'[t] = "held" => dte'[t] >= Seeds!HeldFallbackMinDte,
         step'[t] \in Picked /\ account'[t] = "cash" =>
           dte'[t] \in Seeds!FallbackWindow \/ pass'[t] = "held",
         step'[t] \in Priced =>
           /\ price'[t] > 0
           /\ task'[t].maxLimitPrice # Seeds!None => price'[t] <= task'[t].maxLimitPrice,
         step'[t] \in Sized => qty'[t] > 0
  PROVE  SeedInv'
<1>1. AttemptOK(t)'
  BY DEF SeedInv, AttemptOK
<1> QED BY <1>1, AttemptKeeps DEF SeedInv

LEMMA AttemptStep ==
  ASSUME SeedInv, NEW t \in Attempts, Seeds!Seed(t)
  PROVE  SeedInv'
<1> USE DEF Seeds!None
<1>1. CASE Seeds!SeedAsked(t)
  BY <1>1, BeginKeeps DEF Seeds!SeedAsked, Seeds!AccountTypes
<1>2. CASE Seeds!maybeSeedMarginAccountFromCashAccount(t)
  <2>1. /\ position["cash"].value \in Nat /\ position["cash"].qty \in Nat
        /\ position["cash"].qty > 0
    BY <1>2 DEF Seeds!maybeSeedMarginAccountFromCashAccount, Seeds!Exposure, SeedInv,
      PositionOK, Seeds!AccountTypes
  <2>2. Seeds!Fill("cash") \in Int
    BY <2>1, Quotient DEF Seeds!Fill
  <2> QED BY <1>2, <2>2, BeginKeeps DEF Seeds!maybeSeedMarginAccountFromCashAccount,
    Seeds!AccountTypes
<1>3. CASE Seeds!maybeSeedCashAccountFromMarginAccount(t)
  <2>1. position["margin"].dte \in Int
    BY DEF SeedInv, PositionOK, Seeds!AccountTypes
  <2> QED BY <1>3, <2>1, BeginKeeps DEF Seeds!maybeSeedCashAccountFromMarginAccount,
    Seeds!AccountTypes
<1>4. CASE Seeds!ResolvesAccount(t)
  BY <1>4, MovesOn
     DEF Seeds!ResolvesAccount, SeedInv, AttemptTypes, AttemptStays, AttemptOK, Points,
       Seeds!AccountTypes,
         Seeds!brokerVars, Picked, Priced, Sized
<1>5. CASE Seeds!ChecksBench(t)
  <2>1. step[t] = "starting" /\ UNCHANGED <<placed, position, book>>
    BY <1>5 DEF Seeds!ChecksBench, Seeds!brokerVars
  <2>2. CASE benched
    BY <1>5, <2>1, <2>2, SkipKeeps DEF Seeds!ChecksBench
  <2>3. CASE ~benched
    BY <1>5, <2>1, <2>3, MovesOn
       DEF Seeds!ChecksBench, SeedInv, AttemptTypes, AttemptStays, AttemptOK, Points, Picked,
         Priced, Sized
  <2> QED BY <2>2, <2>3
<1>6. CASE Seeds!ChecksPosition(t)
  <2>1. step[t] = "checking" /\ UNCHANGED <<placed, position, book>>
    BY <1>6 DEF Seeds!ChecksPosition, Seeds!brokerVars
  <2>2. CASE Seeds!Exposure(account[t]) > 0
    BY <1>6, <2>1, <2>2, SkipKeeps DEF Seeds!ChecksPosition
  <2>3. CASE ~(Seeds!Exposure(account[t]) > 0)
    BY <1>6, <2>1, <2>3, MovesOn
       DEF Seeds!ChecksPosition, SeedInv, AttemptTypes, AttemptStays, AttemptOK, Points, Picked,
         Priced, Sized
  <2> QED BY <2>2, <2>3
<1>7. CASE Seeds!Selects(t)
  <2>1. PICK first \in Seeds!getTopOptionCandidateForSymbol,
             second \in Seeds!getTopOptionCandidateForSymbol :
          LET candidate == Seeds!FinalCandidate(account[t], first, second)
              skip == Seeds!SelectionSkip(account[t], first, candidate)
          IN  IF skip # "none" THEN Seeds!Skip(t, skip)
              ELSE /\ dte' = [dte EXCEPT ![t] = candidate.dte]
                   /\ step' = [step EXCEPT ![t] = "quoting"]
                   /\ UNCHANGED <<task, pass, account, price, power, qty>>
    BY <1>7 DEF Seeds!Selects
  <2> DEFINE candidate == Seeds!FinalCandidate(account[t], first, second)
             skip == Seeds!SelectionSkip(account[t], first, candidate)
  <2>2. step[t] = "selecting" /\ UNCHANGED <<placed, position, book>>
    BY <1>7 DEF Seeds!Selects, Seeds!brokerVars
  <2>3. CASE skip # "none"
    BY <2>1, <2>2, <2>3, SkipKeeps
  <2>4. CASE skip = "none"
    <3>1. account[t] \in Seeds!AccountTypes
      BY DEF SeedInv, AttemptTypes
    <3>2. candidate.dte \in Int
          /\ (account[t] = "cash" => candidate.dte \in Seeds!FallbackWindow)
      BY <2>4, <3>1, SelectionFacts
    <3>3. /\ dte' = [dte EXCEPT ![t] = candidate.dte] /\ step' = [step EXCEPT ![t] = "quoting"]
          /\ UNCHANGED <<task, pass, account, price, power, qty>>
      BY <2>1, <2>4
    <3>4. pass[t] # "held"
      BY <2>2 DEF SeedInv, AttemptOK
    <3> HIDE DEF candidate
    <3> QED BY <2>2, <3>2, <3>3, <3>4, MovesOn
            DEF SeedInv, AttemptTypes, AttemptStays, Points, Picked, Priced, Sized
  <2> QED BY <2>3, <2>4
<1>8. CASE Seeds!Quotes(t)
  <2>1. PICK p \in Prices \cup {0} :
          IF p = 0 \/ (Seeds!LimitOf(t) # Seeds!None /\ p > Seeds!LimitOf(t)) THEN Seeds!Skip(t,
          "other")
          ELSE /\ price' = [price EXCEPT ![t] = p]
               /\ step' = [step EXCEPT ![t] = "budgeting"]
               /\ UNCHANGED <<task, pass, account, dte, power, qty>>
    BY <1>8 DEF Seeds!Quotes
  <2>2. step[t] = "quoting" /\ UNCHANGED <<placed, position, book>> /\ p \in Nat
    BY <1>8, <2>1, SeedingAssumption DEF Seeds!Quotes, Seeds!brokerVars
  <2>3. CASE p = 0 \/ (Seeds!LimitOf(t) # Seeds!None /\ p > Seeds!LimitOf(t))
    BY <2>1, <2>2, <2>3, SkipKeeps
  <2>4. CASE ~(p = 0 \/ (Seeds!LimitOf(t) # Seeds!None /\ p > Seeds!LimitOf(t)))
    <3>1. /\ price' = [price EXCEPT ![t] = p] /\ step' = [step EXCEPT ![t] = "budgeting"]
          /\ UNCHANGED <<task, pass, account, dte, power, qty>>
      BY <2>1, <2>4
    <3>2. task[t].maxLimitPrice \in Int
      BY DEF SeedInv, AttemptTypes
    <3>3. p > 0 /\ (task[t].maxLimitPrice # Seeds!None => p <= task[t].maxLimitPrice)
      BY <2>2, <2>4, <3>2 DEF Seeds!LimitOf
    <3> QED BY <2>2, <3>1, <3>3, MovesOn
            DEF SeedInv, AttemptTypes, AttemptStays, AttemptOK, Points, Picked, Priced, Sized
  <2> QED BY <2>3, <2>4
<1>9. CASE Seeds!ReadsPower(t)
  BY <1>9, MovesOn
     DEF Seeds!ReadsPower, SeedInv, AttemptTypes, AttemptStays, AttemptOK, Points, Picked,
       Priced, Sized,
         Seeds!brokerVars
<1>10. CASE Seeds!Sizes(t)
  <2>1. PICK model \in Seeds!modelContracts(account[t], price[t]) :
          LET quantity == Seeds!resolveSeedQuantity(model, Seeds!HardRails(account[t],
                          price[t]))
              cost == quantity * price[t]
          IN  \/ quantity < 1 /\ Seeds!Skip(t, "other")
              \/ /\ quantity >= 1 /\ cost > power[t]
                 /\ IF Seeds!CheaperPass(t, cost) THEN Seeds!StartsPass(t, "retry",
                      Seeds!None) ELSE Seeds!Skip(t, "funds")
              \/ /\ quantity >= 1 /\ cost <= power[t]
                 /\ qty' = [qty EXCEPT ![t] = quantity]
                 /\ power' = [power EXCEPT ![t] = 0]
                 /\ step' = [step EXCEPT ![t] = "dry-run"]
                 /\ UNCHANGED <<task, pass, account, dte, price>>
    BY <1>10 DEF Seeds!Sizes
  <2> DEFINE quantity == Seeds!resolveSeedQuantity(model, Seeds!HardRails(account[t], price[t]))
  <2>2. step[t] = "sizing" /\ UNCHANGED <<placed, position, book>>
    BY <1>10 DEF Seeds!Sizes, Seeds!brokerVars
  <2>3. account[t] \in Seeds!AccountTypes /\ price[t] \in Nat \ {0}
    BY <2>2 DEF SeedInv, AttemptTypes, AttemptOK, Priced
  <2>4. quantity >= 1 => quantity \in Nat \ {0}
    BY <2>3, QuantityFacts
  <2> HIDE DEF quantity
  <2>5. CASE \E reason \in {"other", "funds"} : Seeds!Skip(t, reason)
    BY <2>2, <2>5, SkipKeeps
  <2>6. CASE Seeds!StartsPass(t, "retry", Seeds!None)
    <3>1. /\ AttemptTypes' /\ \A u \in Attempts \ {t} : AttemptStays(u)
          /\ step'[t] = "starting" /\ pass'[t] = "retry"
      BY <2>6, StartsPassFacts DEF SeedInv
    <3> QED BY <2>2, <3>1, MovesOn DEF Picked, Priced, Sized
  <2>7. CASE /\ quantity >= 1 /\ qty' = [qty EXCEPT ![t] = quantity]
             /\ step' = [step EXCEPT ![t] = "dry-run"]
             /\ UNCHANGED <<task, pass, account, dte, price>>
    BY <2>2, <2>4, <2>7, MovesOn
       DEF SeedInv, AttemptTypes, AttemptStays, AttemptOK, Points, Picked, Priced, Sized
  <2> QED BY <2>1, <2>5, <2>6, <2>7 DEF quantity
<1>11. CASE Seeds!DryRuns(t)
  <2>1. step[t] = "dry-run" /\ UNCHANGED <<placed, position, book>>
    BY <1>11 DEF Seeds!DryRuns, Seeds!brokerVars
  <2>2. CASE Seeds!Skip(t, "other")
    BY <2>1, <2>2, SkipKeeps
  <2>3. CASE /\ step' = [step EXCEPT ![t] = "placing"]
             /\ UNCHANGED <<task, pass, account, dte, price, power, qty>>
    BY <2>1, <2>3, MovesOn
       DEF SeedInv, AttemptTypes, AttemptStays, AttemptOK, Points, Picked, Priced, Sized
  <2> QED BY <1>11, <2>2, <2>3 DEF Seeds!DryRuns
<1>12. CASE Seeds!OrderSeed(t) \/ Seeds!trySpraySeed(t) \/ Seeds!PlaceThrows(t)
            \/ Seeds!CallThrows(t)
  BY <1>12, EndKeeps DEF Seeds!OrderSeed, Seeds!trySpraySeed, Seeds!PlaceThrows,
    Seeds!CallThrows
<1> QED
  BY <1>1, <1>2, <1>3, <1>4, <1>5, <1>6, <1>7, <1>8, <1>9, <1>10, <1>11, <1>12 DEF Seeds!Seed

\* What the broker does leaves the attempts alone.
LEMMA BrokerKeeps ==
  ASSUME SeedInv, UNCHANGED Seeds!attemptVars, \A o \in book' : OrderOK(o),
         position' \in [Seeds!AccountTypes -> [qty : Nat, value : Nat, dte : Int]],
         \A a \in Seeds!AccountTypes : PositionOK(position'[a])
  PROVE  SeedInv'
<1>1. AttemptTypes' /\ placed' \in [Attempts -> Nat] /\ \A t \in Attempts : AttemptOK(t)'
  BY DEF SeedInv, AttemptTypes, AttemptOK, Seeds!attemptVars
<1> QED BY <1>1 DEF SeedInv

LEMMA FillFacts ==
  ASSUME SeedInv, NEW o \in book
  PROVE  /\ o.account \in Seeds!AccountTypes
         /\ LET p == position[o.account]
                new == [qty |-> p.qty + o.qty, value |-> p.value + Seeds!Cost(o), dte |-> o.dte]
            IN  new \in [qty : Nat, value : Nat, dte : Int] /\ PositionOK(new)
<1>1. o.account \in Seeds!AccountTypes /\ o.qty \in Nat \ {0} /\ o.price \in Nat \ {0}
      /\ o.dte \in Int
  BY DEF SeedInv, OrderOK
<1>2. position[o.account].qty \in Nat /\ position[o.account].value \in Nat
  BY <1>1 DEF SeedInv, PositionOK
<1>3. Seeds!Cost(o) \in Nat
  <2>1. \A m, n \in Nat : m * n \in Nat
    OBVIOUS
  <2> QED BY <1>1, <2>1 DEF Seeds!Cost
<1>4. /\ position[o.account].qty + o.qty \in Nat \ {0}
      /\ position[o.account].value + Seeds!Cost(o) \in Nat
  BY <1>1, <1>2, <1>3
<1> QED BY <1>1, <1>4 DEF PositionOK

LEMMA SeedStep == ASSUME SeedInv, Seeds!Next PROVE SeedInv'
<1>1. ASSUME NEW o \in book, Seeds!OrderFills(o) PROVE SeedInv'
  <2> DEFINE p == position[o.account]
             new == [qty |-> p.qty + o.qty, value |-> p.value + Seeds!Cost(o), dte |-> o.dte]
  <2>1. /\ position' = [position EXCEPT ![o.account] = new] /\ book' = book \ {o}
        /\ UNCHANGED Seeds!attemptVars
    BY <1>1 DEF Seeds!OrderFills
  <2>2. o.account \in Seeds!AccountTypes /\ new \in [qty : Nat, value : Nat, dte : Int]
        /\ PositionOK(new)
    BY FillFacts
  <2> HIDE DEF new
  <2>3. position' \in [Seeds!AccountTypes -> [qty : Nat, value : Nat, dte : Int]]
    BY <2>1, <2>2 DEF SeedInv
  <2>4. \A a \in Seeds!AccountTypes : position'[a] \in {position[a], new}
    BY <2>1, <2>2 DEF SeedInv
  <2>5. \A a \in Seeds!AccountTypes : PositionOK(position'[a])
    BY <2>2, <2>4 DEF SeedInv
  <2> QED BY <2>1, <2>3, <2>5, BrokerKeeps DEF SeedInv
<1>2. ASSUME NEW o \in book, Seeds!OrderDies(o) PROVE SeedInv'
  BY <1>2, BrokerKeeps DEF Seeds!OrderDies, SeedInv
<1>3. ASSUME NEW a \in Seeds!AccountTypes, Seeds!PositionCloses(a) PROVE SeedInv'
  <2>1. /\ position' = [position EXCEPT ![a] = Seeds!NoPosition] /\ book' = book
           /\ UNCHANGED Seeds!attemptVars
    BY <1>3 DEF Seeds!PositionCloses
  <2>2. Seeds!NoPosition \in [qty : Nat, value : Nat, dte : Int] /\ PositionOK(Seeds!NoPosition)
    BY DEF Seeds!NoPosition, PositionOK
  <2>3. /\ position' \in [Seeds!AccountTypes -> [qty : Nat, value : Nat, dte : Int]]
        /\ \A b \in Seeds!AccountTypes : position'[b] \in {position[b], Seeds!NoPosition}
    BY <2>1, <2>2 DEF SeedInv
  <2>4. \A b \in Seeds!AccountTypes : PositionOK(position'[b])
    BY <2>2, <2>3 DEF SeedInv
  <2> QED BY <2>1, <2>3, <2>4, BrokerKeeps DEF SeedInv
<1>4. CASE Seeds!RestrictionChanges \/ Seeds!BenchExpires
  BY <1>4, BrokerKeeps DEF Seeds!RestrictionChanges, Seeds!BenchExpires, Seeds!brokerVars,
    SeedInv
<1> QED BY <1>1, <1>2, <1>3, <1>4, AttemptStep DEF Seeds!Next

LEMMA SeedInvSuffices == SeedInv => Seeds!OneOrderPerAttempt /\ Seeds!SeedIsSuitable
BY DEF SeedInv, AttemptOK, OrderOK, Seeds!OneOrderPerAttempt, Seeds!SeedIsSuitable

LEMMA SeedStutters == ASSUME SeedInv, UNCHANGED seedingVars PROVE SeedInv'
BY BrokerKeeps DEF seedingVars, Seeds!attemptVars, SeedInv


-----------------------------------------------------------------------------
(* Caps, of seeds that are not placed beside one another.                  *)


\* The stake of an account that holds pos and has the orders of bk.
OrdersOf(bk, a) == {o \in bk : o.account = a}
StakeOf(pos, bk, a) == pos[a].value + Seeds!MapThenSumSet(Seeds!Cost, OrdersOf(bk, a))

\* What MapThenSumSet chooses, and what that is over no order or over one.
CostOver(g, S) ==
  g = [s \in SUBSET S |->
         IF s = {} THEN 0
         ELSE (LET x == CHOOSE x \in s : TRUE IN Seeds!Cost(x) + g[s \ {x}])]

LEMMA CostOverOne ==
  ASSUME NEW S, NEW o, S \subseteq {o}, Seeds!Cost(o) \in Nat
  PROVE  Seeds!MapThenSumSet(Seeds!Cost, S) = IF S = {} THEN 0 ELSE Seeds!Cost(o)
<1> DEFINE P(g) == CostOver(g, S)
           h == [s \in SUBSET S |-> IF s = {} THEN 0 ELSE Seeds!Cost(o)]
<1>1. \A s \in SUBSET S : s # {} => (CHOOSE x \in s : TRUE) = o /\ s \ {o} = {}
  OBVIOUS
<1>2. P(h)
  <2>1. \A s \in SUBSET S : s # {} => h[s] = Seeds!Cost(o) + h[s \ {o}]
    BY <1>1
  <2> QED BY <1>1, <2>1 DEF CostOver
<1>3. P(CHOOSE g : P(g))
  <2> HIDE DEF P, h
  <2> QED BY <1>2
<1>4. \A g : P(g) => g[S] = IF S = {} THEN 0 ELSE Seeds!Cost(o)
  <2> SUFFICES ASSUME NEW g, P(g) PROVE g[S] = IF S = {} THEN 0 ELSE Seeds!Cost(o)
    OBVIOUS
  <2>1. g[{}] = 0
    BY DEF CostOver
  <2>2. S # {} => g[S] = Seeds!Cost(o) + g[{}]
    BY <1>1 DEF CostOver
  <2> QED BY <2>1, <2>2
<1>5. (CHOOSE g : P(g))[S] = IF S = {} THEN 0 ELSE Seeds!Cost(o)
  <2> HIDE DEF P
  <2> QED BY <1>3, <1>4
<1> QED BY <1>5 DEF CostOver, Seeds!MapThenSumSet, Seeds!MapThenFoldSet

LEMMA StakeOfNone ==
  ASSUME NEW pos, NEW bk, NEW a, OrdersOf(bk, a) = {}, pos[a].value \in Nat
  PROVE  StakeOf(pos, bk, a) = pos[a].value
<1>1. (CHOOSE g : CostOver(g, {}))[{}] = 0
  <2>1. CostOver([s \in SUBSET {} |-> 0], {})
    BY DEF CostOver
  <2>2. CostOver(CHOOSE g : CostOver(g, {}), {})
    BY <2>1
  <2> QED BY <2>2 DEF CostOver
<1>2. Seeds!MapThenSumSet(Seeds!Cost, {}) = 0
  BY <1>1 DEF CostOver, Seeds!MapThenSumSet, Seeds!MapThenFoldSet
<1> QED BY <1>2 DEF StakeOf

LEMMA StakeOfOne ==
  ASSUME NEW pos, NEW bk, NEW a, NEW o, OrdersOf(bk, a) = {o},
         pos[a].value \in Nat, Seeds!Cost(o) \in Nat
  PROVE  StakeOf(pos, bk, a) = pos[a].value + Seeds!Cost(o)
<1>1. Seeds!MapThenSumSet(Seeds!Cost, {o}) = Seeds!Cost(o)
  BY CostOverOne
<1> QED BY <1>1 DEF StakeOf

TopCap == Seeds!Max({Seeds!CapOf(a, "combined") : a \in Seeds!AccountTypes})

LEMMA TopCapFacts ==
  TopCap \in Nat /\ \A a \in Seeds!AccountTypes : Seeds!CapOf(a, "combined") <= TopCap
<1> DEFINE S == {Seeds!CapOf(a, "combined") : a \in Seeds!AccountTypes}
           x == Seeds!CapOf("cash", "combined")
           y == Seeds!CapOf("margin", "combined")
<1>1. x \in Nat /\ y \in Nat
  BY CapFacts DEF Seeds!AccountTypes
<1>2. S = {x, y}
  BY DEF Seeds!AccountTypes
<1> HIDE DEF x, y
<1>3. \E m \in S : \A n \in S : m >= n
  BY <1>1, <1>2
<1>4. TopCap \in S /\ \A n \in S : TopCap >= n
  BY <1>3 DEF TopCap, Seeds!Max
<1>5. \A a \in Seeds!AccountTypes : Seeds!CapOf(a, "combined") \in S
  OBVIOUS
<1> HIDE DEF S
<1>6. S \subseteq Nat
  BY <1>1, <1>2
<1> QED BY <1>4, <1>5, <1>6

\* An attempt's contract is for an account that holds none; the cost of its
\* order fits under the caps of that account.
Clear == {"selecting"} \cup Picked

Fits(a, cost) ==
  /\ Seeds!Exposure("cash") + Seeds!Exposure("margin") + cost <= Seeds!CapOf(a, "combined")
  /\ a = "margin" => Elsewhere + Seeds!Exposure("margin") + cost <= Seeds!CapOf("margin",
       "margin")

Clears(t) ==
  /\ step[t] \in Clear => Seeds!Exposure(account[t]) = 0
  /\ step[t] \in Sized => Fits(account[t], qty[t] * price[t])

LEMMA ExposureFacts ==
  ASSUME SeedInv
  PROVE  /\ \A a \in Seeds!AccountTypes : Seeds!Exposure(a) \in Nat
         /\ \A o \in book : Seeds!Cost(o) \in Nat /\ o.account \in Seeds!AccountTypes
<1>1. \A m, n \in Nat : m * n \in Nat
  OBVIOUS
<1>2. \A o \in book : o.qty \in Nat /\ o.price \in Nat /\ o.account \in Seeds!AccountTypes
  BY DEF SeedInv, OrderOK
<1> QED BY <1>1, <1>2 DEF SeedInv, PositionOK, Seeds!Exposure, Seeds!Cost

Positions == [Seeds!AccountTypes -> [qty : Nat, value : Nat, dte : Int]]

\* Stakes, where at most one order works.
LEMMA StakeFacts ==
  ASSUME NEW pos \in Positions, NEW bk, \A o, p \in bk : o = p, \A o \in bk :
         Seeds!Cost(o) \in Nat,
         NEW a \in Seeds!AccountTypes
  PROVE  /\ pos[a].value \in Nat
         /\ StakeOf(pos, bk, a) \in Nat /\ pos[a].value <= StakeOf(pos, bk, a)
         /\ \A o \in bk : o.account = a => StakeOf(pos, bk, a) = pos[a].value + Seeds!Cost(o)
         /\ (\A o \in bk : o.account # a) => StakeOf(pos, bk, a) = pos[a].value
<1>1. pos[a].value \in Nat
  BY DEF Positions
<1>2. CASE \A o \in bk : o.account # a
  <2>1. OrdersOf(bk, a) = {}
    BY <1>2 DEF OrdersOf
  <2> QED BY <1>1, <1>2, <2>1, StakeOfNone
<1>3. CASE \E o \in bk : o.account = a
  <2>1. PICK o \in bk : o.account = a
    BY <1>3
  <2>2. OrdersOf(bk, a) = {o} /\ \A p \in bk : p = o
    BY <2>1 DEF OrdersOf
  <2>3. StakeOf(pos, bk, a) = pos[a].value + Seeds!Cost(o)
    <3>1. Seeds!Cost(o) \in Nat
      OBVIOUS
    <3> QED BY <1>1, <2>2, <3>1, StakeOfOne, Zenon
  <2> HIDE DEF Seeds!Cost
  <2> QED BY <1>1, <2>1, <2>2, <2>3
<1> QED BY <1>2, <1>3

\* Smaller stakes are within the caps as well.
WithinCapsAt(cash, margin) ==
  /\ cash + margin <= TopCap
  /\ margin > 0 => Elsewhere + margin <= Seeds!CapOf("margin", "margin")

LEMMA CapsAreDownward ==
  ASSUME NEW x \in Nat, NEW y \in Nat, NEW m \in Nat, NEW n \in Nat,
         WithinCapsAt(x, y), m <= x, n <= y
  PROVE  WithinCapsAt(m, n)
<1>1. /\ TopCap \in Nat /\ Elsewhere \in Nat /\ Seeds!CapOf("margin", "margin") \in Nat
  BY TopCapFacts, CapFacts, SeedingAssumption DEF Seeds!AccountTypes
<1> QED BY <1>1 DEF WithinCapsAt

LEMMA CapsAreTheseCaps ==
  /\ Seeds!WithinCaps <=> WithinCapsAt(StakeOf(position, book, "cash"), StakeOf(position, book,
       "margin"))
  /\ Seeds!WithinCaps' <=> WithinCapsAt(StakeOf(position', book', "cash"), StakeOf(position',
       book', "margin"))
<1>1. /\ \A a : Seeds!Stake(a) = StakeOf(position, book, a)
      /\ \A a : Seeds!Stake(a)' = StakeOf(position', book', a)
  BY Zenon DEF Seeds!Stake, StakeOf, OrdersOf, Seeds!Exposure
<1>2. /\ Seeds!WithinCaps <=> WithinCapsAt(Seeds!Stake("cash"), Seeds!Stake("margin"))
      /\ Seeds!WithinCaps' <=> WithinCapsAt(Seeds!Stake("cash")', Seeds!Stake("margin")')
  BY DEF Seeds!WithinCaps, WithinCapsAt, TopCap
<1> QED BY <1>1, <1>2

\* Stakes that do not grow stay within the caps.
LEMMA StakesKeep ==
  ASSUME Seeds!WithinCaps, SeedInv, SeedInv', \A o, p \in book : o = p, \A o, p \in book' :
         o = p,
         \A a \in Seeds!AccountTypes :
         StakeOf(position', book', a) <= StakeOf(position, book, a)
  PROVE  Seeds!WithinCaps'
<1>1. /\ position \in Positions /\ position' \in Positions
      /\ \A o \in book : OrderOK(o)
      /\ \A o \in book' : OrderOK(o)
  BY DEF SeedInv, Positions, OrderOK, Seeds!AccountTypes, Seeds!FallbackWindow,
    Seeds!HeldFallbackMinDte, Seeds!None
<1>2. \A o : OrderOK(o) => Seeds!Cost(o) \in Nat
  <2>1. \A m, n \in Nat : m * n \in Nat
    OBVIOUS
  <2> QED BY <2>1 DEF OrderOK, Seeds!Cost
<1>3. \A a \in Seeds!AccountTypes :
        StakeOf(position, book, a) \in Nat /\ StakeOf(position', book', a) \in Nat
  BY <1>1, <1>2, StakeFacts
<1>4. "cash" \in Seeds!AccountTypes /\ "margin" \in Seeds!AccountTypes
  BY DEF Seeds!AccountTypes
<1> QED BY <1>3, <1>4, CapsAreTheseCaps, CapsAreDownward

\* The order an attempt places fits.
LEMMA PlacedFits ==
  ASSUME Seeds!WithinCaps, SeedInv, SeedInv', book = {}, NEW a \in Seeds!AccountTypes, NEW o,
         book' = {o},
         o.account = a, Fits(a, Seeds!Cost(o)), position' = position
  PROVE  Seeds!WithinCaps'
<1> DEFINE x == StakeOf(position', book', "cash")
           y == StakeOf(position', book', "margin")
           c == Seeds!Cost(o)
<1>1. position' \in Positions /\ c \in Nat
  <2>1. \A m, n \in Nat : m * n \in Nat
    OBVIOUS
  <2> QED BY <2>1 DEF SeedInv, Positions, OrderOK, Seeds!Cost
<1>2. /\ position["cash"].value \in Nat /\ position["margin"].value \in Nat
      /\ StakeOf(position', book', a) = position[a].value + c
      /\ \A b \in Seeds!AccountTypes \ {a} : StakeOf(position', book', b) = position[b].value
  <2>1. (\A p, q \in book' : p = q) /\ (\A p \in book' : Seeds!Cost(p) \in Nat) /\ o \in book'
    BY <1>1
  <2> HIDE DEF c
  <2>2. \A b \in Seeds!AccountTypes : position'[b].value \in Nat
    BY <1>1, <2>1, StakeFacts
  <2>3. StakeOf(position', book', a) = position'[a].value + Seeds!Cost(o)
    BY <1>1, <2>1, StakeFacts
  <2>4. \A b \in Seeds!AccountTypes \ {a} : StakeOf(position', book', b) = position'[b].value
    BY <1>1, <2>1, StakeFacts
  <2> QED BY <2>2, <2>3, <2>4 DEF Seeds!AccountTypes, c
<1>3. /\ Seeds!CapOf(a, "combined") <= TopCap /\ TopCap \in Nat
         /\ Seeds!CapOf(a, "combined") \in Nat
      /\ Elsewhere \in Nat /\ Seeds!CapOf("margin", "margin") \in Nat
  BY TopCapFacts, CapFacts, SeedingAssumption DEF Seeds!AccountTypes
<1> HIDE DEF x, y, c
<1>4. /\ position["cash"].value + position["margin"].value + c <= Seeds!CapOf(a, "combined")
      /\ a = "margin" => Elsewhere + position["margin"].value + c <= Seeds!CapOf("margin",
           "margin")
  BY DEF Fits, Seeds!Exposure, c
<1>5. position["margin"].value > 0 =>
        Elsewhere + position["margin"].value <= Seeds!CapOf("margin", "margin")
  <2>1. position \in Positions /\ "margin" \in Seeds!AccountTypes
    BY DEF SeedInv, Positions, Seeds!AccountTypes
  <2>2. StakeOf(position, book, "margin") = position["margin"].value
    BY <2>1, StakeFacts
  <2> QED BY <2>2, CapsAreTheseCaps DEF WithinCapsAt
<1>6. ASSUME a = "cash" PROVE WithinCapsAt(x, y)
  <2>1. x = position["cash"].value + c /\ y = position["margin"].value
    BY <1>2, <1>6 DEF x, y, Seeds!AccountTypes
  <2> QED BY <1>1, <1>2, <1>3, <1>4, <1>5, <1>6, <2>1 DEF WithinCapsAt
<1>7. ASSUME a = "margin" PROVE WithinCapsAt(x, y)
  <2>1. x = position["cash"].value /\ y = position["margin"].value + c
    BY <1>2, <1>7 DEF x, y, Seeds!AccountTypes
  <2> QED BY <1>1, <1>2, <1>3, <1>4, <1>7, <2>1 DEF WithinCapsAt
<1>8. WithinCapsAt(x, y)
  BY <1>6, <1>7 DEF Seeds!AccountTypes
<1> QED BY <1>8, CapsAreTheseCaps DEF x, y

LEMMA AttemptFrame ==
  ASSUME SeedInv, NEW t \in Attempts, Seeds!Seed(t)
  PROVE  \A u \in Attempts \ {t} : AttemptStays(u)
<1>1. ASSUME NEW reason, Seeds!Skip(t, reason) PROVE \A u \in Attempts \ {t} : AttemptStays(u)
  BY <1>1, SkipFacts DEF SeedInv
<1>2. ASSUME Seeds!Idle(t) PROVE \A u \in Attempts \ {t} : AttemptStays(u)
  BY <1>2, IdleFacts DEF SeedInv
<1>3. ASSUME Seeds!StartsPass(t, "retry", Seeds!None)
             PROVE \A u \in Attempts \ {t} : AttemptStays(u)
  BY <1>3, StartsPassFacts DEF SeedInv, Seeds!None
<1>4. CASE Seeds!SeedAsked(t) \/ Seeds!maybeSeedMarginAccountFromCashAccount(t)
             \/ Seeds!maybeSeedCashAccountFromMarginAccount(t)
  BY <1>4 DEF Seeds!SeedAsked, Seeds!maybeSeedMarginAccountFromCashAccount,
              Seeds!maybeSeedCashAccountFromMarginAccount, Seeds!BeginSeed, SeedInv,
              AttemptTypes, AttemptStays
<1>5. CASE Seeds!ResolvesAccount(t) \/ Seeds!ReadsPower(t)
  BY <1>5 DEF Seeds!ResolvesAccount, Seeds!ReadsPower, SeedInv, AttemptTypes, AttemptStays
<1>6. CASE Seeds!ChecksBench(t) \/ Seeds!ChecksPosition(t) \/ Seeds!DryRuns(t)
  BY <1>1, <1>6 DEF Seeds!ChecksBench, Seeds!ChecksPosition, Seeds!DryRuns, SeedInv,
    AttemptTypes, AttemptStays
<1>7. CASE Seeds!Selects(t)
  BY <1>1, <1>7 DEF Seeds!Selects, SeedInv, AttemptTypes, AttemptStays
<1>8. CASE Seeds!Quotes(t)
  BY <1>1, <1>8 DEF Seeds!Quotes, SeedInv, AttemptTypes, AttemptStays
<1>9. CASE Seeds!Sizes(t)
  BY <1>1, <1>3, <1>9 DEF Seeds!Sizes, SeedInv, AttemptTypes, AttemptStays
<1>10. CASE Seeds!OrderSeed(t) \/ Seeds!trySpraySeed(t) \/ Seeds!PlaceThrows(t)
            \/ Seeds!CallThrows(t)
  BY <1>2, <1>10 DEF Seeds!OrderSeed, Seeds!trySpraySeed, Seeds!PlaceThrows, Seeds!CallThrows
<1> QED BY <1>4, <1>5, <1>6, <1>7, <1>8, <1>9, <1>10 DEF Seeds!Seed

\* The rails the quantity is under are those of the caps.
LEMMA SizedFits ==
  ASSUME SeedInv, NEW a \in Seeds!AccountTypes, NEW p \in Nat \ {0},
         NEW model \in Seeds!modelContracts(a, p),
         Seeds!resolveSeedQuantity(model, Seeds!HardRails(a, p)) >= 1
  PROVE  Fits(a, Seeds!resolveSeedQuantity(model, Seeds!HardRails(a, p)) * p)
<1> DEFINE q == Seeds!resolveSeedQuantity(model, Seeds!HardRails(a, p))
           room == Seeds!CapOf(a,
                   "combined") - Seeds!Exposure(a) - Seeds!Exposure(Seeds!Other(a))
           slack == Seeds!CapOf(a, "margin") - Elsewhere - Seeds!Exposure(a)
<1>1. q \in Nat \ {0} /\ \A rail \in Seeds!HardRails(a, p) : q <= rail
  BY QuantityFacts
<1>2. /\ Seeds!Exposure("cash") \in Nat /\ Seeds!Exposure("margin") \in Nat /\ Elsewhere \in Nat
      /\ Seeds!CapOf(a, "combined") \in Nat /\ Seeds!CapOf(a, "margin") \in Nat
  BY CapFacts, SeedingAssumption DEF SeedInv, PositionOK, Seeds!Exposure, Seeds!AccountTypes
<1>3. /\ room = Seeds!CapOf(a, "combined") - Seeds!Exposure("cash") - Seeds!Exposure("margin")
      /\ room \in Int /\ slack \in Int
  BY <1>2 DEF Seeds!Other, Seeds!AccountTypes
<1>4. Seeds!Contracts(room, p) \in Seeds!HardRails(a, p)
  BY DEF Seeds!HardRails, Seeds!evaluateConcentrationCaps
<1>5. a = "margin" => Seeds!Contracts(slack, p) \in Seeds!HardRails(a, p)
  BY DEF Seeds!HardRails, Seeds!marginUtilizationContractsFor
<1> HIDE DEF q, room, slack
<1>6. ASSUME NEW headroom \in Int, q <= Seeds!Contracts(headroom, p) PROVE q * p <= headroom
  <2>1. Seeds!Contracts(headroom, p) \in Nat /\ Seeds!Contracts(headroom, p) >= 1
    BY <1>1, <1>6, ContractFacts
  <2>2. Seeds!Contracts(headroom, p) * p <= headroom
    BY <2>1, ContractFacts
  <2>3. \A m, n, k \in Nat : m <= n => m * k <= n * k
    OBVIOUS
  <2>4. q * p <= Seeds!Contracts(headroom, p) * p
    BY <1>1, <1>6, <2>1, <2>3
  <2>5. \A m, n \in Nat : m * n \in Nat
    OBVIOUS
  <2> QED BY <1>1, <2>1, <2>2, <2>4, <2>5
<1>7. q * p <= room /\ (a = "margin" => q * p <= slack)
  BY <1>1, <1>3, <1>4, <1>5, <1>6
<1>8. q * p \in Nat
  <2>1. \A m, n \in Nat : m * n \in Nat
    OBVIOUS
  <2> QED BY <1>1, <2>1
<1>9. /\ Seeds!Exposure("cash") + Seeds!Exposure("margin") + q * p <= Seeds!CapOf(a, "combined")
      /\ a = "margin" => Elsewhere + Seeds!Exposure("margin") + q * p <= Seeds!CapOf("margin",
           "margin")
  BY <1>2, <1>3, <1>7, <1>8 DEF slack
<1> QED BY <1>9 DEF Fits, q

LEMMA AttemptClears ==
  ASSUME SeedInv, NEW t \in Attempts, Clears(t), step[t] # "idle", Seeds!Seed(t),
         position' = position
  PROVE  Clears(t)'
<1>1. ASSUME step'[t] \notin Clear PROVE Clears(t)'
  BY <1>1 DEF Clears, Clear, Picked, Sized
<1>2. ASSUME NEW reason, Seeds!Skip(t, reason) PROVE Clears(t)'
  <2>1. step'[t] \in {"idle", "starting"}
    BY <1>2, SkipFacts DEF SeedInv
  <2> QED BY <1>1, <2>1 DEF Clear, Picked
<1>3. ASSUME Seeds!Idle(t) PROVE Clears(t)'
  <2>1. step'[t] = "idle"
    BY <1>3, IdleFacts DEF SeedInv
  <2> QED BY <1>1, <2>1 DEF Clear, Picked
<1>4. ASSUME Seeds!StartsPass(t, "retry", Seeds!None) PROVE Clears(t)'
  <2>1. step'[t] = "starting"
    BY <1>4, StartsPassFacts DEF SeedInv, Seeds!None
  <2> QED BY <1>1, <2>1 DEF Clear, Picked
<1>5. ASSUME step[t] \in Clear, step'[t] \notin Sized \/ step[t] \in Sized,
             UNCHANGED <<account, price, qty>>
      PROVE  Clears(t)'
  BY <1>5 DEF Clears, Fits, Seeds!Exposure
<1>6. CASE Seeds!ResolvesAccount(t) \/ Seeds!ChecksBench(t)
  <2>1. CASE \E reason : Seeds!Skip(t, reason)
    BY <1>2, <2>1
  <2>2. CASE step'[t] \in {"starting", "checking"}
    BY <1>1, <2>2 DEF Clear, Picked
  <2> QED BY <1>6, <2>1, <2>2 DEF Seeds!ResolvesAccount, Seeds!ChecksBench, SeedInv,
    AttemptTypes
<1>7. CASE Seeds!ChecksPosition(t)
  <2>1. CASE Seeds!Exposure(account[t]) > 0
    BY <1>2, <1>7, <2>1 DEF Seeds!ChecksPosition
  <2>2. CASE ~(Seeds!Exposure(account[t]) > 0)
    <3>1. Seeds!Exposure(account[t]) \in Nat
      BY DEF SeedInv, AttemptTypes, PositionOK, Seeds!Exposure
    <3>2. Seeds!Exposure(account[t]) = 0
      BY <2>2, <3>1
    <3>3. account' = account /\ step'[t] \in {"quoting", "selecting"}
      BY <1>7, <2>2 DEF Seeds!ChecksPosition, SeedInv, AttemptTypes
    <3> QED BY <3>2, <3>3 DEF Clears, Seeds!Exposure, Sized
  <2> QED BY <2>1, <2>2
<1>8. CASE Seeds!Selects(t)
  <2>1. CASE \E reason : Seeds!Skip(t, reason)
    BY <1>2, <2>1
  <2>2. CASE step' = [step EXCEPT ![t] = "quoting"] /\ UNCHANGED <<account, price, qty>>
    BY <1>5, <1>8, <2>2 DEF Seeds!Selects, SeedInv, AttemptTypes, Clear, Sized
  <2> QED BY <1>8, <2>1, <2>2 DEF Seeds!Selects
<1>9. CASE Seeds!Quotes(t)
  <2>1. CASE \E reason : Seeds!Skip(t, reason)
    BY <1>2, <2>1
  <2>2. CASE step' = [step EXCEPT ![t] = "budgeting"] /\ UNCHANGED <<account, qty>>
    BY <1>9, <2>2 DEF Seeds!Quotes, SeedInv, AttemptTypes, Clear, Picked, Sized, Clears,
      Seeds!Exposure
  <2> QED BY <1>9, <2>1, <2>2 DEF Seeds!Quotes
<1>10. CASE Seeds!ReadsPower(t)
  BY <1>5, <1>10 DEF Seeds!ReadsPower, SeedInv, AttemptTypes, Clear, Picked, Sized
<1>11. CASE Seeds!Sizes(t)
  <2>1. CASE \E reason : Seeds!Skip(t, reason)
    BY <1>2, <2>1
  <2>2. CASE \E model \in Seeds!modelContracts(account[t], price[t]) :
               LET quantity == Seeds!resolveSeedQuantity(model, Seeds!HardRails(account[t],
                               price[t]))
               IN  /\ quantity >= 1 /\ qty' = [qty EXCEPT ![t] = quantity]
                   /\ step' = [step EXCEPT ![t] = "dry-run"] /\ UNCHANGED <<account, price>>
    <3>1. PICK model \in Seeds!modelContracts(account[t], price[t]) :
            LET quantity == Seeds!resolveSeedQuantity(model, Seeds!HardRails(account[t],
                            price[t]))
            IN  /\ quantity >= 1 /\ qty' = [qty EXCEPT ![t] = quantity]
                /\ step' = [step EXCEPT ![t] = "dry-run"] /\ UNCHANGED <<account, price>>
      BY <2>2
    <3> DEFINE quantity == Seeds!resolveSeedQuantity(model, Seeds!HardRails(account[t],
        price[t]))
    <3>2. step[t] = "sizing"
      BY <1>11 DEF Seeds!Sizes
    <3>3. account[t] \in Seeds!AccountTypes /\ price[t] \in Nat \ {0}
      BY <3>2 DEF SeedInv, AttemptTypes, AttemptOK, Priced
    <3>4. Fits(account[t], quantity * price[t])
      BY <3>1, <3>3, SizedFits
    <3> HIDE DEF quantity
    <3>5. qty'[t] = quantity /\ price'[t] = price[t] /\ account'[t] = account[t]
      BY <3>1 DEF SeedInv, AttemptTypes, quantity
    <3> QED BY <3>2, <3>4, <3>5 DEF Clears, Clear, Picked, Fits, Seeds!Exposure
  <2> QED BY <1>4, <1>11, <2>1, <2>2 DEF Seeds!Sizes
<1>12. CASE Seeds!DryRuns(t)
  <2>1. CASE \E reason : Seeds!Skip(t, reason)
    BY <1>2, <2>1
  <2>2. CASE step' = [step EXCEPT ![t] = "placing"] /\ UNCHANGED <<account, price, qty>>
    BY <1>5, <1>12, <2>2 DEF Seeds!DryRuns, SeedInv, AttemptTypes, Clear, Picked, Sized
  <2> QED BY <1>12, <2>1, <2>2 DEF Seeds!DryRuns
<1>13. CASE Seeds!OrderSeed(t) \/ Seeds!trySpraySeed(t) \/ Seeds!PlaceThrows(t)
            \/ Seeds!CallThrows(t)
  BY <1>3, <1>13 DEF Seeds!OrderSeed, Seeds!trySpraySeed, Seeds!PlaceThrows, Seeds!CallThrows
<1>14. ~(Seeds!SeedAsked(t) \/ Seeds!maybeSeedMarginAccountFromCashAccount(t)
           \/ Seeds!maybeSeedCashAccountFromMarginAccount(t))
  BY DEF Seeds!SeedAsked, Seeds!maybeSeedMarginAccountFromCashAccount,
    Seeds!maybeSeedCashAccountFromMarginAccount,
         Seeds!BeginSeed
<1> QED
  BY <1>6, <1>7, <1>8, <1>9, <1>10, <1>11, <1>12, <1>13, <1>14 DEF Seeds!Seed

\* Attempts and orders one at a time, each within the caps.
AloneInv ==
  /\ SeedInv /\ Seeds!WithinCaps
  /\ \A t, u \in Attempts : step[t] # "idle" /\ step[u] # "idle" => t = u
  /\ \A t \in Attempts : step[t] # "idle" => book = {}
  /\ \A o, p \in book : o = p
  /\ \A t \in Attempts : Clears(t)

LEMMA AloneInit == Seeds!Init => AloneInv
<1> SUFFICES ASSUME Seeds!Init PROVE AloneInv
  OBVIOUS
<1>1. SeedInv /\ book = {} /\ \A t \in Attempts : step[t] = "idle"
  BY SeedInit DEF Seeds!Init
<1>2. position \in Positions /\ \A a \in Seeds!AccountTypes : position[a].value = 0
  BY <1>1 DEF SeedInv, Positions, Seeds!Init, Seeds!NoPosition
<1>3. \A a \in Seeds!AccountTypes : StakeOf(position, book, a) = 0
  BY <1>1, <1>2, StakeFacts
<1>4. Seeds!WithinCaps
  BY <1>3, TopCapFacts, CapsAreTheseCaps DEF WithinCapsAt, Seeds!AccountTypes
<1> QED BY <1>1, <1>4 DEF AloneInv, Clears, Clear, Picked, Sized

\* The caps look at positions and the book alone.
LEMMA CapsStay == ASSUME Seeds!WithinCaps, UNCHANGED <<position, book>> PROVE Seeds!WithinCaps'
BY CapsAreTheseCaps

LEMMA AloneAttempt ==
  ASSUME AloneInv, SeedInv', Settled, NEW t \in Attempts, Seeds!Seed(t)
  PROVE  AloneInv'
<1>0. SeedInv
  BY DEF AloneInv
<1>1. \A u \in Attempts \ {t} : AttemptStays(u)
  BY <1>0, AttemptFrame
<1>2. CASE step[t] = "idle"
  <2>1. /\ step' = [step EXCEPT ![t] = step'[t]] /\ step'[t] \in {"starting", "resolving"}
        /\ UNCHANGED <<position, book>>
    BY <1>0, <1>2
       DEF Seeds!Seed, Seeds!SeedAsked, Seeds!maybeSeedMarginAccountFromCashAccount,
         Seeds!brokerVars, SeedInv, AttemptTypes,
           Seeds!maybeSeedCashAccountFromMarginAccount, Seeds!BeginSeed, Seeds!ResolvesAccount,
           Seeds!ChecksBench,
           Seeds!ChecksPosition, Seeds!Selects, Seeds!Quotes, Seeds!ReadsPower, Seeds!Sizes,
           Seeds!DryRuns, Seeds!OrderSeed, Seeds!trySpraySeed,
           Seeds!PlaceThrows, Seeds!CallThrows
  <2>2. book = {} /\ \A u \in Attempts : step[u] = "idle"
    BY <1>2, <2>1 DEF Settled
  <2>3. \A u \in Attempts : step'[u] \notin Clear
    BY <1>1, <2>1, <2>2 DEF AttemptStays, Clear, Picked
  <2>4. \A u \in Attempts : Clears(u)'
    BY <2>3 DEF Clears, Clear, Picked, Sized
  <2>5. Seeds!WithinCaps'
    BY <2>1, CapsStay DEF AloneInv
  <2> QED BY <1>1, <2>1, <2>2, <2>4, <2>5 DEF AloneInv, AttemptStays
<1>3. CASE step[t] # "idle"
  <2>1. book = {} /\ \A u \in Attempts \ {t} : step[u] = "idle"
    BY <1>3 DEF AloneInv
  <2>2. position' = position
    <3>1. CASE step[t] = "placing"
      BY <3>1 DEF Seeds!Seed, Seeds!SeedAsked, Seeds!maybeSeedMarginAccountFromCashAccount,
        Seeds!BeginSeed, Seeds!brokerVars,
                  Seeds!maybeSeedCashAccountFromMarginAccount, Seeds!ResolvesAccount,
                  Seeds!ChecksBench,
                  Seeds!ChecksPosition, Seeds!Selects, Seeds!Quotes, Seeds!ReadsPower,
                  Seeds!Sizes, Seeds!DryRuns, Seeds!OrderSeed,
                  Seeds!trySpraySeed, Seeds!PlaceThrows, Seeds!CallThrows, Seeds!BrokerTakes
    <3> QED BY <1>3 DEF Settled
  <2>3. Clears(t)'
    BY <1>0, <1>3, <2>2, AttemptClears DEF AloneInv
  <2>4. \A u \in Attempts \ {t} : Clears(u)'
    BY <1>1, <2>1 DEF AttemptStays, Clears, Clear, Picked, Sized
  <2>5. \A u \in Attempts \ {t} : step'[u] = "idle"
    BY <1>1, <2>1 DEF AttemptStays
  <2>6. CASE book' = book
    BY <2>1, <2>2, <2>3, <2>4, <2>5, <2>6, CapsStay DEF AloneInv
  <2>7. CASE step[t] = "placing" /\ Seeds!BrokerTakes(t) /\ Seeds!Idle(t)
    <3> DEFINE o == Seeds!Taken(t)
    <3>1. book' = {o} /\ step'[t] = "idle"
      BY <1>0, <2>1, <2>7, IdleFacts DEF Seeds!BrokerTakes, SeedInv
    <3>2. o.account = account[t] /\ Seeds!Cost(o) = qty[t] * price[t]
          /\ account[t] \in Seeds!AccountTypes
      BY <1>0 DEF Seeds!Taken, Seeds!Cost, SeedInv, AttemptTypes
    <3>3. Fits(account[t], Seeds!Cost(o))
      BY <2>7, <3>2 DEF AloneInv, Clears, Sized
    <3> HIDE DEF o
    <3>4. Seeds!WithinCaps'
      BY <1>0, <2>1, <2>2, <3>1, <3>2, <3>3, PlacedFits DEF AloneInv
    <3> QED BY <2>3, <2>4, <2>5, <3>1, <3>4 DEF AloneInv
  <2> QED
    BY <1>3, <2>6, <2>7
       DEF Seeds!Seed, Seeds!SeedAsked, Seeds!maybeSeedMarginAccountFromCashAccount,
         Seeds!BeginSeed, Seeds!brokerVars,
           Seeds!maybeSeedCashAccountFromMarginAccount, Seeds!ResolvesAccount,
           Seeds!ChecksBench, Seeds!ChecksPosition,
           Seeds!Selects, Seeds!Quotes, Seeds!ReadsPower, Seeds!Sizes, Seeds!DryRuns,
           Seeds!OrderSeed, Seeds!trySpraySeed, Seeds!PlaceThrows,
           Seeds!CallThrows
<1> QED BY <1>2, <1>3

\* An order that fills or dies, or a position that closes between attempts,
\* leaves no greater stake.
LEMMA AloneBroker ==
  ASSUME AloneInv, SeedInv', UNCHANGED Seeds!attemptVars, \A t \in Attempts : step[t] = "idle",
         \A o, p \in book' : o = p,
         \A a \in Seeds!AccountTypes :
         StakeOf(position', book', a) <= StakeOf(position, book, a)
  PROVE  AloneInv'
<1>1. Seeds!WithinCaps'
  BY StakesKeep DEF AloneInv
<1>2. \A t \in Attempts : Clears(t)'
  BY DEF Seeds!attemptVars, Clears, Clear, Picked, Sized
<1> QED BY <1>1, <1>2 DEF AloneInv, Seeds!attemptVars

LEMMA AloneStep == ASSUME AloneInv, Seeds!Next, Settled PROVE AloneInv'
<1>1. SeedInv /\ SeedInv'
  BY SeedStep DEF AloneInv
<1>2. ASSUME NEW t \in Attempts, Seeds!Seed(t) PROVE AloneInv'
  BY <1>1, <1>2, AloneAttempt
<1>3. /\ position \in Positions /\ position' \in Positions
      /\ \A o \in book : Seeds!Cost(o) \in Nat /\ o.account \in Seeds!AccountTypes
  BY <1>1, ExposureFacts DEF SeedInv, Positions
<1>4. ASSUME NEW o \in book, Seeds!OrderFills(o) \/ Seeds!OrderDies(o) PROVE AloneInv'
  <2>1. book = {o} /\ book' = {} /\ UNCHANGED Seeds!attemptVars
    BY <1>4 DEF AloneInv, Seeds!OrderFills, Seeds!OrderDies
  <2>2. \A t \in Attempts : step[t] = "idle"
    BY <2>1 DEF AloneInv
  <2>3. /\ o.account \in Seeds!AccountTypes /\ Seeds!Cost(o) \in Nat
        /\ \A a \in Seeds!AccountTypes : position[a].value \in Nat /\ position'[a].value \in Nat
    BY <1>3 DEF Positions
  <2>4. \A a \in Seeds!AccountTypes : StakeOf(position', book', a) = position'[a].value
    BY <1>3, <2>1, StakeFacts
  <2>5. \A a \in Seeds!AccountTypes : StakeOf(position, book, a) =
          IF a = o.account THEN position[a].value + Seeds!Cost(o) ELSE position[a].value
    BY <1>3, <2>1, StakeFacts
  <2>6. \A a \in Seeds!AccountTypes :
          position'[a].value \in {position[a].value,
                                  IF a = o.account THEN position[a].value + Seeds!Cost(o)
                                  ELSE position[a].value}
    BY <1>1, <1>4, <2>3 DEF Seeds!OrderFills, Seeds!OrderDies, SeedInv
  <2>7. \A a \in Seeds!AccountTypes : StakeOf(position', book', a) <= StakeOf(position, book, a)
    <3> HIDE DEF Seeds!Cost
    <3> QED BY <2>3, <2>4, <2>5, <2>6
  <2> QED BY <1>1, <2>1, <2>2, <2>7, AloneBroker
<1>5. ASSUME NEW a \in Seeds!AccountTypes, Seeds!PositionCloses(a) PROVE AloneInv'
  <2>1. /\ position' = [position EXCEPT ![a] = Seeds!NoPosition] /\ book' = book
        /\ UNCHANGED Seeds!attemptVars /\ Seeds!Exposure(a) > 0
    BY <1>5 DEF Seeds!PositionCloses
  <2>2. position' # position
    BY <1>3, <2>1 DEF Positions, Seeds!Exposure, Seeds!NoPosition
  <2>3. \A t \in Attempts : step[t] = "idle"
    BY <2>2 DEF Settled
  <2>4. \A b \in Seeds!AccountTypes : position'[b].value \in Nat /\ position[b].value \in Nat
                                /\ position'[b].value <= position[b].value
    BY <1>3, <2>1 DEF Positions, Seeds!NoPosition
  <2>5. ASSUME NEW b \in Seeds!AccountTypes
        PROVE  StakeOf(position', book', b) <= StakeOf(position, book, b)
    <3>1. CASE \A o \in book : o.account # b
      <4>1. StakeOf(position', book', b) = position'[b].value
        BY ZenonT(30), <1>3, <2>1, <3>1, StakeFacts DEF AloneInv
      <4>2. StakeOf(position, book, b) = position[b].value
        BY <1>3, <3>1, StakeFacts DEF AloneInv
      <4> QED BY <2>4, <4>1, <4>2
    <3>2. CASE \E o \in book : o.account = b
      <4>1. PICK o \in book : o.account = b
        BY <3>2
      <4>4. Seeds!Cost(o) \in Nat /\ \A p \in book : o = p
        BY <1>3, <4>1 DEF AloneInv
      <4> HIDE DEF Seeds!Cost
      <4>6. position \in Positions /\ position' \in Positions
        BY <1>3
      <4>7. \A p, q \in book : p = q
        BY <4>4
      <4>8. \A p \in book : Seeds!Cost(p) \in Nat
        BY <4>4, <4>7
      <4>3. StakeOf(position, book, b) = position[b].value + Seeds!Cost(o)
        BY <4>1, <4>6, <4>7, <4>8, StakeFacts
      <4>2. StakeOf(position', book, b) = position'[b].value + Seeds!Cost(o)
        BY <4>1, <4>6, <4>7, <4>8, StakeFacts
      <4>9. StakeOf(position', book', b) = position'[b].value + Seeds!Cost(o)
        BY <2>1, <4>2
      <4> QED BY <2>4, <4>9, <4>3, <4>4
    <3> QED BY <3>1, <3>2
  <2>6. \A o, p \in book' : o = p
    BY <2>1 DEF AloneInv
  <2> QED BY <1>1, <2>1, <2>3, <2>5, <2>6, AloneBroker
<1>6. CASE Seeds!RestrictionChanges \/ Seeds!BenchExpires
  <2>1. UNCHANGED Seeds!attemptVars /\ position' = position /\ book' = book
    BY <1>6 DEF Seeds!RestrictionChanges, Seeds!BenchExpires, Seeds!brokerVars
  <2>2. Seeds!WithinCaps'
    BY <2>1, CapsStay DEF AloneInv
  <2>3. \A t \in Attempts : Clears(t)'
    BY <2>1 DEF AloneInv, Seeds!attemptVars, Clears, Fits, Seeds!Exposure
  <2> QED BY <1>1, <2>1, <2>2, <2>3 DEF AloneInv, Seeds!attemptVars
<1> QED BY <1>2, <1>4, <1>5, <1>6 DEF Seeds!Next

LEMMA AloneStutters == ASSUME AloneInv, UNCHANGED seedingVars PROVE AloneInv'
<1>1. SeedInv'
  BY SeedStutters DEF AloneInv
<1>2. Seeds!WithinCaps'
  BY CapsStay DEF AloneInv, seedingVars
<1>3. \A t \in Attempts : Clears(t)'
  BY DEF AloneInv, seedingVars, Clears, Fits, Seeds!Exposure
<1> QED BY <1>1, <1>2, <1>3 DEF AloneInv, seedingVars

-----------------------------------------------------------------------------
(* The worlds of Seeding.                                                  *)

\* Less on offer is still on offer.
LEMMA RacingIsSeeding == Racing!Next => Seeds!Next
<1>1. ASSUME NEW t, Racing!SeedAsked(t) \/ Racing!maybeSeedMarginAccountFromCashAccount(t)
                   \/ Racing!maybeSeedCashAccountFromMarginAccount(t)
      PROVE Seeds!SeedAsked(t) \/ Seeds!maybeSeedMarginAccountFromCashAccount(t)
                   \/ Seeds!maybeSeedCashAccountFromMarginAccount(t)
  BY <1>1 DEF Racing!SeedAsked, Racing!maybeSeedMarginAccountFromCashAccount,
     Racing!maybeSeedCashAccountFromMarginAccount, Racing!BeginSeed,
     Seeds!SeedAsked, Seeds!maybeSeedMarginAccountFromCashAccount,
     Seeds!maybeSeedCashAccountFromMarginAccount, Seeds!BeginSeed,
     Racing!AccountTypes, Seeds!AccountTypes, Racing!None, Seeds!None, Racing!Exposure,
     Seeds!Exposure,
     Racing!Fill, Seeds!Fill, Racing!brokerVars, Seeds!brokerVars
<1>2. ASSUME NEW t, Racing!ResolvesAccount(t) PROVE Seeds!ResolvesAccount(t)
  BY <1>2 DEF Racing!ResolvesAccount, Racing!Exposure, Racing!brokerVars, Seeds!ResolvesAccount,
    Seeds!Exposure, Seeds!brokerVars
<1>3. ASSUME NEW t PROVE Racing!Idle(t) <=> Seeds!Idle(t)
  BY DEF Racing!Idle, Seeds!Idle, Racing!NoTask, Seeds!NoTask, Racing!None, Seeds!None
<1>4. ASSUME NEW t, NEW n, NEW d PROVE Racing!StartsPass(t, n, d) <=> Seeds!StartsPass(t, n, d)
  BY DEF Racing!StartsPass, Seeds!StartsPass
<1>5. ASSUME NEW t, NEW r PROVE Racing!Skip(t, r) <=> Seeds!Skip(t, r)
  BY <1>3, <1>4 DEF Racing!Skip, Seeds!Skip, Racing!None, Seeds!None, Racing!OpensHeldFallback,
    Seeds!OpensHeldFallback,
   Racing!HeldFallbackMinDte, Seeds!HeldFallbackMinDte
<1>6. ASSUME NEW t, Racing!ChecksBench(t) \/ Racing!ChecksPosition(t)
             PROVE Seeds!ChecksBench(t) \/ Seeds!ChecksPosition(t)
  BY <1>5, <1>6 DEF Racing!ChecksBench, Racing!ChecksPosition, Seeds!ChecksBench,
    Seeds!ChecksPosition, Racing!brokerVars, Seeds!brokerVars, Racing!Exposure, Seeds!Exposure
<1>7. ASSUME NEW t, Racing!Selects(t) PROVE Seeds!Selects(t)
  <2>1. Racing!getTopOptionCandidateForSymbol \subseteq Seeds!getTopOptionCandidateForSymbol
    BY SeedingAssumption DEF Racing!getTopOptionCandidateForSymbol,
      Seeds!getTopOptionCandidateForSymbol, Racing!EmptyAnswers, Seeds!EmptyAnswers,
      Racing!ContractAnswers, Seeds!ContractAnswers, Racing!Candidate, Seeds!Candidate,
      Racing!None, Seeds!None
  <2>2. ASSUME NEW a, NEW x, NEW y
               PROVE Racing!FinalCandidate(a, x, y) = Seeds!FinalCandidate(a, x, y)
    BY DEF Racing!FinalCandidate, Seeds!FinalCandidate, Racing!shouldRetrySeedWithItm,
      Racing!shouldRetryCashSeedWithFallbackDteWindow, Seeds!shouldRetrySeedWithItm,
      Seeds!shouldRetryCashSeedWithFallbackDteWindow, Racing!FallbackWindow,
      Seeds!FallbackWindow, Racing!CashWindow, Seeds!CashWindow
  <2>3. ASSUME NEW a, NEW x, NEW y
               PROVE Racing!SelectionSkip(a, x, y) = Seeds!SelectionSkip(a, x, y)
    BY DEF Racing!SelectionSkip, Seeds!SelectionSkip, Racing!UsedCashFallback,
      Seeds!UsedCashFallback, Racing!FallbackWindow, Seeds!FallbackWindow, Racing!CashWindow,
      Seeds!CashWindow
  <2> QED BY <1>5, <1>7, <2>1, <2>2, <2>3
    DEF Racing!Selects, Seeds!Selects, Racing!brokerVars, Seeds!brokerVars
<1>8. ASSUME NEW t, Racing!Quotes(t) PROVE Seeds!Quotes(t)
  <2>1. RacePrices \subseteq Prices
    BY SeedingAssumption
  <2> QED BY <1>5, <1>8, <2>1 DEF Racing!Quotes, Seeds!Quotes, Racing!LimitOf, Seeds!LimitOf,
    Racing!None, Seeds!None, Racing!brokerVars, Seeds!brokerVars
<1>9. ASSUME NEW t, Racing!ReadsPower(t) PROVE Seeds!ReadsPower(t)
  BY <1>9 DEF Racing!ReadsPower, Seeds!ReadsPower, Racing!getEffectiveBuyingPowerSummary,
    Seeds!getEffectiveBuyingPowerSummary, Racing!Min, Seeds!Min, Racing!brokerVars,
    Seeds!brokerVars
<1>10. ASSUME NEW t, Racing!Sizes(t) PROVE Seeds!Sizes(t)
  <2>1. ASSUME NEW a, NEW p PROVE Racing!HardRails(a, p) = Seeds!HardRails(a, p)
    BY DEF Racing!HardRails, Seeds!HardRails, Racing!evaluateConcentrationCaps,
      Seeds!evaluateConcentrationCaps, Racing!marginUtilizationContractsFor,
      Seeds!marginUtilizationContractsFor,
      Racing!CapOf, Seeds!CapOf, Racing!Contracts, Seeds!Contracts, Racing!Exposure,
      Seeds!Exposure, Racing!Other, Seeds!Other
  <2>2. ASSUME NEW m, NEW r
               PROVE Racing!resolveSeedQuantity(m, r) = Seeds!resolveSeedQuantity(m, r)
    BY DEF Racing!resolveSeedQuantity, Seeds!resolveSeedQuantity, Racing!Min, Seeds!Min
  <2>3. ASSUME NEW a, NEW p PROVE Racing!modelContracts(a, p) = Seeds!modelContracts(a, p)
    BY DEF Racing!modelContracts, Seeds!modelContracts, Racing!CapOf, Seeds!CapOf,
      Racing!Contracts, Seeds!Contracts
  <2> QED BY <1>4, <1>5, <1>10, <2>1, <2>2, <2>3
    DEF Racing!Sizes, Seeds!Sizes, Racing!brokerVars, Seeds!brokerVars, Racing!CheaperPass,
    Seeds!CheaperPass, Racing!None, Seeds!None
<1>11. ASSUME NEW t, Racing!DryRuns(t) PROVE Seeds!DryRuns(t)
  BY <1>5, <1>11 DEF Racing!DryRuns, Seeds!DryRuns, Racing!brokerVars, Seeds!brokerVars
<1>12. ASSUME NEW t PROVE Racing!BrokerTakes(t) <=> Seeds!BrokerTakes(t)
  <2>1. Racing!Taken(t) = Seeds!Taken(t)
    BY DEF Racing!Taken, Seeds!Taken, Racing!Unused, Seeds!Unused
  <2>2. Racing!Cost(Racing!Taken(t)) = Seeds!Cost(Seeds!Taken(t))
    BY <2>1 DEF Racing!Cost, Seeds!Cost
  <2>3. Racing!Cardinality(book) = Seeds!Cardinality(book)
    BY DEF Racing!Cardinality, Seeds!Cardinality
  <2> QED BY <2>1, <2>2, <2>3, Zenon DEF Racing!BrokerTakes, Seeds!BrokerTakes
<1>13. ASSUME NEW t, Racing!OrderSeed(t) \/ Racing!trySpraySeed(t) \/ Racing!PlaceThrows(t)
              \/ Racing!CallThrows(t)
       PROVE Seeds!OrderSeed(t) \/ Seeds!trySpraySeed(t) \/ Seeds!PlaceThrows(t)
             \/ Seeds!CallThrows(t)
  BY <1>3, <1>12, <1>13 DEF Racing!OrderSeed, Racing!trySpraySeed, Racing!PlaceThrows,
    Racing!CallThrows, Racing!brokerVars, Seeds!brokerVars,
     Seeds!OrderSeed, Seeds!trySpraySeed, Seeds!PlaceThrows, Seeds!CallThrows
<1>14. ASSUME NEW o, Racing!OrderFills(o) \/ Racing!OrderDies(o)
              PROVE Seeds!OrderFills(o) \/ Seeds!OrderDies(o)
  BY <1>14 DEF Racing!OrderFills, Racing!OrderDies, Seeds!OrderFills, Seeds!OrderDies,
    Racing!Cost, Seeds!Cost, Racing!attemptVars, Seeds!attemptVars
<1>15. ASSUME NEW a, Racing!PositionCloses(a) PROVE Seeds!PositionCloses(a)
  BY <1>15 DEF Racing!PositionCloses, Seeds!PositionCloses, Racing!Exposure, Seeds!Exposure,
    Racing!NoPosition, Seeds!NoPosition, Racing!attemptVars, Seeds!attemptVars
<1>16. ASSUME Racing!RestrictionChanges \/ Racing!BenchExpires
              PROVE Seeds!RestrictionChanges \/ Seeds!BenchExpires
  BY <1>16 DEF Racing!RestrictionChanges, Racing!BenchExpires, Seeds!RestrictionChanges,
    Seeds!BenchExpires, Racing!attemptVars, Seeds!attemptVars, Racing!brokerVars,
    Seeds!brokerVars
<1> QED
  BY <1>1, <1>2, <1>6, <1>7, <1>8, <1>9, <1>10, <1>11, <1>13, <1>14, <1>15, <1>16, Zenon
  DEF Racing!Next, Seeds!Next, Racing!Seed, Seeds!Seed, Racing!AccountTypes, Seeds!AccountTypes

\* The steps the worlds of Seeding take.
LEMMA SeedingSteps ==
  ASSUME [MCNext]_<<vars, seedingVars, socketVars, world>>
  PROVE  /\ Seeds!Next \/ UNCHANGED seedingVars
         /\ world' = "alone" => world = "alone"
         /\ world = "alone" => (Seeds!Next /\ Settled) \/ UNCHANGED seedingVars
BY RacingIsSeeding DEF MCNext

\* However attempts in both accounts interleave with each other, with their own
\* cheaper and held passes, with exceptions and with fills: an attempt leads to
\* one order at most (seedSymbol returns the result of the pass that placed).
THEOREM OneOrderPerAttempt == MCSpec => []OneOrderPerAttemptInWorld
<1>1. MCInit => SeedInv
  BY SeedInit DEF MCInit
<1>2. SeedInv /\ [MCNext]_<<vars, seedingVars, socketVars, world>> => SeedInv'
  BY SeedingSteps, SeedStep, SeedStutters
<1>3. SeedInv => OneOrderPerAttemptInWorld
  BY SeedInvSuffices DEF OneOrderPerAttemptInWorld
<1> QED BY <1>1, <1>2, <1>3, PTL DEF MCSpec

\* Whichever of an attempt's passes placed it: an order of the cash account has
\* its days to expiry, and none costs more than the caller's limit
\* (checkCashSeedDte, heldContractFallback, maxLimitPrice).
THEOREM SeedsAreSuitable == MCSpec => []SeedIsSuitableInWorld
<1>1. MCInit => SeedInv
  BY SeedInit DEF MCInit
<1>2. SeedInv /\ [MCNext]_<<vars, seedingVars, socketVars, world>> => SeedInv'
  BY SeedingSteps, SeedStep, SeedStutters
<1>3. SeedInv => SeedIsSuitableInWorld
  BY SeedInvSuffices DEF SeedIsSuitableInWorld
<1> QED BY <1>1, <1>2, <1>3, PTL DEF MCSpec

\* Attempts that come one after the other, each with no order working, keep the
\* concentration caps and the leverage rail, with what they ordered counted
\* (resolveSeedQuantity).
THEOREM SeedsKeepTheCaps == MCSpec => []WithinCapsIfAlone
<1> DEFINE Inv == world = "alone" => AloneInv
<1>1. MCInit => Inv
  BY AloneInit DEF MCInit
<1>2. Inv /\ [MCNext]_<<vars, seedingVars, socketVars, world>> => Inv'
  BY SeedingSteps, AloneStep, AloneStutters
<1>3. Inv => WithinCapsIfAlone
  BY DEF AloneInv, WithinCapsIfAlone
<1> QED BY <1>1, <1>2, <1>3, PTL DEF MCSpec

-----------------------------------------------------------------------------
(* The feed's socket, for every age limit, queue length, number of log     *)
(* lines and stretch of time.                                              *)

\* The socket has a world of its own.
LEMMA SocketStep ==
  ASSUME [MCNext]_<<vars, seedingVars, socketVars, world>>
  PROVE  [Socket!Next]_socketVars
BY DEF MCNext

Times == Nat \cup {Socket!Never}
Entries == [of : Times, at : Times]

\* An entry is empty, or stamped with the time it came.
Stamped(entry) == entry.at # Socket!Never => entry.at = entry.of /\ entry.at \in Nat

\* What is on disk is stamped as truly as what is in memory: a process that
\* starts takes it from there.
CacheInv ==
  /\ now \in Nat /\ since \in Nat /\ since <= now
  /\ feedCache \in [Socket!Feeds -> Entries] /\ disk \in [Socket!Feeds -> Entries]
  /\ \A feed \in Socket!Feeds : Stamped(feedCache[feed]) /\ Stamped(disk[feed])
  /\ Socket!CacheAgeIsTrue

USE SocketAssumption DEF Times, Entries, Socket!Never

-----------------------------------------------------------------------------
(* The cache. *)

LEMMA CacheInit == ASSUME Socket!Init PROVE CacheInv
<1>1. \A feed \in Socket!Feeds : Socket!Empty[feed].at = Socket!Never
  BY DEF Socket!Empty
<1>2. Socket!Empty \in [Socket!Feeds -> Entries]
  BY DEF Socket!Empty
<1> QED BY <1>1, <1>2 DEF Socket!Init, CacheInv, Socket!CacheAgeIsTrue, Stamped

LEMMA RehydratingKeeps ==
  ASSUME CacheInv, Socket!startSecretSocketConnection
  PROVE  CacheInv'
<1>1. /\ feedCache' = [feed \in Socket!Feeds |-> Socket!Rehydrated(feed)]
      /\ now' = now /\ since' = since /\ disk' = disk
  BY DEF Socket!startSecretSocketConnection
<1>2. ASSUME NEW feed \in Socket!Feeds
      PROVE  /\ Socket!Rehydrated(feed) \in Entries /\ Stamped(Socket!Rehydrated(feed))
             /\ Socket!Rehydrated(feed).at # Socket!Never
                  => Socket!Rehydrated(feed).of >= since - MaxAge
  <2>1. disk[feed] \in Entries /\ feedCache[feed] \in Entries
    BY DEF CacheInv
  <2>2. Stamped(disk[feed]) /\ Stamped(feedCache[feed])
    BY DEF CacheInv
  <2>3. CASE Socket!Recent(disk[feed])
    <3>1. Socket!Rehydrated(feed) = disk[feed]
      BY <2>3 DEF Socket!Rehydrated
    <3>2. disk[feed].of >= since - MaxAge
      BY <2>1, <2>2, <2>3 DEF Socket!Recent, Stamped, CacheInv
    <3> QED BY <2>1, <2>2, <3>1, <3>2
  <2>4. CASE ~Socket!Recent(disk[feed])
    <3>1. Socket!Rehydrated(feed) = feedCache[feed]
      BY <2>4 DEF Socket!Rehydrated
    <3> QED BY <2>1, <2>2, <3>1 DEF CacheInv, Socket!CacheAgeIsTrue
  <2> QED BY <2>3, <2>4
<1>3. feedCache' \in [Socket!Feeds -> Entries]
  BY <1>1, <1>2
<1>4. \A feed \in Socket!Feeds : feedCache'[feed] = Socket!Rehydrated(feed)
  BY <1>1
<1> QED BY <1>1, <1>2, <1>3, <1>4 DEF CacheInv, Socket!CacheAgeIsTrue, Stamped

LEMMA RestartingKeeps == ASSUME CacheInv, Socket!Restarts PROVE CacheInv'
<1>1. feedCache' = Socket!Empty /\ disk' = disk /\ now' = now /\ since' = now
  BY DEF Socket!Restarts
<1>2. Socket!Empty \in [Socket!Feeds -> Entries] /\ \A feed \in Socket!Feeds :
      Socket!Empty[feed].at = Socket!Never
  BY DEF Socket!Empty
<1> QED BY <1>1, <1>2 DEF CacheInv, Socket!CacheAgeIsTrue, Stamped

\* Whatever part of an update reached the file, its entries are those of the old
\* file, of the old cache or of now.
LEMMA UpdateKeeps ==
  ASSUME CacheInv, NEW feeds \in SUBSET Socket!Feeds, Socket!Update(feeds)
  PROVE  CacheInv'
<1> DEFINE fresh == [of |-> now, at |-> now]
           first == [feedCache EXCEPT !["positions"] = feedCache'["positions"]]
<1>1. /\ feedCache' = [feed \in Socket!Feeds |-> IF feed \in feeds THEN fresh ELSE feedCache[feed]]
      /\ disk' \in {disk, feedCache', first}
      /\ now' = now /\ since' = since
  BY DEF Socket!Update
<1>2. now \in Nat /\ since \in Nat /\ since <= now
  BY DEF CacheInv
<1>3. fresh \in Entries /\ Stamped(fresh) /\ fresh.of >= since - MaxAge
  BY <1>2 DEF Stamped
<1>4. ASSUME NEW feed \in Socket!Feeds
      PROVE  /\ feedCache'[feed] \in Entries /\ Stamped(feedCache'[feed])
             /\ feedCache'[feed].at # Socket!Never => feedCache'[feed].of >= since - MaxAge
  <2>1. feedCache'[feed] \in {fresh, feedCache[feed]}
    BY <1>1
  <2>2. feedCache[feed] \in Entries /\ Stamped(feedCache[feed])
    BY DEF CacheInv
  <2> QED BY <1>3, <2>1, <2>2 DEF CacheInv, Socket!CacheAgeIsTrue
<1>5. feedCache' \in [Socket!Feeds -> Entries]
  BY <1>1, <1>4
<1>6. ASSUME NEW feed \in Socket!Feeds
      PROVE  first[feed] \in {feedCache[feed], feedCache'[feed]}
  BY DEF CacheInv, Socket!Feeds
<1>7. first \in [Socket!Feeds -> Entries]
  BY <1>5 DEF CacheInv, Socket!Feeds
<1>8. disk' \in [Socket!Feeds -> Entries]
  BY <1>1, <1>5, <1>7 DEF CacheInv
<1>9. ASSUME NEW feed \in Socket!Feeds PROVE Stamped(disk'[feed])
  <2>1. disk'[feed] \in {disk[feed], feedCache[feed], feedCache'[feed]}
    BY <1>1, <1>6
  <2>2. Stamped(disk[feed]) /\ Stamped(feedCache[feed])
    BY DEF CacheInv
  <2> QED BY <1>4, <2>1, <2>2
<1>10. Socket!CacheAgeIsTrue'
  BY <1>1, <1>4 DEF Socket!CacheAgeIsTrue, Stamped
<1> QED
  BY <1>1, <1>2, <1>4, <1>5, <1>8, <1>9, <1>10 DEF CacheInv, Stamped

LEMMA CacheStep ==
  ASSUME CacheInv, [Socket!Next]_socketVars
  PROVE  CacheInv'
<1>1. CASE UNCHANGED <<now, since, feedCache, disk>>
  BY <1>1 DEF CacheInv, Socket!CacheAgeIsTrue, Stamped
<1>2. CASE Socket!Connects \/ Socket!AuthAcked \/ Socket!AuthRejected \/ Socket!Disconnects
           \/ Socket!emitSecretLog
  BY <1>1, <1>2
     DEF Socket!Connects, Socket!AuthAcked, Socket!AuthRejected, Socket!Disconnects,
       Socket!emitSecretLog, Socket!cacheVars
<1>3. CASE Socket!TimePasses
  <2>1. /\ now' = now + 1 /\ since' = since /\ feedCache' = feedCache /\ disk' = disk
    BY <1>3 DEF Socket!TimePasses, Socket!cacheVars
  <2> QED BY <2>1 DEF CacheInv, Socket!CacheAgeIsTrue, Stamped
<1>4. CASE \E feeds \in SUBSET Socket!Feeds \ {{}} : Socket!Update(feeds)
  BY <1>4, UpdateKeeps
<1>5. CASE UNCHANGED socketVars
  BY <1>1, <1>5 DEF socketVars
<1> QED
  BY <1>2, <1>3, <1>4, <1>5, RehydratingKeeps, RestartingKeeps DEF Socket!Next

\* However the process restarts, the link breaks and writes of the file fail:
\* the cache never looks newer than it is, and a process that starts takes
\* nothing that was too old by then (rehydrateSecretCacheFromDisk).
THEOREM CacheNeverLooksNewer == MCSpec => []CacheAgeIsTrue
<1>1. MCInit => CacheInv
  BY CacheInit DEF MCInit
<1>2. CacheInv /\ [MCNext]_<<vars, seedingVars, socketVars, world>> => CacheInv'
  BY SocketStep, CacheStep
<1>3. CacheInv => CacheAgeIsTrue
  BY DEF CacheInv, CacheAgeIsTrue
<1> QED BY <1>1, <1>2, <1>3, PTL DEF MCSpec

-----------------------------------------------------------------------------
(* Sequences of numbered lines. *)

InOrder(s, top) ==
  /\ s \in Seq(Nat)
  /\ \A i \in 1 .. Len(s) : s[i] \in 1 .. top
  /\ \A i, j \in 1 .. Len(s) : i < j => s[i] < s[j]

\* The lines right after base.
RunFrom(q, base) == q \in Seq(Nat) /\ \A i \in 1 .. Len(q) : q[i] = base + i

\* Of the lines up to top, s has every one that the queue need not have dropped
\* when total were said.
Accounted(s, top, total) ==
  \A line \in 1 .. top :
    (\E i \in 1 .. Len(s) : s[i] = line) \/ total - line >= MaxPending

LEMMA JoinedAt ==
  ASSUME NEW s \in Seq(Nat), NEW q \in Seq(Nat)
  PROVE  /\ s \o q \in Seq(Nat) /\ Len(s \o q) = Len(s) + Len(q)
         /\ \A i \in 1 .. Len(s) : (s \o q)[i] = s[i]
         /\ \A i \in Len(s) + 1 .. Len(s) + Len(q) :
              i - Len(s) \in 1 .. Len(q) /\ (s \o q)[i] = q[i - Len(s)]
OBVIOUS

LEMMA Joined ==
  ASSUME NEW base \in Nat, NEW total \in Nat, NEW s, NEW q,
         InOrder(s, base), RunFrom(q, base), Accounted(s, base, total)
  PROVE  /\ InOrder(s \o q, base + Len(q))
         /\ Accounted(s \o q, base + Len(q), total)
<1> DEFINE n == Len(s)
           k == Len(q)
           l == s \o q
<1>1. s \in Seq(Nat) /\ q \in Seq(Nat) /\ n \in Nat /\ k \in Nat
  BY DEF InOrder, RunFrom
<1>2. /\ l \in Seq(Nat) /\ Len(l) = n + k
      /\ \A i \in 1 .. n : l[i] = s[i]
      /\ \A i \in n + 1 .. n + k : i - n \in 1 .. k /\ l[i] = q[i - n]
  BY <1>1, JoinedAt
<1>3. /\ \A i \in 1 .. n : s[i] \in 1 .. base
      /\ \A i, j \in 1 .. n : i < j => s[i] < s[j]
  BY DEF InOrder
<1>4. \A i \in 1 .. k : q[i] = base + i
  BY DEF RunFrom
<1>5. \A line \in 1 .. base :
        (\E i \in 1 .. n : s[i] = line) \/ total - line >= MaxPending
  BY DEF Accounted
<1> HIDE DEF n, k, l
<1>6. \A i \in n + 1 .. n + k : l[i] = base + (i - n)
  BY <1>2, <1>4
<1>7. ASSUME NEW i \in 1 .. n + k
      PROVE  \/ i \in 1 .. n /\ l[i] = s[i] /\ s[i] \in 1 .. base
             \/ i \in n + 1 .. n + k /\ l[i] = base + (i - n)
  <2>1. i \in 1 .. n \/ i \in n + 1 .. n + k
    BY <1>1
  <2> QED BY <1>2, <1>3, <1>6, <2>1
<1>8. InOrder(l, base + k)
  <2>1. ASSUME NEW i \in 1 .. n + k PROVE l[i] \in 1 .. base + k
    <3>1. CASE l[i] \in 1 .. base
      BY <1>1, <3>1
    <3>2. CASE i \in n + 1 .. n + k /\ l[i] = base + (i - n)
      BY <1>1, <3>2
    <3> QED BY <1>7, <3>1, <3>2
  <2>2. ASSUME NEW i \in 1 .. n + k, NEW j \in 1 .. n + k, i < j PROVE l[i] < l[j]
    <3>1. CASE j \in 1 .. n
      <4>1. i \in 1 .. n
        BY <1>1, <2>2, <3>1
      <4> QED BY <1>2, <1>3, <2>2, <3>1, <4>1
    <3>2. CASE j \in n + 1 .. n + k
      BY SMTT(30), <1>1, <1>6, <1>7, <2>2, <3>2
    <3> QED BY <1>1, <3>1, <3>2
  <2> QED BY <1>2, <2>1, <2>2 DEF InOrder
<1>9. ASSUME NEW line \in 1 .. base + k
      PROVE  (\E i \in 1 .. n + k : l[i] = line) \/ total - line >= MaxPending
  <2>1. CASE line > base
    <3> DEFINE i == n + (line - base)
    <3>1. i \in n + 1 .. n + k /\ i \in 1 .. n + k /\ i - n = line - base
      BY <1>1, <2>1
    <3>2. l[i] = line
      BY <1>1, <1>6, <3>1
    <3> QED BY <3>1, <3>2
  <2>2. CASE line \in 1 .. base
    <3>1. CASE \E i \in 1 .. n : s[i] = line
      <4>1. PICK i \in 1 .. n : s[i] = line
        BY <3>1
      <4>2. i \in 1 .. n + k /\ l[i] = line
        BY <1>1, <1>2, <4>1
      <4> QED BY <4>2
    <3> QED BY <1>5, <2>2, <3>1
  <2> QED BY <2>1, <2>2
<1>10. Accounted(l, base + k, total)
  BY <1>2, <1>9 DEF Accounted
<1> QED BY <1>8, <1>10 DEF k, l

LEMMA AppendedRun ==
  ASSUME NEW base \in Nat, NEW q, RunFrom(q, base)
  PROVE  /\ RunFrom(Append(q, base + Len(q) + 1), base)
         /\ Len(Append(q, base + Len(q) + 1)) = Len(q) + 1
<1> DEFINE k == Len(q)
           r == Append(q, base + k + 1)
<1>1. q \in Seq(Nat) /\ k \in Nat /\ \A i \in 1 .. k : q[i] = base + i
  BY DEF RunFrom
<1>2. /\ r \in Seq(Nat) /\ Len(r) = k + 1 /\ r[k + 1] = base + k + 1
      /\ \A i \in 1 .. k : r[i] = q[i]
  BY <1>1
<1> HIDE DEF k, r
<1>3. ASSUME NEW i \in 1 .. k + 1 PROVE r[i] = base + i
  <2>1. CASE i = k + 1
    BY <1>1, <1>2, <2>1
  <2>2. CASE i # k + 1
    <3>1. i \in 1 .. k
      BY <1>1, <2>2
    <3> QED BY <1>1, <1>2, <3>1
  <2> QED BY <2>1, <2>2
<1>4. RunFrom(r, base)
  BY <1>2, <1>3 DEF RunFrom
<1> QED BY <1>2, <1>4 DEF k, r

LEMMA TailOfRun ==
  ASSUME NEW base \in Nat, NEW q, RunFrom(q, base), q # << >>
  PROVE  RunFrom(Tail(q), base + 1) /\ Len(Tail(q)) = Len(q) - 1
<1> DEFINE k == Len(q)
           r == Tail(q)
<1>1. q \in Seq(Nat) /\ k \in Nat /\ \A i \in 1 .. k : q[i] = base + i
  BY DEF RunFrom
<1>2. /\ r \in Seq(Nat) /\ Len(r) = k - 1
      /\ \A i \in 1 .. k - 1 : r[i] = q[i + 1]
  BY <1>1
<1> HIDE DEF k, r
<1>3. ASSUME NEW i \in 1 .. k - 1 PROVE r[i] = base + 1 + i
  <2>1. i + 1 \in 1 .. k
    BY <1>1
  <2>2. q[i + 1] = base + (i + 1)
    BY <1>1, <2>1
  <2>3. r[i] = q[i + 1]
    BY <1>2
  <2> QED BY <2>2, <2>3
<1>4. RunFrom(r, base + 1)
  BY <1>2, <1>3 DEF RunFrom
<1> QED BY <1>2, <1>4 DEF k, r

-----------------------------------------------------------------------------
(* The log lines, of a process that has a key. *)

\* The queue is the end of what was said; what was sent comes before it, in
\* order; and of the rest only the lines the queue had no room for are missing.
LogsAccounted(s, q, total) ==
  /\ total \in Nat /\ Len(q) <= MaxPending /\ Len(q) <= total
  /\ RunFrom(q, total - Len(q))
  /\ InOrder(s, total - Len(q))
  /\ Accounted(s, total - Len(q), total)

\* Only an acknowledgement makes a connection one that lines can go out on.
LinkInv ==
  /\ connected => up
  /\ connected /\ authed => pending = << >>

LogInv == LogsAccounted(sent, pending, said) /\ LinkInv

LEMMA NothingSaid == LogsAccounted(<< >>, << >>, 0)
BY DEF LogsAccounted, RunFrom, InOrder, Accounted

\* The acknowledgement's flush.
LEMMA Flushed ==
  ASSUME NEW s, NEW q, NEW total, LogsAccounted(s, q, total)
  PROVE  LogsAccounted(s \o q, << >>, total)
<1>1. q \in Seq(Nat) /\ total \in Nat /\ Len(q) \in Nat /\ Len(q) <= total
  BY DEF LogsAccounted, RunFrom
<1>2. total - Len(q) \in Nat /\ (total - Len(q)) + Len(q) = total
  BY <1>1
<1>3. InOrder(s \o q, total) /\ Accounted(s \o q, total, total)
  <2> DEFINE base == total - Len(q)
  <2>1. InOrder(s, base) /\ RunFrom(q, base) /\ Accounted(s, base, total)
    BY DEF LogsAccounted
  <2>2. base \in Nat /\ base + Len(q) = total
    BY <1>2
  <2> HIDE DEF base
  <2>3. InOrder(s \o q, base + Len(q)) /\ Accounted(s \o q, base + Len(q), total)
    BY <1>1, <2>1, <2>2, Joined
  <2> QED BY <2>2, <2>3
<1>4. RunFrom(<< >>, total) /\ Len(<< >>) = 0 /\ total - 0 = total
  BY <1>1 DEF RunFrom
<1> QED BY <1>1, <1>3, <1>4 DEF LogsAccounted

\* A line that goes out at once: nothing waits before it.
LEMMA SentAtOnce ==
  ASSUME NEW s, NEW total, LogsAccounted(s, << >>, total)
  PROVE  LogsAccounted(Append(s, total + 1), << >>, total + 1)
<1> DEFINE q == <<total + 1>>
<1>1. total \in Nat /\ Len(<< >>) = 0 /\ total - 0 = total
  BY DEF LogsAccounted
<1>2. InOrder(s, total) /\ Accounted(s, total, total)
  BY <1>1 DEF LogsAccounted
<1>3. Accounted(s, total, total + 1)
  BY <1>1, <1>2 DEF Accounted
<1>4. RunFrom(q, total) /\ Len(q) = 1
  BY <1>1 DEF RunFrom
<1>5. s \o q = Append(s, total + 1)
  BY <1>1, <1>2 DEF InOrder
<1> HIDE DEF q
<1>6. InOrder(s \o q, total + Len(q)) /\ Accounted(s \o q, total + Len(q), total + 1)
  <2>1. total + 1 \in Nat
    BY <1>1
  <2> QED BY <1>1, <1>2, <1>3, <1>4, <2>1, Joined
<1>7. RunFrom(<< >>, total + 1) /\ total + 1 \in Nat /\ (total + 1) - 0 = total + 1
  BY <1>1 DEF RunFrom
<1> QED BY <1>1, <1>4, <1>5, <1>6, <1>7 DEF LogsAccounted

\* A line that has to wait: the oldest goes if there is no room.
LEMMA Waits ==
  ASSUME NEW s, NEW q, NEW total, LogsAccounted(s, q, total)
  PROVE  LogsAccounted(s, IF Len(q) < MaxPending THEN Append(q, total + 1)
                          ELSE Append(Tail(q), total + 1), total + 1)
<1> DEFINE k == Len(q)
           base == total - k
<1>1. /\ q \in Seq(Nat) /\ total \in Nat /\ k \in Nat /\ k <= total /\ k <= MaxPending
      /\ RunFrom(q, base) /\ InOrder(s, base) /\ Accounted(s, base, total)
  BY DEF LogsAccounted, RunFrom
<1>2. base \in Nat /\ base + k + 1 = total + 1 /\ total + 1 \in Nat
  BY <1>1
<1>3. Accounted(s, base, total + 1)
  BY <1>1, <1>2 DEF Accounted
<1>4. CASE k < MaxPending
  <2> DEFINE r == Append(q, total + 1)
  <2>1. RunFrom(r, base) /\ Len(r) = k + 1
    BY <1>1, <1>2, AppendedRun
  <2>2. (total + 1) - (k + 1) = base /\ k + 1 <= MaxPending /\ k + 1 <= total + 1
    BY <1>1, <1>4
  <2> HIDE DEF base, r
  <2>3. LogsAccounted(s, r, total + 1)
    BY <1>1, <1>2, <1>3, <2>1, <2>2 DEF LogsAccounted
  <2> QED BY <1>4, <2>3 DEF k, r
<1>5. CASE ~(k < MaxPending)
  <2> DEFINE r == Append(Tail(q), total + 1)
  <2>1. k = MaxPending /\ q # << >>
    BY <1>1, <1>5
  <2>2. RunFrom(Tail(q), base + 1) /\ Len(Tail(q)) = k - 1
    BY <1>1, <1>2, <2>1, TailOfRun
  <2>3. /\ (base + 1) + Len(Tail(q)) + 1 = total + 1
        /\ base + 1 \in Nat /\ Len(Tail(q)) + 1 = k
    <3>1. total \in Nat /\ k \in Nat /\ base \in Nat /\ base + k = total
      BY <1>1
    <3> DEFINE m == Len(Tail(q))
    <3> HIDE DEF k, base, m
    <3>2. m = k - 1
      BY <2>2 DEF m
    <3>3. (base + 1) + m + 1 = total + 1 /\ base + 1 \in Nat /\ m + 1 = k
      BY <3>1, <3>2
    <3> QED BY <3>3 DEF m
  <2>4. RunFrom(r, base + 1) /\ Len(r) = k
    <3>1. /\ RunFrom(Append(Tail(q), (base + 1) + Len(Tail(q)) + 1), base + 1)
          /\ Len(Append(Tail(q), (base + 1) + Len(Tail(q)) + 1)) = Len(Tail(q)) + 1
      BY <2>2, <2>3, AppendedRun, Zenon
    <3> QED BY <2>3, <3>1
  <2>5. InOrder(s, base + 1)
    BY <1>1, <1>2 DEF InOrder
  <2>6. Accounted(s, base + 1, total + 1)
    <3>0. total + 1 - (base + 1) = MaxPending
      BY <1>1, <2>1
    <3> HIDE DEF base
    <3>1. ASSUME NEW line \in 1 .. base + 1
          PROVE  (\E i \in 1 .. Len(s) : s[i] = line) \/ total + 1 - line >= MaxPending
      <4>1. CASE line = base + 1
        BY <1>1, <3>0, <4>1
      <4>2. CASE line # base + 1
        <5>1. line \in 1 .. base
          BY <1>2, <4>2
        <5> QED BY <1>1, <1>3, <5>1 DEF Accounted
      <4> QED BY <4>1, <4>2
    <3> QED BY <1>1, <3>1 DEF Accounted
  <2>7. (total + 1) - k = base + 1 /\ k <= total + 1
    BY <1>1
  <2> HIDE DEF base, r
  <2>8. LogsAccounted(s, r, total + 1)
    BY <1>1, <1>2, <2>4, <2>5, <2>6, <2>7 DEF LogsAccounted
  <2> QED BY <1>5, <2>8 DEF k, r
<1> QED BY <1>4, <1>5

LEMMA LogStep ==
  ASSUME LogInv, [Socket!Next]_socketVars
  PROVE  LogInv'
<1>1. CASE UNCHANGED <<up, Socket!linkVars, Socket!logVars>>
  BY <1>1 DEF Socket!linkVars, Socket!logVars, LogInv, LinkInv
<1>2. CASE (\E feeds \in SUBSET Socket!Feeds \ {{}} : Socket!Update(feeds)) \/ Socket!TimePasses
  BY <1>1, <1>2 DEF Socket!Update, Socket!TimePasses
<1>3. CASE Socket!startSecretSocketConnection
  BY <1>3 DEF Socket!startSecretSocketConnection, Socket!linkVars, Socket!logVars, LogInv,
    LinkInv
<1>4. CASE Socket!Connects \/ Socket!Disconnects
  BY <1>4 DEF Socket!Connects, Socket!Disconnects, Socket!linkVars, Socket!logVars, LogInv,
    LinkInv
<1>5. CASE Socket!AuthRejected
  BY <1>5 DEF Socket!AuthRejected, Socket!linkVars, Socket!logVars, LogInv, LinkInv
<1>6. CASE Socket!Restarts
  BY <1>6, NothingSaid DEF Socket!Restarts, LogInv, LinkInv
<1>7. CASE Socket!AuthAcked
  <2>1. sent' = sent \o pending /\ pending' = << >> /\ said' = said
    BY <1>7 DEF Socket!AuthAcked
  <2>2. LinkInv'
    BY <1>7 DEF Socket!AuthAcked, LogInv, LinkInv
  <2>3. LogsAccounted(sent \o pending, << >>, said)
    BY Flushed DEF LogInv
  <2> QED BY <2>1, <2>2, <2>3 DEF LogInv
<1>8. CASE Socket!emitSecretLog
  <2>1. said' = said + 1 /\ UNCHANGED <<up, connected, authed>>
    BY <1>8 DEF Socket!emitSecretLog, Socket!linkVars
  <2>2. CASE Socket!isReadyToEmitSecretLog
    <3>1. pending = << >>
      BY <2>2 DEF Socket!isReadyToEmitSecretLog, LogInv, LinkInv
    <3>2. sent' = Append(sent, said + 1) /\ pending' = pending
      BY <1>8, <2>1, <2>2 DEF Socket!emitSecretLog
    <3>3. LogsAccounted(Append(sent, said + 1), << >>, said + 1)
      BY <3>1, SentAtOnce DEF LogInv
    <3>4. LinkInv'
      BY <2>1, <3>1, <3>2 DEF LogInv, LinkInv
    <3> QED BY <2>1, <3>1, <3>2, <3>3, <3>4 DEF LogInv
  <2>3. CASE ~Socket!isReadyToEmitSecretLog
    <3>1. sent' = sent /\ pending' = Socket!Queued(said + 1)
      BY <1>8, <2>1, <2>3 DEF Socket!emitSecretLog
    <3>2. LogsAccounted(sent, Socket!Queued(said + 1), said + 1)
      BY Waits DEF LogInv, Socket!Queued
    <3>3. LinkInv'
      BY <2>1, <2>3 DEF Socket!isReadyToEmitSecretLog, LogInv, LinkInv
    <3> QED BY <2>1, <3>1, <3>2, <3>3 DEF LogInv
  <2> QED BY <2>2, <2>3
<1>9. CASE UNCHANGED socketVars
  BY <1>1, <1>9 DEF socketVars, Socket!linkVars, Socket!logVars
<1> QED
  BY <1>2, <1>3, <1>4, <1>5, <1>6, <1>7, <1>8, <1>9 DEF Socket!Next

LEMMA LogInvSuffices ==
  ASSUME LogInv
  PROVE  Socket!LogsGoOut
<1> DEFINE lines == sent \o pending
<1>1. Socket!isReadyToEmitSecretLog => pending = << >>
  BY DEF Socket!isReadyToEmitSecretLog, LogInv, LinkInv
<1>2. LogsAccounted(lines, << >>, said)
  BY Flushed DEF LogInv
<1>3. /\ said \in Nat /\ lines \in Seq(Nat) /\ said - Len(<< >>) = said
      /\ \A i, j \in 1 .. Len(lines) : i < j => lines[i] < lines[j]
  BY <1>2 DEF LogsAccounted, InOrder
<1>4. \A line \in 1 .. said :
        (\E i \in 1 .. Len(lines) : lines[i] = line) \/ said - line >= MaxPending
  BY <1>2, <1>3 DEF LogsAccounted, Accounted
<1> HIDE DEF lines
<1>5. DOMAIN lines = 1 .. Len(lines)
  BY <1>3
<1>6. \A line \in 1 .. said : line \in Socket!ToSet(lines) \/ said - line >= MaxPending
  BY <1>4, <1>5 DEF Socket!ToSet
<1>7. \A i, j \in DOMAIN lines : i < j => lines[i] < lines[j]
  BY <1>3, <1>5
<1> QED BY <1>1, <1>6, <1>7 DEF Socket!LogsGoOut, lines

\* However the process restarts and the link breaks, is refused and comes back:
\* with a key, a line is lost only to the cap, no line overtakes another, and
\* none waits once lines can go out (emitSecretLog, flushPendingSecretLogs).
THEOREM LinesGoOut == MCSpec => []LogsGoOut
<1>1. MCInit => LogInv
  BY NothingSaid DEF MCInit, Socket!Init, LogInv, LinkInv
<1>2. LogInv /\ [MCNext]_<<vars, seedingVars, socketVars, world>> => LogInv'
  BY SocketStep, LogStep
<1>3. LogInv => LogsGoOut
  BY LogInvSuffices DEF LogsGoOut
<1> QED BY <1>1, <1>2, <1>3, PTL DEF MCSpec
=============================================================================
